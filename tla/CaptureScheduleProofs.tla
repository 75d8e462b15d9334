------------------------- MODULE CaptureScheduleProofs -------------------------
(***************************************************************************)
(* Proofs about CaptureSchedule for every list of slots, every number of   *)
(* failures and any number of collectors beside one another: what is on    *)
(* record is published, recovered and called complete only when it is, and *)
(* a slot is lost from it only by a collector that did not run alone.      *)
(***************************************************************************)
EXTENDS CaptureSchedule, FiniteSetTheorems, TLAPS

-----------------------------------------------------------------------------
(* The invariant.                                                          *)

Working   == {"attempt", "recover", "verify", "stage", "publish", "accept"}
Unwritten == {"attempt", "recover", "verify", "stage"}
Healed    == {"verify", "stage", "publish", "accept"}
Cleared   == {"stage", "publish", "accept"}

\* A record of slots is backed by the disk: each slot by a bundle of its own.
Backed(accepted) ==
  \A s \in DOMAIN accepted :
    bundle[accepted[s]] = "published" /\ slotOf[accepted[s]] = s

\* A collector at work has a numbered incident for the slot it is at.
HasIncident(p) ==
  /\ inc[p] \in (1..made) \cup {NoOne}
  /\ pc[p] = "lease" => at[p] <= Len(Slots)
  /\ pc[p] \in Working =>
       inc[p] \in 1..made /\ at[p] <= Len(Slots) /\ slotOf[inc[p]] = Slots[at[p]]

\* How far its bundle is and what its attempt has left behind.
InOrder(p) ==
  /\ pc[p] \in Unwritten => bundle[inc[p]] = "none"
  /\ pc[p] = "accept" => bundle[inc[p]] = "published"
  /\ pc[p] \in Healed => fault # inc[p]
  /\ pc[p] \in Cleared => sound[p] /\ journal # inc[p]

OwnIncidents ==
  \A p, q \in Collectors : inc[p] = inc[q] /\ inc[p] # NoOne => p = q

Numbered == \A i \in Incidents : bundle[i] # "none" => i \in 1..made

\* A fault in the lab is under a block of its own name.
FaultIsBlocked == fault # NoOne => journal = fault

\* A state that is called complete has every slot.
Whole(state) == state.complete => DOMAIN state.accepted = SlotSet

IInv ==
  /\ TypeOK
  /\ \A p \in Collectors : HasIncident(p)
  /\ \A p \in Collectors : InOrder(p)
  /\ OwnIncidents /\ Numbered
  /\ Backed(saved.accepted) /\ \A p \in Collectors : Backed(mem[p].accepted)
  /\ \A p \in Collectors : Whole(mem[p])
  /\ FaultIsBlocked /\ OnlyRecoveredIsKept /\ CompleteIsExact

\* The record of one slot more.
LEMMA AcceptedMember ==
  ASSUME NEW a \in Accepted
  PROVE  /\ DOMAIN a \subseteq SlotSet
         /\ \A s \in DOMAIN a : a[s] \in Incidents
         /\ \A s \in SlotSet, i \in Incidents :
              [t \in DOMAIN a \cup {s} |-> IF t = s THEN i ELSE a[t]] \in Accepted
<1>1. PICK S \in SUBSET SlotSet : a \in [S -> Incidents]
  BY DEF Accepted
<1>2. ASSUME NEW s \in SlotSet, NEW i \in Incidents
      PROVE  [t \in DOMAIN a \cup {s} |-> IF t = s THEN i ELSE a[t]] \in Accepted
  <2> DEFINE T == S \cup {s}
             b == [t \in T |-> IF t = s THEN i ELSE a[t]]
  <2>1. T \in SUBSET SlotSet /\ b \in [T -> Incidents]
    BY <1>1, <1>2
  <2>2. b \in Accepted
    BY <2>1 DEF Accepted
  <2>3. DOMAIN a = S
    BY <1>1
  <2> QED
    BY <2>2, <2>3
<1> QED
  BY <1>1, <1>2

\* The record of no slot is a record.
LEMMA EmptyAccepted == <<>> \in Accepted /\ DOMAIN <<>> = {}
<1>1. <<>> \in [{} -> Incidents]
  OBVIOUS
<1>2. {} \in SUBSET SlotSet
  OBVIOUS
<1> QED
  BY <1>1, <1>2 DEF Accepted

\* The slots of the schedule are slots.
LEMMA SlotRange == \A k \in 1..Len(Slots) : Slots[k] \in SlotSet
BY ScheduleAssumption DEF SlotSet, Range

\* There are as many slots as the schedule is long.
LEMMA SlotCount == IsFiniteSet(SlotSet) /\ Cardinality(SlotSet) = Len(Slots)
<1>1. Len(Slots) \in Nat /\ DOMAIN Slots = 1..Len(Slots)
  BY ScheduleAssumption
<1>2. IsFiniteSet(1..Len(Slots)) /\ Cardinality(1..Len(Slots)) = Len(Slots)
  <2> DEFINE n == Len(Slots)
  <2>1. n \in Nat
    BY <1>1
  <2> HIDE DEF n
  <2>2. 1 \in Int /\ n \in Int /\ n - 1 + 1 = n /\ (1 > n => n = 0)
    BY <2>1
  <2>3. IsFiniteSet(1..n) /\ Cardinality(1..n) = IF 1 > n THEN 0 ELSE n - 1 + 1
    BY <2>2, FS_Interval
  <2>4. IsFiniteSet(1..n) /\ Cardinality(1..n) = n
    BY <2>2, <2>3
  <2> QED
    BY <2>4 DEF n
<1>3. Slots \in [1..Len(Slots) -> SlotSet]
  BY <1>1, SlotRange, ScheduleAssumption
<1>4. Slots \in Surjection(1..Len(Slots), SlotSet)
  BY <1>1, <1>3 DEF Surjection, SlotSet, Range
<1>5. Slots \in Injection(1..Len(Slots), SlotSet)
  BY <1>3, ScheduleAssumption DEF Injection
<1> QED
  BY <1>2, <1>4, <1>5, FS_Surjection

\* A record with as many slots as the schedule has them all.
LEMMA FullRecord ==
  ASSUME NEW a \in Accepted, Cardinality(DOMAIN a) = Len(Slots)
  PROVE  DOMAIN a = SlotSet
BY SlotCount, AcceptedMember, FS_Subset

\* Such a record names one published bundle for each slot.
LEMMA SealedRecord ==
  ASSUME NEW a \in Accepted, Backed(a), IsInjective(a), Cardinality(DOMAIN a) = Len(Slots)
  PROVE  /\ Cardinality(Range(a)) = Len(Slots)
         /\ {slotOf[i] : i \in Range(a)} = SlotSet
         /\ \A i \in Range(a) : bundle[i] = "published"
<1>1. DOMAIN a = SlotSet
  BY FullRecord
<1>2. IsFiniteSet(DOMAIN a)
  BY <1>1, SlotCount
<1>3. a \in [DOMAIN a -> Range(a)]
  BY DEF Accepted, Range
<1>4. a \in Surjection(DOMAIN a, Range(a))
  BY <1>3 DEF Surjection, Range
<1>5. a \in Injection(DOMAIN a, Range(a))
  BY <1>3 DEF Injection
<1>6. Cardinality(Range(a)) = Len(Slots)
  BY <1>2, <1>4, <1>5, FS_Surjection
<1>7. {slotOf[i] : i \in Range(a)} = SlotSet
  BY <1>1 DEF Backed, Range
<1>8. \A i \in Range(a) : bundle[i] = "published"
  BY DEF Backed, Range
<1> QED
  BY <1>6, <1>7, <1>8

\* The invariant holds initially.
LEMMA InitIInv == Init => IInv
<1> SUFFICES ASSUME Init PROVE IInv
  OBVIOUS
<1>1. Slots[1] \in SlotSet
  BY SlotRange, ScheduleAssumption
<1>2. TypeOK
  <2>1. saved \in State
    BY EmptyAccepted DEF Init, NewState, State
  <2>2. mem \in [Collectors -> State]
    BY EmptyAccepted DEF Init, NewState, State
  <2>3. /\ pc \in [Collectors -> PCs] /\ at \in [Collectors -> 1..(Len(Slots) + 1)]
        /\ inc \in [Collectors -> Incidents \cup {NoOne}] /\ sound \in [Collectors -> BOOLEAN]
    BY ScheduleAssumption DEF Init, PCs
  <2>4. /\ bundle \in [Incidents -> {"none", "staged", "published"}]
        /\ slotOf \in [Incidents -> SlotSet] /\ made \in 0..MaxIncidents
    BY <1>1, ScheduleAssumption DEF Init
  <2>5. mishaps \in 0..MaxMishaps
    BY ScheduleAssumption DEF Init
  <2>7. paused \in BOOLEAN /\ sealed \subseteq Incidents /\ beside \subseteq Collectors
    BY Zenon DEF Init
  <2>6. /\ lease \in Collectors \cup {Dead, NoOne}
        /\ journal \in Incidents \cup {NoOne} /\ fault \in Incidents \cup {NoOne}
    BY DEF Init
  <2> QED
    BY <2>1, <2>2, <2>3, <2>4, <2>5, <2>6, <2>7 DEF TypeOK
<1>3. Backed(saved.accepted) /\ \A p \in Collectors : Backed(mem[p].accepted) /\ Whole(mem[p])
  BY EmptyAccepted DEF Init, NewState, Backed, Whole
<1>4. \A p \in Collectors : HasIncident(p) /\ InOrder(p)
  BY DEF Init, HasIncident, InOrder, Working, Unwritten, Healed, Cleared
<1> QED
  BY <1>2, <1>3, <1>4 DEF Init, NewState, IInv, OwnIncidents, Numbered, FaultIsBlocked,
     OnlyRecoveredIsKept, CompleteIsExact

-----------------------------------------------------------------------------
(* The steps.                                                              *)

\* No incident is called NoOne.
LEMMA NoOneIsNoIncident ==
  /\ \A i \in Nat : i # NoOne
  /\ \A i \in Incidents : i # NoOne
<1>1. NoOne \notin Nat
  BY ScheduleAssumption
<1> QED
  BY <1>1 DEF Incidents

\* Those made are incidents.
LEMMA MadeAreIncidents == IInv => 1..made \subseteq Incidents
<1> SUFFICES ASSUME IInv PROVE 1..made \subseteq Incidents
  OBVIOUS
<1>1. MaxIncidents \in Nat /\ made \in 0..MaxIncidents
  BY ScheduleAssumption DEF IInv, TypeOK
<1> QED
  BY <1>1 DEF Incidents

\* A sealed cohort stays as it is: its bundles are published and its incidents
\* are not numbered again.
LEMMA SealedStays ==
  ASSUME IInv, sealed' = sealed, Whole(saved)',
         \A i \in Incidents : bundle[i] = "published" =>
           bundle'[i] = "published" /\ slotOf'[i] = slotOf[i]
  PROVE  CompleteIsExact'
<1>1. CASE sealed = {}
  BY <1>1 DEF CompleteIsExact, Whole
<1>2. CASE sealed # {}
  <2>1. sealed \subseteq Incidents /\ \A i \in sealed : bundle[i] = "published"
    BY <1>2 DEF IInv, TypeOK, CompleteIsExact
  <2>2. \A i \in sealed : bundle'[i] = "published" /\ slotOf'[i] = slotOf[i]
    BY <2>1
  <2>3. {slotOf'[i] : i \in sealed} = {slotOf[i] : i \in sealed}
    BY <2>2
  <2>4. Cardinality(sealed) = Len(Slots) /\ {slotOf[i] : i \in sealed} = SlotSet
    BY <1>2 DEF IInv, CompleteIsExact
  <2> QED
    BY <2>2, <2>3, <2>4 DEF CompleteIsExact, Whole
<1> QED
  BY <1>1, <1>2

\* Steps that leave bundles, incidents and attempts alone, and may only clear
\* the lab and stop collectors.
LEMMA Frame ==
  ASSUME IInv, TypeOK',
         UNCHANGED <<raw, inc, sound>>,
         journal' \in {journal, NoOne}, fault' \in {fault, NoOne},
         fault' # NoOne => journal' = journal,
         \A p \in Collectors : pc'[p] \in Working \cup {"lease"} =>
           at'[p] = at[p] /\ (pc'[p] = pc[p] \/ (pc'[p] = "lease" /\ at[p] <= Len(Slots))),
         Backed(saved'.accepted), \A p \in Collectors : Backed(mem'[p].accepted),
         \A p \in Collectors : Whole(mem[p])',
         CompleteIsExact'
  PROVE  IInv'
<1> USE DEF raw
<1>1. \A p \in Collectors : HasIncident(p)'
  BY DEF IInv, HasIncident, Working
<1>2. ASSUME NEW p \in Collectors PROVE InOrder(p)'
  <2>1. pc'[p] \in Working => inc[p] # NoOne /\ pc'[p] = pc[p]
    <3>1. \A i \in 1..made : i \in Nat
      OBVIOUS
    <3>2. "lease" \notin Working
      BY DEF Working
    <3> QED
      BY <3>1, <3>2, NoOneIsNoIncident DEF IInv, HasIncident
  <2>2. Unwritten \subseteq Working /\ Healed \subseteq Working /\ Cleared \subseteq Working
        /\ "accept" \in Working
    BY DEF Unwritten, Healed, Cleared, Working
  <2> QED
    BY <2>1, <2>2 DEF IInv, InOrder
<1>3. OwnIncidents' /\ Numbered' /\ FaultIsBlocked'
  BY DEF IInv, OwnIncidents, Numbered, FaultIsBlocked
<1>4. Backed(saved.accepted)' /\ \A p \in Collectors : Backed(mem[p].accepted)'
  BY DEF Backed
<1>5. OnlyRecoveredIsKept'
  BY NoOneIsNoIncident DEF IInv, OnlyRecoveredIsKept
<1> QED
  BY <1>1, <1>2, <1>3, <1>4, <1>5 DEF IInv

\* Starting, walking, failing, dying.
LEMMA WalkSteps ==
  ASSUME IInv, NEW p \in Collectors,
         \/ Load(p) \/ Rewrite(p) \/ Skip(p) \/ Finish(p) \/ Gate(p) \/ LeaseRefused(p)
         \/ WalkFailed(p) \/ PublicationFailed(p) \/ Die(p)
  PROVE  IInv'
<1>0. /\ saved \in State /\ mem \in [Collectors -> State] /\ pc \in [Collectors -> PCs]
      /\ Backed(saved.accepted) /\ \A q \in Collectors : Backed(mem[q].accepted)
      /\ Whole(saved) /\ \A q \in Collectors : Whole(mem[q])
  BY DEF IInv, TypeOK, CompleteIsExact, Whole
<1>1. /\ saved' \in State /\ mem' \in [Collectors -> State]
      /\ Backed(saved'.accepted) /\ \A q \in Collectors : Backed(mem'[q].accepted)
      /\ Whole(saved)' /\ \A q \in Collectors : Whole(mem[q])'
  <2>1. CASE Load(p)
    <3>1. saved' = saved /\ mem' = [mem EXCEPT ![p] = saved]
      BY <2>1 DEF Load, Begin
    <3> QED
      BY <1>0, <3>1 DEF Whole
  <2>2. CASE Rewrite(p)
    <3>1. saved' = mem[p] /\ mem' = mem
      BY <2>2 DEF Rewrite, self
    <3> QED
      BY <1>0, <3>1 DEF Whole
  <2>3. CASE Finish(p)
    <3>1. saved' = [mem[p] EXCEPT !.complete = Cardinality(DOMAIN mem[p].accepted) = Len(Slots)]
          /\ mem' = mem
      BY <2>3 DEF Finish, self
    <3>2. mem[p] \in State
      BY <1>0
    <3>3. /\ saved' \in State /\ saved'.accepted = mem[p].accepted
          /\ saved'.complete = (Cardinality(DOMAIN mem[p].accepted) = Len(Slots))
      BY <3>1, <3>2 DEF State
    <3>4. Whole(saved)'
      BY <3>2, <3>3, FullRecord DEF Whole, State
    <3> QED
      BY <1>0, <3>1, <3>3, <3>4 DEF Whole
  <2>4. CASE ~ (Load(p) \/ Rewrite(p) \/ Finish(p))
    <3>1. saved' = saved /\ mem' = mem
      BY <2>4 DEF Skip, Gate, LeaseRefused, WalkFailed, PublicationFailed, Die, self
    <3> QED
      BY <1>0, <3>1 DEF Whole
  <2> QED
    BY <2>1, <2>2, <2>3, <2>4
<1>2. /\ UNCHANGED <<raw, inc, sound>> /\ journal' = journal /\ fault' = fault /\ sealed' = sealed
      /\ paused' = paused
  BY DEF Load, Begin, Rewrite, Skip, Finish, Gate, LeaseRefused, WalkFailed, PublicationFailed, Die,
     raw, lab, self
<1>3. \A q \in Collectors : pc'[q] \in Working \cup {"lease"} =>
        at'[q] = at[q] /\ (pc'[q] = pc[q] \/ (pc'[q] = "lease" /\ at[q] <= Len(Slots)))
  <2>1. CASE Skip(p)
    BY <2>1 DEF IInv, TypeOK, Skip, Working
  <2>2. CASE Gate(p)
    BY <2>2 DEF IInv, TypeOK, Gate, AtNewSlot, MoreSlots, Goto, Working, self
  <2>3. CASE ~ (Skip(p) \/ Gate(p))
    BY <2>3 DEF IInv, TypeOK, Load, Begin, Rewrite, Finish, LeaseRefused, WalkFailed,
       PublicationFailed, Die, End, Goto, Working, self
  <2> QED
    BY <2>1, <2>2, <2>3
<1>4. TypeOK'
  <2>1. pc' \in [Collectors -> PCs]
    BY DEF IInv, TypeOK, Load, Begin, Rewrite, Skip, Finish, Gate, LeaseRefused, WalkFailed,
       PublicationFailed, Die, End, Goto, PCs
  <2>2. at' \in [Collectors -> 1..(Len(Slots) + 1)]
    <3>1. CASE Skip(p)
      BY <3>1, ScheduleAssumption DEF IInv, TypeOK, Skip, MoreSlots
    <3>2. CASE Load(p)
      BY <3>2, ScheduleAssumption DEF IInv, TypeOK, Load, Begin
    <3>3. CASE ~ (Skip(p) \/ Load(p))
      BY <3>3 DEF IInv, TypeOK, Rewrite, Finish, Gate, LeaseRefused, WalkFailed,
         PublicationFailed, Die, self
    <3> QED
      BY <3>1, <3>2, <3>3
  <2>3. lease' \in Collectors \cup {Dead, NoOne}
    BY DEF IInv, TypeOK, Load, Begin, Rewrite, Skip, Finish, Gate, LeaseRefused, WalkFailed,
       PublicationFailed, Die, GiveBack, lab
  <2>4. mishaps' \in 0..MaxMishaps
    BY ScheduleAssumption DEF IInv, TypeOK, Load, Begin, Rewrite, Skip, Finish, Gate, LeaseRefused,
       WalkFailed, PublicationFailed, Die, End
  <2>5. beside' \subseteq Collectors
    <3>1. CASE Load(p)
      <4> DEFINE others == {q \in Collectors \ {p} : Running(q)}
      <4>1. beside' = IF others = {} THEN beside \ {p} ELSE beside \cup others \cup {p}
        BY <3>1 DEF Load, Begin
      <4>2. beside \subseteq Collectors
        BY DEF IInv, TypeOK
      <4> QED
        BY <4>1, <4>2
    <3>2. CASE ~ Load(p)
      BY <3>2 DEF IInv, TypeOK, Rewrite, Skip, Finish, Gate, LeaseRefused, WalkFailed,
         PublicationFailed, Die
    <3> QED
      BY <3>1, <3>2
  <2> QED
    BY <1>1, <1>2, <2>1, <2>2, <2>3, <2>4, <2>5 DEF IInv, TypeOK, raw
<1>5. CompleteIsExact'
  BY <1>1, <1>2, SealedStays DEF raw
<1> QED
  BY <1>1, <1>2, <1>3, <1>4, <1>5, Frame

\* The operator.
LEMMA OperatorSteps ==
  ASSUME IInv, Restore \/ Pause \/ Unpause \/ Seal
  PROVE  IInv'
<1>1. /\ saved' = saved /\ UNCHANGED <<raw, self, pc, beside>>
      /\ journal' \in {journal, NoOne} /\ fault' \in {fault, NoOne}
      /\ fault' # NoOne => journal' = journal
  BY DEF Restore, Pause, Unpause, Seal, raw, lab, self
<1>2. TypeOK'
  <2>1. CASE Restore
    BY <2>1 DEF IInv, TypeOK, Restore, raw, self
  <2>2. CASE Pause \/ Unpause
    <3>1. mishaps' \in 0..MaxMishaps
      BY <2>2, ScheduleAssumption DEF IInv, TypeOK, Pause, Unpause
    <3>2. paused' \in BOOLEAN
      BY <2>2, Zenon DEF Pause, Unpause
    <3> QED
      BY <2>2, <3>1, <3>2 DEF IInv, TypeOK, Pause, Unpause, raw, self, lab
  <2>3. CASE Seal
    <3>1. sealed' \subseteq Incidents
      BY <2>3, AcceptedMember DEF IInv, TypeOK, State, Seal, Range
    <3> QED
      BY <2>3, <3>1 DEF IInv, TypeOK, Seal, raw, self, lab
  <2> QED
    BY <2>1, <2>2, <2>3
<1>3. \A q \in Collectors : pc'[q] = pc[q] /\ at'[q] = at[q]
  BY <1>1 DEF self
<1>4. /\ Backed(saved'.accepted) /\ \A q \in Collectors : Backed(mem'[q].accepted)
      /\ Whole(saved)' /\ \A q \in Collectors : Whole(mem[q])'
  BY <1>1 DEF IInv, self, Whole, CompleteIsExact
<1>5. CompleteIsExact'
  <2>1. CASE Seal
    <3>1. /\ saved.accepted \in Accepted /\ Backed(saved.accepted) /\ IsInjective(saved.accepted)
          /\ Cardinality(DOMAIN saved.accepted) = Len(Slots)
          /\ sealed' = Range(saved.accepted)
      BY <2>1 DEF Seal, Backed, IInv, TypeOK, State
    <3> QED
      BY <1>1, <1>4, <3>1, SealedRecord DEF Whole, CompleteIsExact, raw
  <2>2. CASE ~ Seal
    <3>1. sealed' = sealed
      BY <2>2 DEF Restore, Pause, Unpause
    <3> QED
      BY <1>1, <1>4, <3>1, SealedStays DEF raw
  <2> QED
    BY <2>1, <2>2
<1>6. UNCHANGED <<raw, inc, sound>>
  BY <1>1 DEF self
<1> QED
  BY <1>1, <1>2, <1>3, <1>4, <1>5, <1>6, Frame

\* A new incident is nobody's yet, and has no bundle.
LEMMA CaptureStep ==
  ASSUME IInv, NEW p \in Collectors, Capture(p)
  PROVE  IInv'
<1> DEFINE i == made + 1
<1>1. /\ made \in Nat /\ made' = i /\ i \in Incidents /\ i \notin 1..made
      /\ inc' = [inc EXCEPT ![p] = i] /\ inc \in [Collectors -> Incidents \cup {NoOne}]
      /\ slotOf' = [slotOf EXCEPT ![i] = Slots[at[p]]]
      /\ slotOf \in [Incidents -> SlotSet] /\ Slots[at[p]] \in SlotSet
      /\ at[p] <= Len(Slots)
      /\ pc' = [pc EXCEPT ![p] = "attempt"] /\ pc \in [Collectors -> PCs]
      /\ sound' = [sound EXCEPT ![p] = TRUE] /\ sound \in [Collectors -> BOOLEAN]
      /\ UNCHANGED <<saved, mem, at, bundle, journal, fault, sealed, beside>>
      /\ bundle[i] = "none"
  BY ScheduleAssumption, SlotRange
     DEF IInv, TypeOK, HasIncident, Incidents, Numbered, Capture, Here, Goto
<1> HIDE DEF i
<1>2. TypeOK'
  <2>1. made' \in 0..MaxIncidents
    BY <1>1 DEF i, Incidents
  <2>2. /\ inc' \in [Collectors -> Incidents \cup {NoOne}] /\ slotOf' \in [Incidents -> SlotSet]
        /\ pc' \in [Collectors -> PCs]
    BY <1>1 DEF PCs
  <2>3. sound' \in [Collectors -> BOOLEAN]
    BY <1>1
  <2> QED
    BY <1>1, <2>1, <2>2, <2>3 DEF IInv, TypeOK, Capture
<1>3. ASSUME NEW q \in Collectors PROVE HasIncident(q)' /\ InOrder(q)'
  <2>1. CASE q = p
    BY <1>1, <2>1 DEF i, HasIncident, InOrder, Working, Unwritten, Healed, Cleared
  <2>2. CASE q # p
    <3>1. pc'[q] = pc[q] /\ inc'[q] = inc[q] /\ at'[q] = at[q] /\ sound'[q] = sound[q]
      BY <1>1, <2>2
    <3>2. inc[q] \in (1..made) \cup {NoOne} /\ (pc[q] \in Working => inc[q] \in 1..made)
      BY DEF IInv, HasIncident
    <3>3. 1..made \subseteq Incidents /\ 1..made \subseteq 1..made'
      <4>1. MaxIncidents \in Nat /\ made < MaxIncidents /\ made' = made + 1
        BY <1>1, ScheduleAssumption DEF i, Incidents
      <4> QED
        BY <1>1, <4>1 DEF Incidents
    <3>4. inc[q] \in 1..made => slotOf'[inc[q]] = slotOf[inc[q]]
      BY <1>1, <3>3
    <3> QED
      BY <1>1, <3>1, <3>2, <3>3, <3>4 DEF IInv, HasIncident, InOrder
  <2> QED
    BY <2>1, <2>2
<1>4. OwnIncidents'
  <2>1. \A q \in Collectors : inc[q] # i
    BY <1>1, NoOneIsNoIncident DEF IInv, HasIncident
  <2> QED
    BY <1>1, <2>1 DEF IInv, OwnIncidents
<1>5. Numbered'
  BY <1>1 DEF i, IInv, Numbered
<1>6. ASSUME NEW a \in Accepted, Backed(a) PROVE Backed(a)'
  BY <1>1, <1>6, AcceptedMember DEF Backed
<1>7. OnlyRecoveredIsKept' /\ FaultIsBlocked'
  BY <1>1 DEF IInv, OnlyRecoveredIsKept, FaultIsBlocked
<1>8. CompleteIsExact' /\ \A q \in Collectors : Whole(mem[q])'
  <2>1. \A j \in Incidents : bundle[j] = "published" =>
          bundle'[j] = "published" /\ slotOf'[j] = slotOf[j]
    BY <1>1
  <2>2. Whole(saved)' /\ \A q \in Collectors : Whole(mem[q])'
    BY <1>1 DEF IInv, Whole, CompleteIsExact
  <2> QED
    BY <1>1, <2>1, <2>2, SealedStays
<1> QED
  BY <1>1, <1>2, <1>3, <1>4, <1>5, <1>6, <1>7, <1>8 DEF IInv, TypeOK, State

\* Steps of an attempt: they touch the lab, their own program counter and
\* their own verdict.
LEMMA AttemptSteps ==
  ASSUME IInv, NEW p \in Collectors,
         \/ AttemptPassed(p) \/ InjectRefused(p) \/ AttemptFailed(p) \/ Recovered(p)
         \/ Verified(p) \/ RecoveryFailed(p)
  PROVE  IInv'
<1>1. /\ UNCHANGED <<saved, mem, at, inc, raw, sealed, beside>>
      /\ journal' \in {journal, inc[p], NoOne} /\ fault' \in {fault, inc[p], NoOne}
      /\ \A q \in Collectors \ {p} : pc'[q] = pc[q] /\ sound'[q] = sound[q]
      /\ pc[p] \in {"attempt", "recover", "verify"}
  BY DEF IInv, TypeOK, AttemptPassed, InjectRefused, AttemptFailed, Recovered, Verified, RecoveryFailed, End,
     Goto, self
<1>2. inc[p] \in 1..made /\ inc[p] \in Incidents /\ bundle[inc[p]] = "none"
  <2>1. inc[p] \in 1..made /\ bundle[inc[p]] = "none"
    BY <1>1 DEF IInv, HasIncident, InOrder, Working, Unwritten
  <2> QED
    BY <2>1, MadeAreIncidents
<1>3. TypeOK'
  <2>1. pc' \in [Collectors -> PCs]
    BY DEF IInv, TypeOK, AttemptPassed, InjectRefused, AttemptFailed, Recovered, Verified, RecoveryFailed, End,
       Goto, PCs
  <2>2. sound' \in [Collectors -> BOOLEAN]
    BY DEF IInv, TypeOK, AttemptPassed, InjectRefused, AttemptFailed, Recovered, Verified, RecoveryFailed, self
  <2>3. mishaps' \in 0..MaxMishaps
    BY ScheduleAssumption DEF IInv, TypeOK, AttemptPassed, InjectRefused, AttemptFailed, Recovered, Verified,
       RecoveryFailed, End
  <2>4. journal' \in Incidents \cup {NoOne} /\ fault' \in Incidents \cup {NoOne}
    BY <1>1, <1>2 DEF IInv, TypeOK
  <2>5. lease' \in Collectors \cup {Dead, NoOne}
    BY DEF IInv, TypeOK, AttemptPassed, InjectRefused, AttemptFailed, Recovered, Verified, RecoveryFailed,
       GiveBack
  <2>6. paused' = paused /\ sealed' = sealed
    BY DEF AttemptPassed, InjectRefused, AttemptFailed, Recovered, Verified, RecoveryFailed
  <2> QED
    BY <1>1, <2>1, <2>2, <2>3, <2>4, <2>5, <2>6 DEF IInv, TypeOK, raw
<1>4. ASSUME NEW q \in Collectors PROVE HasIncident(q)'
  BY <1>1, <1>2 DEF IInv, HasIncident, raw, Working
<1>5. ASSUME NEW q \in Collectors PROVE InOrder(q)'
  <2>1. CASE q = p
    <3>1. pc'[p] \in {"recover", "verify", "stage", "off"}
      BY DEF IInv, TypeOK, AttemptPassed, InjectRefused, AttemptFailed, Recovered, Verified, RecoveryFailed, End,
         Goto
    <3>2. CASE pc'[p] \in {"recover", "off"}
      BY <1>1, <1>2, <2>1, <3>2 DEF InOrder, Unwritten, Healed, Cleared, raw
    <3>3. CASE pc'[p] = "verify"
      <4>1. Recovered(p)
        BY <1>1, <3>3 DEF IInv, TypeOK, AttemptPassed, InjectRefused, AttemptFailed, Verified,
           RecoveryFailed, End, Goto
      <4>2. fault' # inc[p]
        BY <1>2, <4>1, NoOneIsNoIncident DEF IInv, FaultIsBlocked, Recovered
      <4> QED
        BY <1>1, <1>2, <2>1, <3>3, <4>2
           DEF InOrder, Unwritten, Healed, Cleared, raw
    <3>4. CASE pc'[p] = "stage"
      <4>1. Verified(p)
        BY <3>4 DEF IInv, TypeOK, AttemptPassed, InjectRefused, AttemptFailed, Recovered, RecoveryFailed, End,
           Goto
      <4>2. sound[p] /\ journal' # inc[p] /\ UNCHANGED <<fault, sound>> /\ fault # inc[p]
        BY <1>2, <3>4, <4>1, NoOneIsNoIncident DEF IInv, TypeOK, InOrder, Healed, Verified, Goto, self
      <4> QED
        BY <1>1, <1>2, <2>1, <3>4, <4>2
           DEF InOrder, Unwritten, Healed, Cleared, raw
    <3> QED
      BY <3>1, <3>2, <3>3, <3>4
  <2>2. CASE q # p
    <3>1. pc[q] \in Working => inc[q] # inc[p] /\ inc[q] # NoOne
      BY <1>2, <2>2, NoOneIsNoIncident DEF IInv, OwnIncidents, HasIncident
    <3>2. Healed \subseteq Working /\ Cleared \subseteq Working
      BY DEF Healed, Cleared, Working
    <3> QED
      BY <1>1, <2>2, <3>1, <3>2 DEF IInv, InOrder, raw
  <2> QED
    BY <2>1, <2>2
<1>6. OwnIncidents' /\ Numbered'
  BY <1>1 DEF IInv, OwnIncidents, Numbered, raw
<1>7. Backed(saved.accepted)' /\ \A q \in Collectors : Backed(mem[q].accepted)'
  BY <1>1 DEF IInv, Backed, raw
<1>8. OnlyRecoveredIsKept'
  <2>1. \A i \in Incidents : bundle[i] # "none" => fault' # i /\ journal' # i
    BY <1>1, <1>2, NoOneIsNoIncident DEF IInv, OnlyRecoveredIsKept
  <2> QED
    BY <1>1, <1>2, <2>1 DEF IInv, OnlyRecoveredIsKept, raw
<1>9. FaultIsBlocked'
  <2>1. fault' = NoOne \/ journal' = fault'
    BY <1>2, NoOneIsNoIncident
       DEF IInv, TypeOK, InOrder, Healed, FaultIsBlocked, AttemptPassed, InjectRefused, AttemptFailed,
       Recovered, Verified, RecoveryFailed
  <2> QED
    BY <2>1 DEF FaultIsBlocked
<1>10. CompleteIsExact' /\ \A q \in Collectors : Whole(mem[q])'
  BY <1>1, SealedStays DEF IInv, Whole, CompleteIsExact, raw
<1> QED
  BY <1>3, <1>4, <1>5, <1>6, <1>7, <1>8, <1>9, <1>10 DEF IInv

\* A bundle comes into being after its attempt passed and the lab was cleared.
LEMMA BundleSteps ==
  ASSUME IInv, NEW p \in Collectors, Stage(p) \/ Publish(p)
  PROVE  IInv'
<1>1. PICK state \in {"staged", "published"}, next \in {"publish", "accept"} :
        /\ bundle' = [bundle EXCEPT ![inc[p]] = state]
        /\ pc' = [pc EXCEPT ![p] = next]
        /\ next = "accept" => state = "published"
        /\ pc[p] \in {"stage", "publish"}
        /\ bundle[inc[p]] # "published" \/ state = "published"
        /\ UNCHANGED <<saved, self, slotOf, made, lab, paused, sealed, mishaps, beside>>
  BY DEF Stage, Publish, Goto
<1>2. /\ inc[p] \in 1..made /\ inc[p] \in Incidents
      /\ sound[p] /\ journal # inc[p] /\ fault # inc[p]
  <2>1. inc[p] \in 1..made
    BY <1>1 DEF IInv, HasIncident, Working
  <2>2. sound[p] /\ journal # inc[p] /\ fault # inc[p]
    BY <1>1 DEF IInv, InOrder, Cleared, Healed
  <2> QED
    BY <2>1, <2>2, MadeAreIncidents
<1>3. /\ bundle \in [Incidents -> {"none", "staged", "published"}]
      /\ pc \in [Collectors -> PCs]
      /\ bundle' \in [Incidents -> {"none", "staged", "published"}]
      /\ bundle'[inc[p]] = state
      /\ \A i \in Incidents \ {inc[p]} : bundle'[i] = bundle[i]
      /\ \A i \in Incidents : bundle[i] = "published" => bundle'[i] = "published"
  BY <1>1, <1>2 DEF IInv, TypeOK
<1>4. TypeOK'
  <2>1. pc' \in [Collectors -> PCs]
    BY <1>1, <1>3 DEF PCs
  <2> QED
    BY <1>1, <1>3, <2>1 DEF IInv, TypeOK, self, lab
<1>5. ASSUME NEW q \in Collectors PROVE HasIncident(q)'
  BY <1>1, <1>3 DEF IInv, HasIncident, self, Working
<1>6. ASSUME NEW q \in Collectors PROVE InOrder(q)'
  <2>1. CASE q = p
    <3>1. pc'[p] = next /\ pc[p] \in Cleared
      BY <1>1, <1>3 DEF Cleared
    <3> QED
      BY <1>1, <1>2, <1>3, <2>1, <3>1 DEF IInv, InOrder, Unwritten, Healed, Cleared, self, lab
  <2>2. CASE q # p
    <3>1. pc'[q] = pc[q]
      BY <1>1, <1>3, <2>2
    <3>2. pc[q] \in Working => inc[q] \in Incidents /\ inc[q] # inc[p]
      BY <1>2, <2>2, MadeAreIncidents, NoOneIsNoIncident DEF IInv, OwnIncidents, HasIncident
    <3>3. Unwritten \subseteq Working /\ "accept" \in Working
      BY DEF Unwritten, Working
    <3>4. pc[q] \in Working => bundle'[inc[q]] = bundle[inc[q]]
      BY <1>3, <3>2
    <3> QED
      BY <1>1, <3>1, <3>3, <3>4 DEF IInv, InOrder, self, lab
  <2> QED
    BY <2>1, <2>2
<1>7. OwnIncidents' /\ Numbered'
  BY <1>1, <1>2, <1>3 DEF IInv, OwnIncidents, Numbered, self
<1>8. ASSUME NEW a \in Accepted, Backed(a) PROVE Backed(a)'
  BY <1>1, <1>3, <1>8, AcceptedMember DEF Backed
<1>9. OnlyRecoveredIsKept'
  <2>1. \A i \in Incidents : bundle'[i] # "none" => fault # i /\ journal # i
    BY <1>2, <1>3 DEF IInv, OnlyRecoveredIsKept
  <2>2. ASSUME NEW q \in Collectors, inc[q] # NoOne, bundle'[inc[q]] # "none" PROVE sound[q]
    <3>1. CASE q = p
      BY <1>2, <3>1
    <3>2. CASE q # p
      <4>1. inc[q] # inc[p] /\ inc[q] \in Incidents
        BY <2>2, <3>2 DEF IInv, OwnIncidents, TypeOK
      <4> QED
        BY <1>3, <2>2, <4>1 DEF IInv, OnlyRecoveredIsKept
    <3> QED
      BY <3>1, <3>2
  <2> QED
    BY <1>1, <2>1, <2>2 DEF OnlyRecoveredIsKept, self, lab
<1>10. FaultIsBlocked' /\ CompleteIsExact' /\ \A q \in Collectors : Whole(mem[q])'
  <2>1. \A i \in Incidents : bundle[i] = "published" =>
          bundle'[i] = "published" /\ slotOf'[i] = slotOf[i]
    BY <1>1, <1>3
  <2>2. FaultIsBlocked' /\ Whole(saved)' /\ \A q \in Collectors : Whole(mem[q])'
    BY <1>1 DEF IInv, FaultIsBlocked, Whole, CompleteIsExact, self, lab
  <2> QED
    BY <1>1, <2>1, <2>2, SealedStays
<1> QED
  BY <1>1, <1>4, <1>5, <1>6, <1>7, <1>8, <1>9, <1>10 DEF IInv, TypeOK, State, self

\* The record with one slot more is a record, and backed by bundles.
LEMMA ExtendedIsBacked ==
  ASSUME IInv, NEW p \in Collectors, pc[p] = "accept"
  PROVE  /\ Extended(p) \in Accepted /\ Backed(Extended(p))
         /\ at[p] <= Len(Slots) /\ Here(p) \in SlotSet
         /\ Whole(mem[p]) => Whole([mem[p] EXCEPT !.accepted = Extended(p)])
<1>1. /\ inc[p] \in 1..made /\ at[p] <= Len(Slots) /\ slotOf[inc[p]] = Here(p)
      /\ bundle[inc[p]] = "published"
  BY DEF IInv, HasIncident, InOrder, Working, Here
<1>2. Here(p) \in SlotSet /\ inc[p] \in Incidents
  BY <1>1, SlotRange, MadeAreIncidents, ScheduleAssumption DEF Here, IInv, TypeOK
<1>3. mem[p] \in State /\ mem[p].accepted \in Accepted /\ Backed(mem[p].accepted)
  BY DEF IInv, TypeOK, State
<1>4. Extended(p) \in Accepted
  BY <1>2, <1>3, AcceptedMember DEF Extended
<1>5. Backed(Extended(p))
  BY <1>1, <1>3 DEF Backed, Extended
<1>6. ASSUME Whole(mem[p]) PROVE Whole([mem[p] EXCEPT !.accepted = Extended(p)])
  <2>1. DOMAIN Extended(p) = DOMAIN mem[p].accepted \cup {Here(p)}
    BY DEF Extended
  <2> QED
    BY <1>2, <1>3, <1>6, <2>1 DEF Whole, State
<1> QED
  BY <1>1, <1>2, <1>4, <1>5, <1>6

\* Accepting a bundle keeps the invariant.
LEMMA AcceptStep ==
  ASSUME IInv, NEW p \in Collectors, Accept(p)
  PROVE  IInv'
<1> DEFINE state == [mem[p] EXCEPT !.accepted = Extended(p)]
<1>1. /\ pc[p] = "accept" /\ mem' = [mem EXCEPT ![p] = state] /\ saved' = state
      /\ at' = [at EXCEPT ![p] = at[p] + 1] /\ pc' = [pc EXCEPT ![p] = "slots"]
      /\ lease' \in {lease, NoOne}
      /\ UNCHANGED <<inc, sound, raw, journal, fault, paused, sealed, mishaps, beside>>
  BY DEF Accept, Goto, GiveBack
<1>2. /\ Extended(p) \in Accepted /\ Backed(Extended(p)) /\ at[p] <= Len(Slots)
      /\ Whole(mem[p]) => Whole(state)
  BY <1>1, ExtendedIsBacked
<1>3. mem[p] \in State /\ mem \in [Collectors -> State] /\ \A q \in Collectors : Whole(mem[q])
  BY DEF IInv, TypeOK
<1>4. state \in State /\ state.accepted = Extended(p) /\ Whole(state)
  BY <1>2, <1>3 DEF State
<1> HIDE DEF state
<1>5. /\ mem' \in [Collectors -> State] /\ saved' \in State
      /\ Backed(saved'.accepted) /\ \A q \in Collectors : Backed(mem'[q].accepted)
      /\ Whole(saved)' /\ \A q \in Collectors : Whole(mem[q])'
  <2>1. \A q \in Collectors : mem'[q] = IF q = p THEN state ELSE mem[q]
    BY <1>1, <1>3
  <2> QED
    BY <1>1, <1>2, <1>3, <1>4, <2>1 DEF IInv, Whole
<1>6. /\ pc' \in [Collectors -> PCs]
      /\ \A q \in Collectors : pc'[q] \in Working \cup {"lease"} => pc'[q] = pc[q] /\ at'[q] = at[q]
  BY <1>1 DEF IInv, TypeOK, PCs, Working
<1>7. at' \in [Collectors -> 1..(Len(Slots) + 1)]
  BY <1>1, <1>2, ScheduleAssumption DEF IInv, TypeOK
<1>8. TypeOK'
  BY <1>1, <1>5, <1>6, <1>7 DEF IInv, TypeOK, raw
<1>9. CompleteIsExact'
  BY <1>1, <1>5, SealedStays DEF raw
<1> QED
  BY <1>1, <1>5, <1>6, <1>8, <1>9, Frame

\* Stuttering keeps it.
LEMMA Stutter == IInv /\ UNCHANGED vars => IInv'
<1> SUFFICES ASSUME IInv, UNCHANGED vars PROVE IInv'
  OBVIOUS
<1> USE DEF vars, self, raw, lab
<1>1. TypeOK' /\ OwnIncidents' /\ Numbered' /\ OnlyRecoveredIsKept'
  BY DEF IInv, TypeOK, OwnIncidents, Numbered, OnlyRecoveredIsKept
<1>2. \A p \in Collectors : HasIncident(p)' /\ InOrder(p)'
  BY DEF IInv, HasIncident, InOrder
<1>3. Backed(saved.accepted)' /\ \A p \in Collectors : Backed(mem[p].accepted)'
  BY DEF IInv, Backed
<1>4. FaultIsBlocked' /\ CompleteIsExact' /\ \A p \in Collectors : Whole(mem[p])'
  BY DEF IInv, FaultIsBlocked, CompleteIsExact, Whole
<1> QED
  BY <1>1, <1>2, <1>3, <1>4 DEF IInv

\* Every step keeps the invariant.
LEMMA StepIInv == IInv /\ [Next]_vars => IInv'
<1> SUFFICES ASSUME IInv, [Next]_vars PROVE IInv'
  OBVIOUS
<1>1. CASE \E p \in Collectors : Load(p) \/ Work(p) \/ Mishap(p)
  <2> PICK p \in Collectors : Load(p) \/ Work(p) \/ Mishap(p)
    BY <1>1
  <2> QED
    BY WalkSteps, CaptureStep, AttemptSteps, BundleSteps, AcceptStep DEF Work, Mishap
<1>2. CASE Restore \/ Pause \/ Unpause \/ Seal
  BY <1>2, OperatorSteps
<1>3. CASE Done \/ UNCHANGED vars
  BY <1>3, Stutter DEF Done
<1> QED
  BY <1>1, <1>2, <1>3 DEF Next

\* Whatever collectors do beside one another, and wherever they fail or die, the
\* inductive invariant holds.
THEOREM Invariance == Spec => []IInv
BY InitIInv, StepIInv, PTL DEF Spec

\* However many collectors run, a slot that capture_raw_v3 has put on record
\* has a published bundle of its own on disk, and no incident stands for two
\* slots.
THEOREM AcceptedIsPublishedTheorem == Spec => []AcceptedIsPublished
<1>1. IInv => AcceptedIsPublished
  BY DEF IInv, Backed, AcceptedIsPublished, IsInjective
<1> QED
  BY <1>1, Invariance, PTL

\* However many collectors run, write_raw keeps a bundle only of an incident
\* whose attempt passed and that has left neither fault nor block behind.
THEOREM OnlyRecoveredIsKeptTheorem == Spec => []OnlyRecoveredIsKept
<1>1. IInv => OnlyRecoveredIsKept
  BY DEF IInv
<1> QED
  BY <1>1, Invariance, PTL

\* However many collectors run, fail and die, the state file, the bundles and
\* the lab agree: what is on record is published, what is kept is recovered, and
\* the cohort is called complete and sealed by split_raw_v3 only when it is whole.
THEOREM RecordIsSoundTheorem == Spec => []RecordIsSound
<1>1. IInv => RecordIsSound
  BY DEF IInv, RecordIsSound, Backed, AcceptedIsPublished, IsInjective
<1> QED
  BY <1>1, Invariance, PTL

-----------------------------------------------------------------------------
(* Who loses a slot.                                                       *)

Alone(p) == Running(p) /\ p \notin beside

\* The collector knows the record, and works for a slot that is not on it.
InStep(p) ==
  /\ mem[p] = saved
  /\ pc[p] \in Working \cup {"lease"} => ~OnRecord(p)

\* Collectors that run together are known to, and one that does not is in step.
RInv ==
  /\ \A p, q \in Collectors : Running(p) /\ Running(q) /\ p # q => p \in beside
  /\ \A p \in Collectors : Alone(p) => InStep(p)

Excused == \E p \in beside : Running(p) /\ pc'[p] # pc[p]

\* Nobody runs at first.
LEMMA InitRInv == Init => RInv
BY DEF Init, RInv, Alone, Running

\* Starting a collector beside another takes both out of the promise.
LEMMA LoadStep ==
  ASSUME IInv, RInv, NEW p \in Collectors, Load(p)
  PROVE  RInv' /\ Keeps
<1> DEFINE others == {q \in Collectors \ {p} : Running(q)}
<1>1. /\ saved' = saved /\ mem' = [mem EXCEPT ![p] = saved] /\ at' = [at EXCEPT ![p] = 1]
      /\ pc' = [pc EXCEPT ![p] = "load"] /\ ~Running(p)
      /\ beside' = IF others = {} THEN beside \ {p} ELSE beside \cup others \cup {p}
      /\ mem \in [Collectors -> State] /\ pc \in [Collectors -> PCs]
      /\ at \in [Collectors -> 1..(Len(Slots) + 1)]
  BY DEF IInv, TypeOK, Load, Begin, Goto, Running
<1>2. \A q \in Collectors : Running(q)' => q = p \/ q \in others
  BY <1>1 DEF Running
<1>3. ASSUME NEW q \in Collectors, NEW t \in Collectors, Running(q)', Running(t)', q # t
      PROVE  q \in beside'
  <2>1. q \in others \/ t \in others
    BY <1>2, <1>3
  <2>2. beside' = beside \cup others \cup {p}
    BY <1>1, <2>1
  <2> QED
    BY <1>2, <1>3, <2>2
<1>4. ASSUME NEW q \in Collectors, Alone(q)' PROVE InStep(q)'
  <2>1. CASE q = p
    BY <1>1, <2>1 DEF InStep, Working
  <2>2. CASE q # p
    <3>1. q \in others
      BY <1>2, <1>4, <2>2 DEF Alone
    <3>2. q \in beside'
      BY <1>1, <3>1
    <3> QED
      BY <1>4, <3>2 DEF Alone
  <2> QED
    BY <2>1, <2>2
<1> QED
  BY <1>1, <1>3, <1>4 DEF RInv, Keeps

\* A collector that runs alone is the only one to run.
LEMMA OnlyOneRuns ==
  ASSUME RInv, NEW p \in Collectors, NEW q \in Collectors, Running(p), Alone(q)
  PROVE  p = q
BY DEF RInv, Alone

\* What a running collector does.
LEMMA WorkStep ==
  ASSUME IInv, RInv, NEW p \in Collectors, Work(p) \/ Mishap(p)
  PROVE  RInv' /\ (Keeps \/ Excused \/ saved' = saved)
<1>0. /\ saved \in State /\ mem \in [Collectors -> State] /\ pc \in [Collectors -> PCs]
      /\ at \in [Collectors -> 1..(Len(Slots) + 1)]
  BY DEF IInv, TypeOK
<1>1. /\ Running(p) /\ beside' = beside
      /\ \A q \in Collectors \ {p} : pc'[q] = pc[q]
  BY <1>0 DEF Work, Mishap, Rewrite, Skip, Finish, Gate, Capture, LeaseRefused, AttemptPassed,
     InjectRefused, Recovered, Verified, Stage, Publish, Accept, WalkFailed, AttemptFailed,
     RecoveryFailed, PublicationFailed, Die, AtNewSlot, End, Goto, Running
<1>2. /\ saved' # saved => pc'[p] # pc[p]
      /\ Alone(p) => Keeps /\ (Running(p)' => InStep(p)')
  <2>1. CASE Rewrite(p)
    BY <1>0, <2>1 DEF Rewrite, RInv, InStep, Alone, Keeps, Goto, Working, self
  <2>2. CASE Finish(p)
    <3>1. /\ saved' = [mem[p] EXCEPT !.complete = Cardinality(DOMAIN mem[p].accepted) = Len(Slots)]
          /\ pc'[p] = "off" /\ pc[p] = "slots"
      BY <1>0, <2>2 DEF Finish, Goto
    <3>2. saved'.accepted = mem[p].accepted
      BY <1>0, <3>1 DEF State
    <3> QED
      BY <3>1, <3>2 DEF RInv, InStep, Alone, Keeps, Running
  <2>3. CASE Accept(p)
    <3>1. /\ mem' = [mem EXCEPT ![p] = [mem[p] EXCEPT !.accepted = Extended(p)]]
          /\ saved' = [mem[p] EXCEPT !.accepted = Extended(p)]
          /\ pc'[p] = "slots" /\ pc[p] = "accept"
      BY <1>0, <2>3 DEF Accept, Goto
    <3>2. saved'.accepted = Extended(p) /\ mem'[p] = saved'
      BY <1>0, <3>1 DEF State
    <3>3. ASSUME Alone(p) PROVE mem[p] = saved /\ Here(p) \notin DOMAIN mem[p].accepted
      BY <3>1, <3>3 DEF RInv, InStep, OnRecord, Working
    <3>4. ASSUME Alone(p) PROVE Keeps
      BY <3>2, <3>3, <3>4 DEF Keeps, Extended
    <3> QED
      BY <3>1, <3>2, <3>4 DEF InStep, Working
  <2>4. CASE ~ (Rewrite(p) \/ Finish(p) \/ Accept(p))
    <3>1. saved' = saved /\ mem' = mem
      BY <2>4 DEF Work, Mishap, Skip, Gate, Capture, LeaseRefused, AttemptPassed, InjectRefused,
         Recovered, Verified, Stage, Publish, WalkFailed, AttemptFailed, RecoveryFailed,
         PublicationFailed, Die, self
    <3>2. /\ pc'[p] \in Working \cup {"lease"} => at' = at
          /\ pc'[p] \in Working \cup {"lease"} => pc[p] \in Working \cup {"lease"} \/ ~OnRecord(p)
      BY <1>0, <2>4 DEF Work, Mishap, Skip, Gate, Capture, LeaseRefused, AttemptPassed,
         InjectRefused, Recovered, Verified, Stage, Publish, WalkFailed, AttemptFailed,
         RecoveryFailed, PublicationFailed, Die, AtNewSlot, End, Goto, Working, self
    <3> QED
      BY <3>1, <3>2 DEF RInv, InStep, OnRecord, Here, Keeps
  <2> QED
    BY <2>1, <2>2, <2>3, <2>4
<1>3. ASSUME NEW q \in Collectors, Alone(q)' PROVE InStep(q)'
  <2>1. CASE q = p
    BY <1>1, <1>2, <1>3, <2>1 DEF Alone
  <2>2. CASE q # p
    BY <1>1, <1>3, <2>2, OnlyOneRuns DEF Alone, Running
  <2> QED
    BY <2>1, <2>2
<1>4. ASSUME NEW q \in Collectors, NEW t \in Collectors, Running(q)', Running(t)', q # t
      PROVE  q \in beside'
  <2>1. Running(q) /\ Running(t)
    BY <1>1, <1>4 DEF Running
  <2> QED
    BY <1>1, <1>4, <2>1 DEF RInv
<1>5. Keeps \/ Excused \/ saved' = saved
  BY <1>1, <1>2 DEF Alone, Excused
<1> QED
  BY <1>3, <1>4, <1>5 DEF RInv

\* What the operator does leaves the record alone.
LEMMA OperatorKeeps ==
  ASSUME RInv, Restore \/ Pause \/ Unpause \/ Seal \/ Done \/ UNCHANGED vars
  PROVE  RInv' /\ saved' = saved
<1>1. UNCHANGED <<saved, pc, mem, at, beside>>
  BY DEF Restore, Pause, Unpause, Seal, Done, vars, self
<1> QED
  BY <1>1 DEF RInv, Alone, Running, InStep, OnRecord, Here

\* A slot on record is lost, or given another incident, only by the write of a
\* collector that ran beside another one after it had loaded the state: no failure,
\* death, pause or restart of capture_raw_v3 by itself does it, however many there
\* are.
THEOREM LossNeedsTwoTheorem == Spec => LossNeedsTwo
<1>1. Init => RInv
  BY InitRInv
<1>2. IInv /\ RInv /\ [Next]_vars => RInv' /\ (Keeps \/ Excused \/ saved' = saved)
  BY LoadStep, WorkStep, OperatorKeeps DEF Next
<1>3. IInv /\ RInv /\ [Next]_vars => [Keeps \/ Excused]_saved
  BY <1>2
<1>4. LossNeedsTwo <=> [][Keeps \/ Excused]_saved
  BY DEF LossNeedsTwo, Excused
<1> QED
  BY <1>1, <1>2, <1>3, <1>4, Invariance, PTL DEF Spec

=============================================================================
