--------------------------- MODULE InjectionProofs ---------------------------
(***************************************************************************)
(* Theorems about the two ways a fault gets into the lab, the transaction  *)
(* of the live controller (FaultTransaction) and the runs of the browser   *)
(* control plane (ControlPlane).  Each part is about one of the two        *)
(* specifications; nothing is claimed of their product.                    *)
(*                                                                         *)
(* Part 1, for every set of components, scenarios and owners, with and     *)
(* without late commands: type correctness, that the journal covers every  *)
(* fault, that recovery attempts every cleanup and confirms only a clean   *)
(* journal, that a journal is never lost to another caller, and that the   *)
(* transaction implements LabGate.                                         *)
(*                                                                         *)
(* Part 2, for any set of runs and any number of deaths and starts: what   *)
(* the two injectors of the plane do in the lab is leased to them, but for *)
(* a docker stop that lands after its run was reported as failed, and      *)
(* whoever has the lease has somebody to give it back.  PlaneIInv is the   *)
(* inductive invariant; LateInv keeps the late stops apart.  Whether a run *)
(* may still be in progress, and whether its result is still to be read,   *)
(* depends on how far the log was read, so PlaneIInv relates each run's    *)
(* cursor and the handler's start to the results the log shows (LogInv,    *)
(* KeeperInv), and the requests to the one controller that takes them      *)
(* (QueueInv).  A sync folds the unread events into the run's rows:        *)
(* AppliedFacts says that it gives the lease back exactly when a result is *)
(* among them.                                                             *)
(***************************************************************************)
EXTENDS FaultTransaction, ControlPlane, FiniteSetTheorems, SequenceTheorems,
        WellFoundedInduction, TLAPS

-----------------------------------------------------------------------------
(* Part 1: the fault transaction.                                          *)

-----------------------------------------------------------------------------
(* The updates of a journal document.                                      *)

WithRow(doc, c) ==
  [doc EXCEPT !.components =
     Append(@, [comp |-> c, status |-> "INTENT", cleanup |-> "none"])]
WithActive(doc)        == [doc EXCEPT !.components[Len(doc.components)].status = "ACTIVE"]
WithCleanup(doc, i, v) == [doc EXCEPT !.components[i].cleanup = v]

\* A new row keeps the rows before it and comes last, not yet cleaned.
LEMMA AppendedRow ==
  ASSUME NEW doc \in Doc, NEW c \in Component
  PROVE  /\ WithRow(doc, c) \in Doc
         /\ WithRow(doc, c).owner = doc.owner
         /\ Len(WithRow(doc, c).components) = Len(doc.components) + 1
         /\ \A k \in 1..Len(doc.components) :
              WithRow(doc, c).components[k] = doc.components[k]
         /\ WithRow(doc, c).components[Len(doc.components) + 1].comp = c
         /\ WithRow(doc, c).components[Len(doc.components) + 1].cleanup = "none"
<1> DEFINE r == [comp |-> c, status |-> "INTENT", cleanup |-> "none"]
<1>1. r \in Row
  BY DEF Row
<1>2. doc.components \in Seq(Row)
  BY DEF Doc
<1>3. /\ Append(doc.components, r) \in Seq(Row)
      /\ Len(Append(doc.components, r)) = Len(doc.components) + 1
      /\ \A k \in 1..Len(doc.components) : Append(doc.components, r)[k] = doc.components[k]
      /\ Append(doc.components, r)[Len(doc.components) + 1] = r
  BY <1>1, <1>2, AppendProperties
<1> HIDE DEF r
<1>4. /\ WithRow(doc, c) \in Doc
      /\ WithRow(doc, c).owner = doc.owner
      /\ WithRow(doc, c).components = Append(doc.components, r)
  BY <1>3 DEF WithRow, Doc, r
<1>5. r.comp = c /\ r.cleanup = "none"
  BY DEF r
<1> QED
  BY <1>3, <1>4, <1>5

\* Acknowledging the last row changes no component and no cleanup.
LEMMA ActiveRow ==
  ASSUME NEW doc \in Doc, Len(doc.components) > 0
  PROVE  /\ WithActive(doc) \in Doc
         /\ WithActive(doc).owner = doc.owner
         /\ Len(WithActive(doc).components) = Len(doc.components)
         /\ \A k \in 1..Len(doc.components) :
              /\ WithActive(doc).components[k].comp = doc.components[k].comp
              /\ WithActive(doc).components[k].cleanup = doc.components[k].cleanup
<1> DEFINE s == doc.components
           n == Len(s)
           r == [s[n] EXCEPT !.status = "ACTIVE"]
<1>1. s \in Seq(Row) /\ n \in 1..Len(s)
  BY DEF Doc
<1>2. s[n] \in Row
  BY <1>1
<1>3. r \in Row /\ r.comp = s[n].comp /\ r.cleanup = s[n].cleanup
  BY <1>2 DEF Row
<1>4. /\ [s EXCEPT ![n] = r] \in Seq(Row)
      /\ Len([s EXCEPT ![n] = r]) = Len(s)
      /\ \A j \in 1..Len(s) : [s EXCEPT ![n] = r][j] = IF j = n THEN r ELSE s[j]
  BY <1>1, <1>3, ExceptSeq
<1>5. WithActive(doc) = [doc EXCEPT !.components = [s EXCEPT ![n] = r]]
  BY DEF WithActive
<1>6. /\ WithActive(doc) \in Doc
      /\ WithActive(doc).owner = doc.owner
      /\ WithActive(doc).components = [s EXCEPT ![n] = r]
  <2> HIDE DEF n, r
  <2> QED BY <1>4, <1>5 DEF Doc
<1> QED
  BY <1>3, <1>4, <1>6

\* Recording a cleanup changes that row's cleanup only.
LEMMA CleanedRow ==
  ASSUME NEW doc \in Doc, NEW i \in 1..Len(doc.components), NEW v \in {"passed", "failed"}
  PROVE  /\ WithCleanup(doc, i, v) \in Doc
         /\ WithCleanup(doc, i, v).owner = doc.owner
         /\ Len(WithCleanup(doc, i, v).components) = Len(doc.components)
         /\ \A k \in 1..Len(doc.components) :
              /\ WithCleanup(doc, i, v).components[k].comp = doc.components[k].comp
              /\ WithCleanup(doc, i, v).components[k].cleanup =
                   IF k = i THEN v ELSE doc.components[k].cleanup
<1> DEFINE s == doc.components
           r == [s[i] EXCEPT !.cleanup = v]
<1>1. s \in Seq(Row) /\ i \in 1..Len(s)
  BY DEF Doc
<1>2. s[i] \in Row
  BY <1>1
<1>3. r \in Row /\ r.comp = s[i].comp /\ r.cleanup = v
  BY <1>2 DEF Row
<1>4. /\ [s EXCEPT ![i] = r] \in Seq(Row)
      /\ Len([s EXCEPT ![i] = r]) = Len(s)
      /\ \A j \in 1..Len(s) : [s EXCEPT ![i] = r][j] = IF j = i THEN r ELSE s[j]
  BY <1>1, <1>3, ExceptSeq
<1>5. WithCleanup(doc, i, v) = [doc EXCEPT !.components = [s EXCEPT ![i] = r]]
  BY DEF WithCleanup
<1>6. /\ WithCleanup(doc, i, v) \in Doc
      /\ WithCleanup(doc, i, v).owner = doc.owner
      /\ WithCleanup(doc, i, v).components = [s EXCEPT ![i] = r]
  <2> HIDE DEF r
  <2> QED BY <1>4, <1>5 DEF Doc
<1> QED
  BY <1>3, <1>4, <1>6

-----------------------------------------------------------------------------
(* Init, and the steps that touch neither the journal nor a row.           *)

\* The invariant holds initially.
LEMMA InitIInv == Init => IInv
<1> SUFFICES ASSUME Init PROVE IInv
  OBVIOUS
<1>1. <<>> \in Seq(Component)
  OBVIOUS
<1>2. TypeOK
  <2>1. crashes \in 0..MaxCrashes /\ cursor \in Nat
    BY ConstantsAssumption DEF Init
  <2>2. fault \in [Component -> Owner \cup {NoOwner}]
    BY DEF Init
  <2>3. final \in BOOLEAN
    BY DEF Init
  <2>4. pc \in PCs
    BY DEF Init, PCs
  <2> QED
    BY <1>1, <2>1, <2>2, <2>3, <2>4 DEF Init, TypeOK
<1>3. JournalCovers
  BY DEF Init, JournalCovers, Hazard, Pending
<1> QED
  BY <1>2, <1>3 DEF Init, IInv, AtWork, MemoryCovers, IntentOnDisk, CursorInv, VerifiedOnDisk,
     AheadOfDisk, ConfirmedMeansClean

\* A caller that leaves keeps the invariant when the journal it leaves behind
\* covers the lab it leaves behind.
LEMMA LeaveKeepsIInv ==
  ASSUME IInv, Leave,
         journal' \in Doc \cup {NoDoc},
         UNCHANGED <<fault, overtaken>>,
         crashes' \in 0..MaxCrashes,
         inflight' \subseteq Component \X Owner,
         JournalCovers'
  PROVE  IInv'
<1>1. <<>> \in Seq(Component)
  OBVIOUS
<1>2. TypeOK'
  BY <1>1 DEF IInv, TypeOK, Leave, PCs
<1> QED
  BY <1>2 DEF IInv, Leave, AtWork, MemoryCovers, IntentOnDisk, CursorInv, VerifiedOnDisk,
     AheadOfDisk, ConfirmedMeansClean

\* Entering recover() with the current object, or with the journal itself.
LEMMA EnterRecoverKeepsIInv ==
  ASSUME IInv, NEW doc \in Doc, NEW last \in BOOLEAN, EnterRecover(doc, last),
         journal' = journal \/ journal' = doc,
         UNCHANGED <<overtaken, crashes>>,
         fault' \in [Component -> Owner \cup {NoOwner}],
         inflight' \subseteq Component \X Owner,
         JournalCovers',
         (journal' # NoDoc /\ doc.owner = journal'.owner) =>
            /\ Extends(doc, journal')
            /\ \A c \in Component : Hazard(c)' => c \in overtaken \/ CoveredBy(doc, c)
  PROVE  IInv'
<1>1. Len(doc.components) \in Nat
  BY DEF Doc
<1>2. TypeOK'
  BY <1>1 DEF IInv, TypeOK, EnterRecover, PCs
<1>3. AheadOfDisk'
  BY DEF EnterRecover, AheadOfDisk, Extends
<1>4. MemoryCovers'
  BY DEF EnterRecover, MemoryCovers, CoveredBy
<1>5. CursorInv'
  BY <1>1 DEF EnterRecover, CursorInv
<1> QED
  BY <1>2, <1>3, <1>4, <1>5, NoDocAssumption
  DEF IInv, EnterRecover, AtWork, IntentOnDisk, VerifiedOnDisk, ConfirmedMeansClean

\* Covering a component survives any change that keeps rows and takes no
\* passed cleanup on board.
LEMMA CoverIsKept ==
  ASSUME NEW old, NEW doc, NEW c,
         Len(old.components) \in Nat, Len(doc.components) \in Nat,
         Len(old.components) <= Len(doc.components),
         \A k \in 1..Len(old.components) :
           /\ doc.components[k].comp = old.components[k].comp
           /\ doc.components[k].cleanup = "passed" => old.components[k].cleanup = "passed",
         CoveredBy(old, c)
  PROVE  CoveredBy(doc, c)
<1>1. PICK k \in 1..Len(old.components) :
        old.components[k].comp = c /\ old.components[k].cleanup # "passed"
  BY DEF CoveredBy
<1>2. k \in 1..Len(doc.components)
  BY <1>1
<1> QED
  BY <1>1, <1>2 DEF CoveredBy

\* Every document extends itself.
LEMMA ExtendsRefl == \A doc \in Doc : Extends(doc, doc)
  BY DEF Extends, Doc

-----------------------------------------------------------------------------
(* inject()                                                                *)

\* A transaction that begins keeps the invariant.
LEMMA BeginStep ==
  ASSUME IInv, NEW o \in Owner, NEW s \in Scenarios, Begin(o, s)
  PROVE  IInv'
<1>1. s \in Seq(Component) /\ Len(s) \in Nat
  BY ConstantsAssumption
<1>2. Ordered(s) \in Seq(Component)
  <2>1. CASE Len(s) = 2 /\ s[1] \notin CpuHelpers /\ s[2] \in CpuHelpers
    <3>1. s[1] \in Component /\ s[2] \in Component
      BY <1>1, <2>1
    <3> QED BY <3>1, <2>1 DEF Ordered
  <2>2. CASE ~(Len(s) = 2 /\ s[1] \notin CpuHelpers /\ s[2] \in CpuHelpers)
    BY <1>1, <2>2 DEF Ordered
  <2> QED BY <2>1, <2>2
<1>3. Fresh(o) \in Doc /\ Fresh(o).owner = o /\ Fresh(o).components = <<>>
  <2>1. <<>> \in Seq(Row)
    OBVIOUS
  <2> QED BY <2>1 DEF Fresh, Doc
<1>4. tx' = Fresh(o) /\ plan' = Ordered(s) /\ pc' = "inject" /\ final' = FALSE
      /\ UNCHANGED <<journal, cursor, fault, inflight, overtaken, crashes>>
      /\ (journal # NoDoc => journal.owner # o)
  BY DEF Begin, lab
<1>5. TypeOK'
  BY <1>2, <1>3, <1>4 DEF IInv, TypeOK, PCs
<1>6. JournalCovers'
  BY <1>4 DEF IInv, JournalCovers, Hazard, Pending, CoveredBy
<1> QED
  BY <1>3, <1>4, <1>5, <1>6, NoDocAssumption DEF IInv, AtWork, MemoryCovers, IntentOnDisk,
     CursorInv, VerifiedOnDisk, AheadOfDisk, ConfirmedMeansClean

\* A step that only moves the program counter of a caller at work.
LEMMA MoveStep ==
  ASSUME IInv, pc # "idle", pc' \in PCs \ {"idle"},
         UNCHANGED <<journal, tx, plan, cursor, final, fault, inflight, overtaken, crashes>>,
         IntentOnDisk', CursorInv', VerifiedOnDisk', ConfirmedMeansClean'
  PROVE  IInv'
<1>1. TypeOK'
  BY DEF IInv, TypeOK
<1>2. JournalCovers' /\ MemoryCovers'
  BY DEF IInv, JournalCovers, MemoryCovers, Hazard, Pending, CoveredBy
<1>3. AheadOfDisk'
  BY DEF IInv, AheadOfDisk, Extends
<1> QED
  BY <1>1, <1>2, <1>3 DEF IInv, AtWork

\* A raise into recover() that changes nothing else.
LEMMA PlainRaise ==
  ASSUME IInv, tx # NoDoc, NEW last \in BOOLEAN, EnterRecover(tx, last),
         UNCHANGED <<journal, fault, inflight, overtaken, crashes>>
  PROVE  IInv'
<1>1. tx \in Doc
  BY DEF IInv, TypeOK
<1>2. JournalCovers'
  BY DEF IInv, JournalCovers, Hazard, Pending, CoveredBy
<1>3. (journal' # NoDoc /\ tx.owner = journal'.owner) =>
        /\ Extends(tx, journal')
        /\ \A c \in Component : Hazard(c)' => c \in overtaken \/ CoveredBy(tx, c)
  BY DEF IInv, AheadOfDisk, MemoryCovers, Hazard, Pending
<1>4. fault' \in [Component -> Owner \cup {NoOwner}] /\ inflight' \subseteq Component \X Owner
  BY DEF IInv, TypeOK
<1> QED
  BY <1>1, <1>2, <1>3, <1>4, EnterRecoverKeepsIInv

\* So does one that is refused, a row that is, and the end of the observation.
LEMMA RefuseStep ==
  ASSUME IInv, InjectRefused \/ RowRefused \/ ObserveDone
  PROVE  IInv'
<1>1. tx # NoDoc
  BY DEF IInv, AtWork, InjectRefused, RowRefused, ObserveDone
<1>2. PICK last \in BOOLEAN : EnterRecover(tx, last)
  <2>1. CASE InjectRefused
    BY <2>1 DEF InjectRefused
  <2>2. CASE RowRefused
    BY <2>2 DEF RowRefused
  <2>3. CASE ObserveDone
    <3>1. PICK repair \in BOOLEAN : EnterRecover(tx, ~repair)
      BY <2>3 DEF ObserveDone
    <3>2. (~repair) \in BOOLEAN
      OBVIOUS
    <3> QED BY <3>1, <3>2
  <2> QED BY <2>1, <2>2, <2>3
<1>3. UNCHANGED <<journal, fault, inflight, overtaken, crashes>>
  BY DEF InjectRefused, RowRefused, ObserveDone, lab
<1> QED
  BY <1>1, <1>2, <1>3, PlainRaise

\* So does the start of the injection, and its end.
LEMMA InjectMoveStep ==
  ASSUME IInv, InjectStart \/ InjectDone
  PROVE  IInv'
<1>1. /\ pc' \in {"row", "active"} /\ pc \in {"inject", "row"}
      /\ UNCHANGED <<journal, tx, plan, cursor, final, fault, inflight, overtaken, crashes>>
      /\ pc = "inject" => journal = NoDoc
  BY DEF InjectStart, InjectDone, lab
<1>2. IntentOnDisk'
  BY <1>1 DEF IInv, IntentOnDisk
<1>3. CursorInv' /\ VerifiedOnDisk' /\ ConfirmedMeansClean'
  BY <1>1 DEF CursorInv, VerifiedOnDisk, ConfirmedMeansClean
<1>4. pc # "idle" /\ pc' \in PCs \ {"idle"}
  BY <1>1 DEF PCs
<1> QED
  BY <1>1, <1>2, <1>3, <1>4, MoveStep

\* Appending a row: the object and, when the journal is free or its own, the
\* disk gain it together, before the command.
LEMMA AppendRowStep ==
  ASSUME IInv, AppendRow
  PROVE  IInv'
<1> DEFINE doc == WithRow(tx, Current)
<1>1. pc = "row" /\ MoreRows /\ UNCHANGED <<fault, inflight, overtaken, crashes>>
  BY DEF AppendRow, lab
<1>2. tx \in Doc /\ tx # NoDoc /\ Len(tx.components) \in Nat
  BY <1>1 DEF IInv, TypeOK, AtWork, Doc
<1>3. Current \in Component
  <2>1. plan \in Seq(Component) /\ Len(tx.components) + 1 \in 1..Len(plan)
    BY <1>1, <1>2 DEF IInv, TypeOK, MoreRows
  <2> QED BY <2>1 DEF Current
<1>4. /\ doc \in Doc /\ doc.owner = tx.owner
      /\ Len(doc.components) = Len(tx.components) + 1
      /\ \A k \in 1..Len(tx.components) : doc.components[k] = tx.components[k]
      /\ doc.components[Len(tx.components) + 1].comp = Current
      /\ doc.components[Len(tx.components) + 1].cleanup = "none"
  BY <1>2, <1>3, AppendedRow
<1>5. \/ CanSave(doc) /\ journal' = doc /\ tx' = doc /\ pc' = "command"
         /\ UNCHANGED <<plan, cursor, final>>
      \/ ~CanSave(doc) /\ UNCHANGED journal /\ EnterRecover(doc, FALSE)
  BY DEF AppendRow, SaveThen, WithRow
<1> HIDE DEF doc
<1>6. CanSave(doc)
  BY <1>1, <1>4 DEF IInv, IntentOnDisk, CanSave
<1>7. journal' = doc /\ tx' = doc /\ pc' = "command" /\ UNCHANGED <<plan, cursor, final>>
  BY <1>5, <1>6
<1>8. TypeOK'
  BY <1>1, <1>4, <1>7 DEF IInv, TypeOK, PCs
<1>9. \A c \in Component : Hazard(c)' => c \in overtaken \/ CoveredBy(doc, c)
  <2> SUFFICES ASSUME NEW c \in Component, Hazard(c), c \notin overtaken
               PROVE  CoveredBy(doc, c)
    BY <1>1 DEF Hazard, Pending
  <2>1. journal = tx /\ CoveredBy(tx, c)
    BY <1>1, <1>2 DEF IInv, JournalCovers, IntentOnDisk
  <2> QED
    BY <1>2, <1>4, <2>1, CoverIsKept
<1>10. JournalCovers' /\ MemoryCovers'
  BY <1>1, <1>4, <1>7, <1>9, NoDocAssumption DEF JournalCovers, MemoryCovers, CoveredBy
<1>11. IntentOnDisk'
  BY <1>2, <1>4, <1>7 DEF IntentOnDisk, LastRow
<1>12. AheadOfDisk'
  BY <1>4, <1>7, ExtendsRefl DEF AheadOfDisk, Extends
<1> QED
  BY <1>4, <1>7, <1>8, <1>10, <1>11, <1>12, NoDocAssumption
  DEF IInv, AtWork, CursorInv, VerifiedOnDisk, ConfirmedMeansClean

\* While a command runs its component is covered, in memory and on disk.
LEMMA CurrentIsCovered ==
  ASSUME IInv, pc = "command"
  PROVE  /\ tx \in Doc /\ journal = tx /\ tx # NoDoc
         /\ tx.components[LastRow].comp \in Component
         /\ CoveredBy(tx, tx.components[LastRow].comp)
<1>1. tx # NoDoc /\ tx \in Doc /\ journal = tx
  BY DEF IInv, AtWork, TypeOK, IntentOnDisk
<1>2. LastRow \in 1..Len(tx.components) /\ tx.components[LastRow].cleanup = "none"
  BY <1>1 DEF IInv, IntentOnDisk, LastRow, Doc
<1>3. tx.components[LastRow] \in Row
  BY <1>1, <1>2 DEF Doc
<1> QED
  BY <1>1, <1>2, <1>3 DEF CoveredBy, Row

\* The hazards of the next state, when only the current component may gain one.
LEMMA CommandHazards ==
  ASSUME IInv, pc = "command", UNCHANGED overtaken,
         fault' = fault \/ fault' = [fault EXCEPT ![tx.components[LastRow].comp] = tx.owner],
         inflight' = inflight \/ inflight' = inflight \cup {<<tx.components[LastRow].comp, tx.owner>>}
  PROVE  /\ \A c \in Component : Hazard(c)' => c \in overtaken \/ CoveredBy(tx, c)
         /\ fault' \in [Component -> Owner \cup {NoOwner}]
         /\ inflight' \subseteq Component \X Owner
<1> DEFINE d == tx.components[LastRow].comp
<1>1. /\ tx \in Doc /\ journal = tx /\ tx # NoDoc /\ d \in Component /\ CoveredBy(tx, d)
      /\ tx.owner \in Owner
  BY CurrentIsCovered DEF Doc
<1> HIDE DEF d
<1>2. fault \in [Component -> Owner \cup {NoOwner}] /\ inflight \subseteq Component \X Owner
  BY DEF IInv, TypeOK
<1>3. \A c \in Component : Hazard(c)' => Hazard(c) \/ c = d
  BY <1>1, <1>2 DEF Hazard, Pending, d
<1>4. \A c \in Component : Hazard(c) => c \in overtaken \/ CoveredBy(tx, c)
  BY <1>1 DEF IInv, JournalCovers
<1>5. fault' \in [Component -> Owner \cup {NoOwner}]
  BY <1>1, <1>2 DEF d
<1>6. inflight' \subseteq Component \X Owner
  BY <1>1, <1>2 DEF d
<1> QED
  BY <1>1, <1>3, <1>4, <1>5, <1>6

\* A command that returns keeps it.
LEMMA CommandReturnsStep ==
  ASSUME IInv, CommandApplied \/ CommandDetached
  PROVE  IInv'
<1>1. /\ pc = "command" /\ pc' = "ack"
      /\ UNCHANGED <<journal, tx, plan, cursor, final, overtaken, crashes>>
      /\ fault' = fault \/ fault' = [fault EXCEPT ![tx.components[LastRow].comp] = tx.owner]
      /\ inflight' = inflight \/ inflight' = inflight \cup {<<tx.components[LastRow].comp, tx.owner>>}
  BY DEF CommandApplied, CommandDetached
<1>2. /\ \A c \in Component : Hazard(c)' => c \in overtaken \/ CoveredBy(tx, c)
      /\ fault' \in [Component -> Owner \cup {NoOwner}]
      /\ inflight' \subseteq Component \X Owner
  BY <1>1, CommandHazards
<1>3. journal = tx /\ tx # NoDoc
  BY <1>1, CurrentIsCovered
<1>4. TypeOK'
  BY <1>1, <1>2 DEF IInv, TypeOK, PCs
<1>5. JournalCovers' /\ MemoryCovers'
  BY <1>1, <1>2, <1>3 DEF JournalCovers, MemoryCovers, CoveredBy
<1>6. IntentOnDisk'
  BY <1>1 DEF IInv, IntentOnDisk, LastRow
<1>7. AheadOfDisk'
  BY <1>1 DEF IInv, AheadOfDisk, Extends
<1> QED
  BY <1>1, <1>3, <1>4, <1>5, <1>6, <1>7
  DEF IInv, AtWork, CursorInv, VerifiedOnDisk, ConfirmedMeansClean

\* A command that raises enters the recovery, and keeps it.
LEMMA CommandRaisedStep ==
  ASSUME IInv, CommandRaised
  PROVE  IInv'
<1>1. /\ pc = "command" /\ EnterRecover(tx, FALSE)
      /\ UNCHANGED <<journal, overtaken, crashes>>
      /\ fault' = fault \/ fault' = [fault EXCEPT ![tx.components[LastRow].comp] = tx.owner]
      /\ inflight' = inflight \/ inflight' = inflight \cup {<<tx.components[LastRow].comp, tx.owner>>}
  BY DEF CommandRaised
<1>2. /\ \A c \in Component : Hazard(c)' => c \in overtaken \/ CoveredBy(tx, c)
      /\ fault' \in [Component -> Owner \cup {NoOwner}]
      /\ inflight' \subseteq Component \X Owner
  BY <1>1, CommandHazards
<1>3. journal = tx /\ tx # NoDoc /\ tx \in Doc
  BY <1>1, CurrentIsCovered
<1>4. JournalCovers'
  BY <1>1, <1>2, <1>3 DEF JournalCovers, CoveredBy
<1> QED
  BY <1>1, <1>2, <1>3, <1>4, ExtendsRefl, EnterRecoverKeepsIInv

\* Acknowledging an injected row keeps it.
LEMMA AcknowledgeStep ==
  ASSUME IInv, Acknowledge
  PROVE  IInv'
<1> DEFINE doc == WithActive(tx)
<1>1. pc = "ack" /\ UNCHANGED <<fault, inflight, overtaken, crashes>>
  BY DEF Acknowledge, lab
<1>2. tx \in Doc /\ tx # NoDoc /\ journal = tx /\ Len(tx.components) > 0 /\ Len(tx.components) \in Nat
  BY <1>1 DEF IInv, TypeOK, AtWork, IntentOnDisk, LastRow, Doc
<1>3. /\ doc \in Doc /\ doc.owner = tx.owner
      /\ Len(doc.components) = Len(tx.components)
      /\ \A k \in 1..Len(tx.components) :
           /\ doc.components[k].comp = tx.components[k].comp
           /\ doc.components[k].cleanup = tx.components[k].cleanup
  BY <1>2, ActiveRow
<1>4. \/ CanSave(doc) /\ journal' = doc /\ tx' = doc /\ pc' = "row"
         /\ UNCHANGED <<plan, cursor, final>>
      \/ ~CanSave(doc) /\ UNCHANGED journal /\ EnterRecover(doc, FALSE)
  BY DEF Acknowledge, SaveThen, WithActive, LastRow
<1> HIDE DEF doc
<1>5. CanSave(doc)
  BY <1>2, <1>3 DEF CanSave
<1>6. journal' = doc /\ tx' = doc /\ pc' = "row" /\ UNCHANGED <<plan, cursor, final>>
  BY <1>4, <1>5
<1>7. TypeOK'
  BY <1>1, <1>3, <1>6 DEF IInv, TypeOK, PCs
<1>8. \A c \in Component : Hazard(c)' => c \in overtaken \/ CoveredBy(doc, c)
  <2> SUFFICES ASSUME NEW c \in Component, Hazard(c), c \notin overtaken
               PROVE  CoveredBy(doc, c)
    BY <1>1 DEF Hazard, Pending
  <2>1. CoveredBy(tx, c)
    BY <1>2 DEF IInv, JournalCovers
  <2> QED
    BY <1>2, <1>3, <2>1, CoverIsKept
<1>9. JournalCovers' /\ MemoryCovers'
  BY <1>1, <1>3, <1>6, <1>8, NoDocAssumption DEF JournalCovers, MemoryCovers, CoveredBy
<1>10. AheadOfDisk'
  BY <1>3, <1>6, ExtendsRefl DEF AheadOfDisk, Extends
<1> QED
  BY <1>3, <1>6, <1>7, <1>9, <1>10, NoDocAssumption
  DEF IInv, AtWork, IntentOnDisk, CursorInv, VerifiedOnDisk, ConfirmedMeansClean

-----------------------------------------------------------------------------
(* recover()                                                               *)

\* The object of a caller at work, and the row recover() is at.
LEMMA AtRow ==
  ASSUME IInv, pc # "idle"
  PROVE  /\ tx # NoDoc /\ tx \in Doc /\ Len(tx.components) \in Nat
         /\ cursor \in Nat
         /\ \A k \in 1..Len(tx.components) : tx.components[k] \in Row
  BY DEF IInv, AtWork, TypeOK, Doc

\* Skipping a row that is clean keeps it.
LEMMA SkipRowStep ==
  ASSUME IInv, SkipRow
  PROVE  IInv'
<1>1. /\ pc = "recover" /\ cursor > 0 /\ tx.components[cursor].cleanup = "passed"
      /\ cursor' = cursor - 1
      /\ UNCHANGED <<journal, tx, plan, pc, final, fault, inflight, overtaken, crashes>>
  BY DEF SkipRow, lab
<1>2. cursor \in Nat /\ Len(tx.components) \in Nat
  BY <1>1, AtRow
<1>3. TypeOK'
  BY <1>1, <1>2 DEF IInv, TypeOK
<1>4. CursorInv'
  BY <1>1, <1>2 DEF IInv, CursorInv
<1>5. JournalCovers' /\ MemoryCovers'
  BY <1>1 DEF IInv, JournalCovers, MemoryCovers, Hazard, Pending, CoveredBy
<1>6. AheadOfDisk'
  BY <1>1 DEF IInv, AheadOfDisk, Extends
<1> QED
  BY <1>1, <1>3, <1>4, <1>5, <1>6
  DEF IInv, AtWork, IntentOnDisk, VerifiedOnDisk, ConfirmedMeansClean

\* A cleanup's outcome is first recorded in memory.  When it passed, its
\* component has no fault left, and a command still in flight marks it as
\* overtaken: the row may go without uncovering anything.
LEMMA CleanupStep ==
  ASSUME IInv, CleanupPassed \/ CleanupFailed
  PROVE  IInv'
<1> DEFINE d == tx.components[cursor].comp
<1>1. PICK v \in {"passed", "failed"} :
        /\ CleanRow(v)
        /\ fault' = fault \/ fault' = [fault EXCEPT ![d] = NoOwner]
        /\ \/ v = "passed" /\ fault' = [fault EXCEPT ![d] = NoOwner]
              /\ overtaken' = IF Pending(d) THEN overtaken \cup {d} ELSE overtaken \ {d}
           \/ v = "failed" /\ overtaken' = overtaken
  BY DEF CleanupPassed, CleanupFailed
<1> DEFINE doc == WithCleanup(tx, cursor, v)
<1>2. /\ pc = "recover" /\ cursor > 0 /\ tx.components[cursor].cleanup # "passed"
      /\ tx' = doc /\ pc' = "record"
      /\ UNCHANGED <<journal, plan, cursor, final, inflight, crashes>>
  BY <1>1 DEF CleanRow, WithCleanup
<1>3. /\ tx # NoDoc /\ tx \in Doc /\ Len(tx.components) \in Nat
      /\ cursor \in 1..Len(tx.components)
  BY <1>2, AtRow DEF IInv, CursorInv
<1>4. d \in Component
  BY <1>2, <1>3, AtRow DEF Row
<1>5. /\ doc \in Doc /\ doc.owner = tx.owner
      /\ Len(doc.components) = Len(tx.components)
      /\ \A k \in 1..Len(tx.components) :
           /\ doc.components[k].comp = tx.components[k].comp
           /\ doc.components[k].cleanup = IF k = cursor THEN v ELSE tx.components[k].cleanup
  BY <1>3, CleanedRow
<1> HIDE DEF doc
<1>6. fault \in [Component -> Owner \cup {NoOwner}]
  BY DEF IInv, TypeOK
<1>7. TypeOK'
  <2>1. fault' \in [Component -> Owner \cup {NoOwner}]
    BY <1>1, <1>4, <1>6
  <2>2. overtaken' \subseteq Component
    BY <1>1, <1>4 DEF IInv, TypeOK
  <2> QED BY <1>2, <1>5, <2>1, <2>2 DEF IInv, TypeOK, PCs
<1>8. \A c \in Component : Hazard(c)' => Hazard(c) /\ (c # d => (c \in overtaken => c \in overtaken'))
  BY <1>1, <1>2, <1>4, <1>6 DEF Hazard, Pending
<1>9. \A c \in Component : v = "passed" /\ c = d /\ Hazard(c)' => c \in overtaken'
  BY <1>1, <1>2, <1>4, <1>6 DEF Hazard, Pending
<1>10. v = "failed" => overtaken' = overtaken
  BY <1>1
<1>11. JournalCovers'
  <2> SUFFICES ASSUME NEW c \in Component, Hazard(c)', c \notin overtaken'
               PROVE  journal # NoDoc /\ CoveredBy(journal, c)
    BY <1>2 DEF JournalCovers, CoveredBy
  <2>1. Hazard(c) /\ c \notin overtaken
    BY <1>1, <1>8, <1>9, <1>10
  <2> QED BY <2>1 DEF IInv, JournalCovers
<1>12. MemoryCovers'
  <2> SUFFICES ASSUME journal # NoDoc, doc.owner = journal.owner,
                      NEW c \in Component, Hazard(c)', c \notin overtaken'
               PROVE  CoveredBy(doc, c)
    BY <1>2 DEF MemoryCovers, CoveredBy
  <2>1. Hazard(c) /\ c \notin overtaken
    BY <1>1, <1>8, <1>9, <1>10
  <2>2. CoveredBy(tx, c)
    BY <1>3, <1>5, <2>1 DEF IInv, MemoryCovers
  <2>3. v = "passed" => c # d
    BY <1>9
  <2>4. PICK k \in 1..Len(tx.components) :
          tx.components[k].comp = c /\ tx.components[k].cleanup # "passed"
    BY <2>2 DEF CoveredBy
  <2>5. doc.components[k].cleanup # "passed"
    BY <1>5, <2>3, <2>4
  <2> QED BY <1>5, <2>4, <2>5 DEF CoveredBy
<1>13. AheadOfDisk'
  <2> SUFFICES ASSUME journal # NoDoc, doc.owner = journal.owner
               PROVE  Extends(doc, journal)
    BY <1>2 DEF AheadOfDisk, Extends
  <2>1. Extends(tx, journal) /\ Len(journal.components) \in Nat
    BY <1>3, <1>5 DEF IInv, AheadOfDisk, TypeOK, Doc
  <2>2. \A k \in 1..Len(journal.components) :
          /\ k \in 1..Len(tx.components)
          /\ k = cursor => journal.components[k].cleanup # "passed"
    BY <1>2, <1>3, <2>1 DEF Extends
  <2> QED BY <1>5, <2>1, <2>2 DEF Extends
<1>14. CursorInv'
  BY <1>2, <1>3, <1>5 DEF IInv, CursorInv
<1> QED
  BY <1>2, <1>5, <1>7, <1>11, <1>12, <1>13, <1>14, NoDocAssumption
  DEF IInv, AtWork, IntentOnDisk, VerifiedOnDisk, ConfirmedMeansClean

\* Saving the object, or failing to, uncovers nothing: when the disk holds the
\* caller's own journal the object covers what that does.
LEMMA SaveCovers ==
  ASSUME IInv, pc # "idle", NEW doc \in Doc,
         doc.owner = tx.owner, doc.components = tx.components,
         \/ CanSave(doc) /\ journal' = doc
         \/ journal' = journal,
         UNCHANGED <<fault, inflight, overtaken>>
  PROVE  JournalCovers'
<1> SUFFICES ASSUME NEW c \in Component, Hazard(c), c \notin overtaken
             PROVE  journal' # NoDoc /\ CoveredBy(journal', c)
  BY DEF JournalCovers, Hazard, Pending, CoveredBy
<1>1. journal # NoDoc /\ CoveredBy(journal, c)
  BY DEF IInv, JournalCovers
<1>2. CASE journal' = journal
  BY <1>1, <1>2
<1>3. CASE CanSave(doc) /\ journal' = doc
  <2>1. tx # NoDoc /\ tx.owner = journal.owner
    BY <1>1, <1>3, AtRow DEF CanSave
  <2>2. CoveredBy(tx, c)
    BY <1>1, <2>1 DEF IInv, MemoryCovers
  <2> QED
    BY <1>3, <2>2, NoDocAssumption DEF CoveredBy
<1> QED
  BY <1>2, <1>3

\* The end of a recover() that does not return to its caller.
LEMMA FinallyOrLeaveStep ==
  ASSUME IInv, pc # "idle", NEW doc \in Doc, FinallyOrLeave(doc),
         doc.owner = tx.owner, doc.components = tx.components,
         \/ CanSave(doc) /\ journal' = doc
         \/ journal' = journal,
         UNCHANGED <<fault, inflight, overtaken, crashes>>
  PROVE  IInv'
<1>1. JournalCovers'
  BY SaveCovers
<1>2. /\ fault \in [Component -> Owner \cup {NoOwner}]
      /\ inflight \subseteq Component \X Owner
      /\ crashes \in 0..MaxCrashes
      /\ journal' \in Doc \cup {NoDoc}
  BY DEF IInv, TypeOK
<1>3. CASE final
  <2>1. Leave
    BY <1>3 DEF FinallyOrLeave
  <2> QED
    BY <1>1, <1>2, <2>1, LeaveKeepsIInv
<1>4. CASE ~final
  <2>1. EnterRecover(doc, TRUE)
    BY <1>4 DEF FinallyOrLeave
  <2>2. ASSUME journal' # NoDoc, doc.owner = journal'.owner
        PROVE  /\ Extends(doc, journal')
               /\ \A c \in Component : Hazard(c)' => c \in overtaken \/ CoveredBy(doc, c)
    <3>1. CASE journal' = doc
      BY <1>1, <3>1, ExtendsRefl DEF JournalCovers, CoveredBy
    <3>2. CASE journal' = journal
      <4>1. tx # NoDoc /\ journal # NoDoc /\ tx.owner = journal.owner
        BY <2>2, <3>2, AtRow
      <4>2. Extends(tx, journal) /\ \A c \in Component : Hazard(c) => c \in overtaken \/ CoveredBy(tx, c)
        BY <4>1 DEF IInv, AheadOfDisk, MemoryCovers
      <4>3. Extends(doc, journal')
        BY <3>2, <4>2 DEF Extends
      <4>4. \A c \in Component : Hazard(c)' => Hazard(c)
        BY DEF Hazard, Pending
      <4>5. \A c \in Component : CoveredBy(tx, c) => CoveredBy(doc, c)
        BY DEF CoveredBy
      <4> QED
        BY <4>2, <4>3, <4>4, <4>5
    <3> QED
      BY <3>1, <3>2
  <2> QED
    BY <1>1, <1>2, <2>1, <2>2, EnterRecoverKeepsIInv
<1> QED
  BY <1>3, <1>4

\* Recording a row as clean keeps it.
LEMMA RecordCleanupStep ==
  ASSUME IInv, RecordCleanup
  PROVE  IInv'
<1>1. pc = "record" /\ UNCHANGED <<fault, inflight, overtaken, crashes>>
  BY DEF RecordCleanup, lab
<1>2. /\ tx # NoDoc /\ tx \in Doc /\ Len(tx.components) \in Nat
      /\ cursor \in 1..Len(tx.components)
  BY <1>1, AtRow DEF IInv, CursorInv
<1>3. CASE /\ CanSave(tx) /\ journal' = tx /\ cursor' = cursor - 1 /\ pc' = "recover"
           /\ UNCHANGED <<tx, plan, final>>
  <2>1. TypeOK'
    BY <1>1, <1>2, <1>3 DEF IInv, TypeOK, PCs
  <2>2. JournalCovers'
    BY <1>1, <1>2, <1>3, SaveCovers
  <2>3. MemoryCovers'
    BY <1>3, <2>2 DEF JournalCovers, MemoryCovers, CoveredBy
  <2>4. AheadOfDisk'
    BY <1>2, <1>3, ExtendsRefl DEF AheadOfDisk, Extends
  <2>5. CursorInv'
    BY <1>1, <1>2, <1>3 DEF IInv, CursorInv
  <2> QED
    BY <1>2, <1>3, <2>1, <2>2, <2>3, <2>4, <2>5
    DEF IInv, AtWork, IntentOnDisk, VerifiedOnDisk, ConfirmedMeansClean
<1>4. CASE ~CanSave(tx) /\ UNCHANGED journal /\ FinallyOrLeave(tx)
  BY <1>1, <1>2, <1>4, FinallyOrLeaveStep
<1> QED
  BY <1>3, <1>4 DEF RecordCleanup, SaveThen

\* Only a loop whose every row has passed leads on to the verification.
LEMMA RecoverEndStep ==
  ASSUME IInv, RecoverEnd
  PROVE  IInv'
<1> DEFINE doc == [tx EXCEPT !.recovered = NoFailures]
<1>1. pc = "recover" /\ cursor = 0 /\ UNCHANGED <<fault, inflight, overtaken, crashes>>
  BY DEF RecoverEnd, lab
<1>2. tx # NoDoc /\ tx \in Doc /\ Len(tx.components) \in Nat
      /\ \A k \in 1..Len(tx.components) : tx.components[k] \in Row
  BY <1>1, AtRow
<1>3. /\ doc \in Doc /\ doc.owner = tx.owner /\ doc.components = tx.components
      /\ doc.recovered = NoFailures
  BY <1>2 DEF Doc, NoFailures
<1>4. \/ CanSave(doc) /\ journal' = doc /\ NoFailures /\ final
         /\ tx' = doc /\ pc' = "health" /\ UNCHANGED <<plan, cursor, final>>
      \/ /\ FinallyOrLeave(doc)
         /\ (CanSave(doc) /\ journal' = doc) \/ journal' = journal
  BY DEF RecoverEnd, SaveThen
<1> HIDE DEF doc
<1>5. CASE CanSave(doc) /\ journal' = doc /\ NoFailures /\ final
           /\ tx' = doc /\ pc' = "health" /\ UNCHANGED <<plan, cursor, final>>
  <2>1. TypeOK'
    BY <1>1, <1>3, <1>5 DEF IInv, TypeOK, PCs
  <2>2. JournalCovers'
    BY <1>1, <1>3, <1>5, SaveCovers
  <2>3. MemoryCovers'
    BY <1>5, <2>2 DEF JournalCovers, MemoryCovers, CoveredBy
  <2>4. AheadOfDisk'
    BY <1>3, <1>5, ExtendsRefl DEF AheadOfDisk, Extends
  <2>5. ConfirmedMeansClean'
    <3>1. ASSUME NEW k \in 1..Len(tx.components)
          PROVE  tx.components[k].cleanup = "passed"
      <4>1. tx.components[k].cleanup \in {"none", "failed", "passed"}
        BY <1>2 DEF Row
      <4>2. tx.components[k].cleanup # "none"
        BY <1>1, <1>2 DEF IInv, CursorInv
      <4>3. tx.components[k].cleanup # "failed"
        BY <1>5 DEF NoFailures
      <4> QED BY <4>1, <4>2, <4>3
    <3> QED
      BY <1>3, <1>5, <3>1 DEF ConfirmedMeansClean
  <2> QED
    BY <1>3, <1>5, <2>1, <2>2, <2>3, <2>4, <2>5, NoDocAssumption
    DEF IInv, AtWork, IntentOnDisk, VerifiedOnDisk, CursorInv
<1>6. CASE /\ FinallyOrLeave(doc)
           /\ (CanSave(doc) /\ journal' = doc) \/ journal' = journal
  BY <1>1, <1>3, <1>6, FinallyOrLeaveStep
<1> QED
  BY <1>4, <1>5, <1>6

-----------------------------------------------------------------------------
(* Verification, restoration and the environment.                          *)

\* Giving up, failing the checks or dying leaves the journal as it is; a death
\* during a command may leave the command running, on a row that is on disk.
LEMMA GiveUpStep ==
  ASSUME IInv, Abandon \/ HealthFailed \/ Crash
  PROVE  IInv'
<1>1. pc # "idle" /\ Leave /\ UNCHANGED <<journal, fault, overtaken>>
  BY DEF Abandon, HealthFailed, Crash, lab
<1>2. crashes' \in 0..MaxCrashes
  BY ConstantsAssumption DEF Abandon, HealthFailed, Crash, IInv, TypeOK
<1>3. \/ inflight' = inflight
      \/ /\ pc = "command"
         /\ inflight' = inflight \cup {<<tx.components[LastRow].comp, tx.owner>>}
  BY DEF Abandon, HealthFailed, Crash, lab
<1>4. journal \in Doc \cup {NoDoc} /\ inflight \subseteq Component \X Owner
  BY DEF IInv, TypeOK
<1>5. CASE inflight' = inflight
  <2>1. JournalCovers'
    BY <1>1, <1>5 DEF IInv, JournalCovers, Hazard, Pending, CoveredBy
  <2> QED
    BY <1>1, <1>2, <1>4, <1>5, <2>1, LeaveKeepsIInv
<1>6. CASE /\ pc = "command"
           /\ inflight' = inflight \cup {<<tx.components[LastRow].comp, tx.owner>>}
  <2>1. journal = tx /\ tx # NoDoc
    BY <1>6, CurrentIsCovered
  <2>2. /\ \A c \in Component : Hazard(c)' => c \in overtaken \/ CoveredBy(tx, c)
        /\ inflight' \subseteq Component \X Owner
    BY <1>1, <1>6, CommandHazards
  <2>3. JournalCovers'
    BY <1>1, <2>1, <2>2 DEF JournalCovers, CoveredBy
  <2> QED
    BY <1>1, <1>2, <1>4, <2>2, <2>3, LeaveKeepsIInv
<1> QED
  BY <1>3, <1>5, <1>6

\* Passing the checks of health keeps it.
LEMMA HealthPassedStep ==
  ASSUME IInv, HealthPassed
  PROVE  IInv'
<1>1. /\ pc = "health" /\ pc' = "confirm"
      /\ UNCHANGED <<journal, tx, plan, cursor, final, fault, inflight, overtaken, crashes>>
  BY DEF HealthPassed, lab
<1>2. IntentOnDisk' /\ CursorInv' /\ VerifiedOnDisk' /\ ConfirmedMeansClean'
  BY <1>1 DEF IInv, IntentOnDisk, CursorInv, VerifiedOnDisk, ConfirmedMeansClean
<1>3. pc # "idle" /\ pc' \in PCs \ {"idle"}
  BY <1>1 DEF PCs
<1> QED
  BY <1>1, <1>2, <1>3, MoveStep

\* Confirming a clean lab keeps it.
LEMMA ConfirmStep ==
  ASSUME IInv, Confirm
  PROVE  IInv'
<1>1. pc = "confirm" /\ UNCHANGED <<fault, inflight, overtaken, crashes>>
  BY DEF Confirm, lab
<1>2. journal = tx /\ tx # NoDoc /\ tx \in Doc
  BY <1>1, AtRow DEF IInv, VerifiedOnDisk
<1>3. journal' = journal
  BY <1>2 DEF Confirm, SaveThen
<1>4. CASE pc' = "unlink" /\ UNCHANGED <<tx, plan, cursor, final>>
  <2>1. IntentOnDisk' /\ CursorInv' /\ VerifiedOnDisk' /\ ConfirmedMeansClean'
    BY <1>1, <1>2, <1>3, <1>4
    DEF IInv, IntentOnDisk, CursorInv, VerifiedOnDisk, ConfirmedMeansClean
  <2>2. pc # "idle" /\ pc' \in PCs \ {"idle"}
    BY <1>1, <1>4 DEF PCs
  <2> QED
    BY <1>1, <1>3, <1>4, <2>1, <2>2, MoveStep
<1>5. CASE Leave
  <2>1. JournalCovers'
    BY <1>1, <1>3 DEF IInv, JournalCovers, Hazard, Pending, CoveredBy
  <2> QED
    BY <1>1, <1>3, <1>5, <2>1, LeaveKeepsIInv DEF IInv, TypeOK
<1> QED
  BY <1>4, <1>5 DEF Confirm, SaveThen

\* When the journal is about to go, nothing in the lab needs it.
LEMMA UnlinkIsClean ==
  ASSUME IInv, Unlink
  PROVE  \A c \in Component : Hazard(c) => c \in overtaken
<1>1. pc = "unlink" /\ journal = tx
  BY DEF Unlink, IInv, VerifiedOnDisk
<1>2. \A k \in 1..Len(tx.components) : tx.components[k].cleanup = "passed"
  BY <1>1 DEF IInv, ConfirmedMeansClean
<1>3. \A c \in Component : ~CoveredBy(journal, c)
  BY <1>1, <1>2 DEF CoveredBy
<1> QED
  BY <1>3 DEF IInv, JournalCovers

\* Unlinking the journal keeps it.
LEMMA UnlinkStep ==
  ASSUME IInv, Unlink
  PROVE  IInv'
<1>1. Leave /\ journal' = NoDoc /\ UNCHANGED <<fault, inflight, overtaken, crashes>>
  BY DEF Unlink, lab
<1>2. JournalCovers'
  BY <1>1, UnlinkIsClean DEF JournalCovers, Hazard, Pending
<1> QED
  BY <1>1, <1>2, LeaveKeepsIInv DEF IInv, TypeOK

\* A restart recovers from the journal, and keeps it.
LEMMA RestoreStep ==
  ASSUME IInv, Restore
  PROVE  IInv'
<1>1. /\ journal # NoDoc /\ EnterRecover(journal, TRUE)
      /\ UNCHANGED <<journal, fault, inflight, overtaken, crashes>>
  BY DEF Restore, lab
<1>2. journal \in Doc
  BY <1>1 DEF IInv, TypeOK
<1>3. JournalCovers'
  BY <1>1 DEF IInv, JournalCovers, Hazard, Pending, CoveredBy
<1>4. \A c \in Component : Hazard(c)' => c \in overtaken \/ CoveredBy(journal, c)
  BY <1>1 DEF IInv, JournalCovers, Hazard, Pending
<1>5. Extends(journal, journal)
  BY <1>2, ExtendsRefl
<1>6. fault' \in [Component -> Owner \cup {NoOwner}] /\ inflight' \subseteq Component \X Owner
  BY <1>1 DEF IInv, TypeOK
<1> QED
  BY <1>1, <1>2, <1>3, <1>4, <1>5, <1>6, EnterRecoverKeepsIInv

\* A step of the lab alone, which adds no hazard.
LEMMA LabStep ==
  ASSUME IInv,
         UNCHANGED <<journal, tx, plan, pc, cursor, final, overtaken, crashes>>,
         fault' \in [Component -> Owner \cup {NoOwner}],
         inflight' \subseteq inflight,
         \A c \in Component : Hazard(c)' => Hazard(c)
  PROVE  IInv'
<1>1. TypeOK'
  BY DEF IInv, TypeOK
<1>2. JournalCovers' /\ MemoryCovers'
  BY DEF IInv, JournalCovers, MemoryCovers, CoveredBy
<1>3. IntentOnDisk' /\ CursorInv' /\ VerifiedOnDisk' /\ ConfirmedMeansClean'
  BY DEF IInv, IntentOnDisk, CursorInv, VerifiedOnDisk, ConfirmedMeansClean, LastRow
<1>4. AheadOfDisk'
  BY DEF IInv, AheadOfDisk, Extends
<1> QED
  BY <1>1, <1>2, <1>3, <1>4 DEF IInv, AtWork

\* Effects that come late, and faults that expire, keep the invariant.
LEMMA EnvironmentStep ==
  ASSUME IInv,
         \/ \E c \in Component, o \in Owner : LateEffect(c, o)
         \/ \E c \in Component : Expire(c)
  PROVE  IInv'
<1>1. fault \in [Component -> Owner \cup {NoOwner}] /\ inflight \subseteq Component \X Owner
  BY DEF IInv, TypeOK
<1>2. ASSUME NEW c \in Component, NEW o \in Owner, LateEffect(c, o)
      PROVE  IInv'
  <2>1. /\ <<c, o>> \in inflight /\ inflight' = inflight \ {<<c, o>>}
        /\ fault' = fault \/ fault' = [fault EXCEPT ![c] = o]
        /\ UNCHANGED <<journal, tx, plan, pc, cursor, final, overtaken, crashes>>
    BY <1>2 DEF LateEffect
  <2>2. \A d \in Component : Hazard(d)' => Hazard(d)
    BY <1>1, <2>1 DEF Hazard, Pending
  <2>3. fault' \in [Component -> Owner \cup {NoOwner}]
    BY <1>1, <2>1
  <2> QED
    BY <2>1, <2>2, <2>3, LabStep
<1>3. ASSUME NEW c \in Component, Expire(c)
      PROVE  IInv'
  <2>1. /\ fault' = [fault EXCEPT ![c] = NoOwner]
        /\ UNCHANGED <<journal, tx, plan, pc, cursor, final, inflight, overtaken, crashes>>
    BY <1>3 DEF Expire
  <2>2. \A d \in Component : Hazard(d)' => Hazard(d)
    BY <1>1, <2>1 DEF Hazard, Pending
  <2>3. fault' \in [Component -> Owner \cup {NoOwner}]
    BY <1>1, <2>1
  <2> QED
    BY <2>1, <2>2, <2>3, LabStep
<1> QED
  BY <1>2, <1>3

-----------------------------------------------------------------------------
(* The invariant is inductive.                                             *)

\* Every step keeps the invariant.
LEMMA NextKeepsIInv == IInv /\ [Next]_vars => IInv'
<1> SUFFICES ASSUME IInv, [Next]_vars PROVE IInv'
  OBVIOUS
<1>1. CASE UNCHANGED vars
  <2>1. UNCHANGED <<journal, tx, plan, pc, cursor, final, fault, inflight, overtaken, crashes>>
    BY <1>1 DEF vars
  <2>2. \A c \in Component : Hazard(c)' => Hazard(c)
    BY <2>1 DEF Hazard, Pending
  <2> QED
    BY <2>1, <2>2, LabStep DEF IInv, TypeOK
<1>2. CASE \E o \in Owner, s \in Scenarios : Begin(o, s)
  BY <1>2, BeginStep
<1>3. CASE Inject
  BY <1>3, RefuseStep, InjectMoveStep, AppendRowStep, CommandReturnsStep, CommandRaisedStep,
     AcknowledgeStep DEF Inject
<1>4. CASE ObserveDone \/ Abandon
  BY <1>4, RefuseStep, GiveUpStep
<1>5. CASE Recover
  BY <1>5, SkipRowStep, CleanupStep, RecordCleanupStep, RecoverEndStep DEF Recover
<1>6. CASE Verify
  BY <1>6, HealthPassedStep, GiveUpStep, ConfirmStep, UnlinkStep DEF Verify
<1>7. CASE Restore
  BY <1>7, RestoreStep
<1>8. CASE Crash
  BY <1>8, GiveUpStep
<1>9. CASE \/ \E c \in Component, o \in Owner : LateEffect(c, o)
           \/ \E c \in Component : Expire(c)
  BY <1>9, EnvironmentStep
<1> QED
  BY <1>1, <1>2, <1>3, <1>4, <1>5, <1>6, <1>7, <1>8, <1>9 DEF Next, Caller

\* The invariant holds always.
LEMMA AlwaysIInv == Spec => []IInv
  BY InitIInv, NextKeepsIInv, PTL DEF Spec

-----------------------------------------------------------------------------
(* The theorems.                                                           *)

\* Type correctness of the transaction, its journal and the lab of
\* faults_v3.py, for every registry of components and scenarios.
THEOREM TypeCorrect == Spec => []TypeOK
<1>1. IInv => TypeOK
  BY DEF IInv
<1> QED
  BY <1>1, AlwaysIInv, PTL

\* "Persist cleanup intent before executing an intervention": whatever fails
\* and whoever dies, every fault in the lab has a row on disk still to clean,
\* unless its own cleanup passed while its command was in flight.
THEOREM JournalAlwaysCovers == Spec => []JournalCovers
<1>1. IInv => JournalCovers
  BY DEF IInv
<1> QED
  BY <1>1, AlwaysIInv, PTL

\* "Every component cleanup is attempted even after another cleanup fails":
\* recover() leaves no row behind its cursor without an attempt.
THEOREM CleanupsAreAttempted == Spec => []EveryCleanupAttempted
<1>1. IInv => EveryCleanupAttempted
  BY DEF IInv, CursorInv, EveryCleanupAttempted
<1> QED
  BY <1>1, AlwaysIInv, PTL

\* The recovery checks and the removal of the journal are reached only with
\* the cleanup of every row passed and recovered set by the same loop.
THEOREM ConfirmationIsClean == Spec => []ConfirmedMeansClean
<1>1. IInv => ConfirmedMeansClean
  BY DEF IInv
<1> QED
  BY <1>1, AlwaysIInv, PTL

\* A step that replaces the journal writes the object of a caller that owns it.
LEMMA SaveAdvances ==
  ASSUME IInv, pc # "idle", journal # NoDoc,
         NEW doc \in Doc, doc.owner = tx.owner, CanSave(doc),
         Extends(doc, tx), journal' = doc
  PROVE  /\ tx # NoDoc /\ tx.owner = journal.owner
         /\ journal'.owner = journal.owner /\ Extends(journal', journal)
<1>1. tx # NoDoc /\ tx.owner = journal.owner
  BY AtRow DEF CanSave
<1>2. Extends(tx, journal)
  BY <1>1 DEF IInv, AheadOfDisk
<1>3. Len(tx.components) \in Nat /\ Len(journal.components) \in Nat /\ Len(doc.components) \in Nat
  BY AtRow DEF IInv, TypeOK, Doc
<1>4. Extends(doc, journal)
  BY <1>2, <1>3 DEF Extends
<1> QED
  BY <1>1, <1>4 DEF CanSave

\* The journal changes by a save() of the caller's own object, with every row
\* it had, or by the unlink that ends its transaction.
LEMMA RowsAreKept ==
  ASSUME IInv, Next, journal' # journal
  PROVE  \/ Unlink
         \/ /\ pc # "idle" /\ tx # NoDoc
            /\ journal' \in Doc /\ journal'.owner = tx.owner
            /\ CanSave(journal') /\ Extends(journal', tx)
<1>1. CASE AppendRow
  <2> DEFINE doc == WithRow(tx, Current)
  <2>1. pc = "row" /\ MoreRows /\ journal' = doc /\ CanSave(doc)
    BY <1>1 DEF AppendRow, SaveThen, WithRow
  <2>2. tx \in Doc /\ tx # NoDoc /\ Len(tx.components) \in Nat
    BY <2>1, AtRow
  <2>3. Current \in Component
    <3>1. plan \in Seq(Component) /\ Len(tx.components) + 1 \in 1..Len(plan)
      BY <2>1, <2>2 DEF IInv, TypeOK, MoreRows
    <3> QED BY <3>1 DEF Current
  <2>4. /\ doc \in Doc /\ doc.owner = tx.owner
        /\ Len(doc.components) = Len(tx.components) + 1
        /\ \A k \in 1..Len(tx.components) : doc.components[k] = tx.components[k]
    BY <2>2, <2>3, AppendedRow
  <2> HIDE DEF doc
  <2>5. Extends(doc, tx)
    BY <2>2, <2>4 DEF Extends
  <2> QED
    BY <2>1, <2>2, <2>4, <2>5
<1>2. CASE Acknowledge
  <2> DEFINE doc == WithActive(tx)
  <2>1. pc = "ack" /\ journal' = doc /\ CanSave(doc)
    BY <1>2 DEF Acknowledge, SaveThen, WithActive, LastRow
  <2>2. tx \in Doc /\ tx # NoDoc /\ Len(tx.components) \in Nat /\ Len(tx.components) > 0
    BY <2>1, AtRow DEF IInv, IntentOnDisk, LastRow
  <2> QED
    BY <2>1, <2>2, ActiveRow DEF Extends
<1>3. CASE RecordCleanup
  BY <1>3, AtRow, ExtendsRefl DEF RecordCleanup, SaveThen
<1>4. CASE RecoverEnd
  <2>1. pc = "recover" /\ journal' = [tx EXCEPT !.recovered = NoFailures] /\ CanSave(journal')
    BY <1>4 DEF RecoverEnd, SaveThen
  <2>2. tx # NoDoc /\ tx \in Doc
    BY <2>1, AtRow
  <2>3. journal' \in Doc /\ journal'.owner = tx.owner /\ journal'.components = tx.components
    BY <2>1, <2>2 DEF Doc, NoFailures
  <2> QED
    BY <2>1, <2>2, <2>3, ExtendsRefl DEF Extends
<1>5. CASE Confirm
  BY <1>5, AtRow DEF Confirm, SaveThen, IInv, VerifiedOnDisk
<1> QED
  <2>1. CASE \E o \in Owner, s \in Scenarios : Begin(o, s)
    BY <2>1 DEF Begin
  <2>2. CASE Inject
    BY <1>1, <1>2, <2>2
    DEF Inject, InjectRefused, InjectStart, RowRefused, CommandApplied, CommandDetached,
        CommandRaised, InjectDone
  <2>3. CASE ObserveDone \/ Abandon \/ Restore \/ Crash
    BY <2>3 DEF ObserveDone, Abandon, Restore, Crash
  <2>4. CASE Recover
    BY <1>3, <1>4, <2>4 DEF Recover, SkipRow, CleanupPassed, CleanupFailed, CleanRow
  <2>5. CASE Verify
    BY <1>5, <2>5 DEF Verify, HealthPassed, HealthFailed
  <2>6. CASE \/ \E c \in Component, o \in Owner : LateEffect(c, o)
             \/ \E c \in Component : Expire(c)
    BY <2>6 DEF LateEffect, Expire
  <2> QED
    BY <2>1, <2>2, <2>3, <2>4, <2>5, <2>6 DEF Next, Caller

\* No caller overwrites or removes the journal of another, and the rows and
\* passed cleanups of a journal are never lost while it stands.
THEOREM JournalAdvances == Spec => JournalOnlyAdvances
<1> DEFINE Advances == journal # NoDoc /\ journal' # journal =>
             /\ tx # NoDoc /\ tx.owner = journal.owner
             /\ journal' # NoDoc =>
                  journal'.owner = journal.owner /\ Extends(journal', journal)
<1>1. ASSUME IInv, [Next]_vars PROVE [Advances]_vars
  <2> SUFFICES ASSUME Next, journal # NoDoc, journal' # journal PROVE Advances
    BY <1>1
  <2>1. CASE Unlink
    BY <1>1, <2>1, AtRow DEF Unlink, IInv, VerifiedOnDisk
  <2>2. CASE ~Unlink
    BY <1>1, <2>2, RowsAreKept, SaveAdvances
  <2> QED
    BY <2>1, <2>2
<1> QED
  BY <1>1, AlwaysIInv, PTL DEF Spec, JournalOnlyAdvances

\* Removing nothing, a step that changes the hazard of at most one component is
\* a gate's Fault, a Heal or a stutter; a Fault needs the block.
LEMMA LabIsGated ==
  ASSUME IInv, IInv', UNCHANGED journal, NEW d \in Component,
         \A c \in Component \ {d} : c \in Dirty' <=> c \in Dirty
  PROVE  Gate!Next
<1>1. Dirty \subseteq Component /\ Dirty' \subseteq Component
  BY DEF Dirty
<1>2. CASE d \in Dirty'
  <2>1. journal # NoDoc
    BY <1>2 DEF IInv, JournalCovers, Dirty
  <2>2. Dirty' = Dirty \cup {d}
    BY <1>1, <1>2
  <2> QED
    BY <2>1, <2>2 DEF Gate!Next, Gate!Fault
<1>3. CASE d \notin Dirty'
  <2>1. Dirty' = Dirty \ {d}
    BY <1>1, <1>3
  <2> QED
    BY <2>1 DEF Gate!Next, Gate!Heal
<1> QED
  BY <1>2, <1>3

\* A step that leaves the lab alone and keeps or makes the block.
LEMMA SaveIsGated ==
  ASSUME UNCHANGED <<fault, inflight, overtaken>>,
         journal' # NoDoc \/ UNCHANGED journal
  PROVE  [Gate!Next]_Gate!gate
<1>1. Dirty' = Dirty
  BY DEF Dirty, Hazard, Pending
<1> QED
  BY <1>1 DEF Gate!Next, Gate!Block, Gate!gate

\* A command, a cleanup, a late effect, an expiry or a death concerns one
\* component.
LEMMA StepIsGated ==
  ASSUME IInv, IInv', Next
  PROVE  [Gate!Next]_Gate!gate
<1> USE DEF Dirty, Hazard, Pending
<1>1. CASE Unlink
  <2>1. Dirty = {} /\ Dirty' = {} /\ journal' = NoDoc
    BY <1>1, UnlinkIsClean DEF Unlink, lab
  <2> QED
    BY <2>1 DEF Gate!Next, Gate!Unblock
<1>2. CASE pc = "command" /\ (CommandApplied \/ CommandDetached \/ CommandRaised \/ Crash)
  <2> DEFINE d == tx.components[LastRow].comp
  <2>1. d \in Component
    BY <1>2, CurrentIsCovered
  <2>2. /\ UNCHANGED <<journal, overtaken>>
        /\ fault' = fault \/ fault' = [fault EXCEPT ![d] = tx.owner]
        /\ inflight' = inflight \/ inflight' = inflight \cup {<<d, tx.owner>>}
    BY <1>2 DEF CommandApplied, CommandDetached, CommandRaised, Crash
  <2>3. fault \in [Component -> Owner \cup {NoOwner}]
    BY DEF IInv, TypeOK
  <2> HIDE DEF d
  <2>4. ASSUME NEW c \in Component \ {d}
        PROVE  c \in Dirty' <=> c \in Dirty
    <3>1. fault'[c] = fault[c]
      BY <2>2, <2>3
    <3>2. Pending(c)' <=> Pending(c)
      BY <2>2
    <3> QED
      BY <2>2, <3>1, <3>2
  <2> QED
    BY <2>1, <2>2, <2>4, LabIsGated
<1>3. CASE CleanupPassed \/ CleanupFailed
  <2> DEFINE d == tx.components[cursor].comp
  <2>1. pc = "recover" /\ cursor \in 1..Len(tx.components)
    BY <1>3, AtRow DEF CleanupPassed, CleanupFailed, CleanRow, IInv, CursorInv
  <2>2. d \in Component
    BY <2>1, AtRow DEF Row
  <2>3. /\ UNCHANGED <<journal, inflight>>
        /\ fault' = fault \/ fault' = [fault EXCEPT ![d] = NoOwner]
        /\ \/ overtaken' = overtaken \/ overtaken' = overtaken \cup {d}
           \/ overtaken' = overtaken \ {d}
    BY <1>3 DEF CleanupPassed, CleanupFailed, CleanRow
  <2>4. fault \in [Component -> Owner \cup {NoOwner}]
    BY DEF IInv, TypeOK
  <2> HIDE DEF d
  <2>5. \A c \in Component \ {d} : c \in Dirty' <=> c \in Dirty
    BY <2>3, <2>4
  <2> QED
    BY <2>2, <2>3, <2>5, LabIsGated
<1>4. ASSUME NEW d \in Component, NEW o \in Owner, LateEffect(d, o)
      PROVE  Gate!Next
  <2>1. /\ UNCHANGED <<journal, overtaken>> /\ inflight' = inflight \ {<<d, o>>}
        /\ fault' = fault \/ fault' = [fault EXCEPT ![d] = o]
    BY <1>4 DEF LateEffect
  <2>2. fault \in [Component -> Owner \cup {NoOwner}]
    BY DEF IInv, TypeOK
  <2>3. \A c \in Component \ {d} : c \in Dirty' <=> c \in Dirty
    BY <2>1, <2>2
  <2> QED
    BY <2>1, <2>3, LabIsGated
<1>5. ASSUME NEW d \in Component, Expire(d)
      PROVE  Gate!Next
  <2>1. /\ UNCHANGED <<journal, overtaken, inflight>>
        /\ fault' = [fault EXCEPT ![d] = NoOwner]
    BY <1>5 DEF Expire
  <2>2. fault \in [Component -> Owner \cup {NoOwner}]
    BY DEF IInv, TypeOK
  <2>3. \A c \in Component \ {d} : c \in Dirty' <=> c \in Dirty
    BY <2>1, <2>2
  <2> QED
    BY <2>1, <2>3, LabIsGated
<1>6. ASSUME UNCHANGED <<fault, inflight, overtaken>>, ~Unlink
      PROVE  [Gate!Next]_Gate!gate
  <2>1. journal' # NoDoc \/ UNCHANGED journal
    BY <1>6, RowsAreKept, NoDocAssumption
  <2> QED
    BY <1>6, <2>1, SaveIsGated
<1>7. \/ UNCHANGED <<fault, inflight, overtaken>>
      \/ pc = "command" /\ (CommandApplied \/ CommandDetached \/ CommandRaised \/ Crash)
      \/ CleanupPassed \/ CleanupFailed
      \/ \E d \in Component, o \in Owner : LateEffect(d, o)
      \/ \E d \in Component : Expire(d)
  <2>1. CASE \E o \in Owner, s \in Scenarios : Begin(o, s)
    BY <2>1 DEF Begin, lab
  <2>2. CASE Inject
    BY <2>2 DEF Inject, InjectRefused, InjectStart, RowRefused, AppendRow, CommandApplied,
      CommandDetached, CommandRaised, Acknowledge, InjectDone, lab
  <2>3. CASE ObserveDone \/ Abandon \/ Restore
    BY <2>3 DEF ObserveDone, Abandon, Restore, lab
  <2>4. CASE Recover
    BY <2>4 DEF Recover, SkipRow, RecordCleanup, RecoverEnd, lab
  <2>5. CASE Verify
    BY <2>5 DEF Verify, HealthPassed, HealthFailed, Confirm, Unlink, lab
  <2>6. CASE Crash
    BY <2>6 DEF Crash
  <2> QED
    BY <2>1, <2>2, <2>3, <2>4, <2>5, <2>6 DEF Next, Caller
<1> QED
  BY <1>1, <1>2, <1>3, <1>4, <1>5, <1>6, <1>7

\* The journalled transaction implements the gate: the lab carries a fault that
\* the gate answers for only while it is blocked, and is unblocked only clean.
THEOREM ImplementsGate == Spec => GateSpec
<1>1. Init => Gate!Init
  <2> SUFFICES ASSUME Init PROVE Gate!Init
    OBVIOUS
  <2>1. Dirty = {}
    BY DEF Init, Dirty, Hazard, Pending
  <2> QED
    BY <2>1 DEF Init, Gate!Init
<1>2. ASSUME IInv, IInv', [Next]_vars PROVE [Gate!Next]_Gate!gate
  <2>1. CASE UNCHANGED vars
    <3>1. UNCHANGED <<fault, inflight, overtaken>> /\ UNCHANGED journal
      BY <2>1 DEF vars
    <3> QED
      BY <3>1, SaveIsGated
  <2> QED
    BY <1>2, <2>1, StepIsGated
<1> QED
  BY <1>1, <1>2, AlwaysIInv, PTL DEF Spec, GateSpec, Gate!Spec

-----------------------------------------------------------------------------
(* Part 2: the control plane.                                              *)

-----------------------------------------------------------------------------
(* Facts about data.                                                        *)

\* A set of numbers that is not empty has a least element.
THEOREM LeastNumber ==
  ASSUME NEW T \in SUBSET Nat, T # {}
  PROVE  \E x \in T : \A y \in T : x <= y
  <1> DEFINE U == {0..n : n \in T}
             R == StrictSubsetOrdering(Nat)
  <1>1. U \subseteq FiniteSubsetsOf(Nat)
    <2> SUFFICES ASSUME NEW n \in T
                 PROVE  0..n \in FiniteSubsetsOf(Nat)
      OBVIOUS
    <2>1. IsFiniteSet(0..n) /\ 0..n \in SUBSET Nat
      BY FS_Interval
    <2> QED BY <2>1 DEF FiniteSubsetsOf
  <1>2. IsWellFoundedOn(R, FiniteSubsetsOf(Nat)) /\ U # {}
    BY FS_StrictSubsetOrderingWellFounded
  <1>3. \A x, y \in T : y < x => <<0..y, 0..x>> \in R
    <2> SUFFICES ASSUME NEW x \in T, NEW y \in T, y < x
                 PROVE  <<0..y, 0..x>> \in R
      OBVIOUS
    <2>1. x \in 0..x /\ x \notin 0..y
      OBVIOUS
    <2>2. 0..y \subseteq 0..x /\ 0..y # 0..x /\ 0..x \in SUBSET Nat
      BY <2>1
    <2> QED BY <2>2 DEF StrictSubsetOrdering
  <1> HIDE DEF R
  <1>4. \A V : V \subseteq FiniteSubsetsOf(Nat) /\ V # {} =>
                 \E x \in V : \A y \in V : ~(<<y, x>> \in R)
    BY <1>2, WFMin
  <1>5. PICK u \in U : \A v \in U : ~(<<v, u>> \in R)
    BY <1>1, <1>2, <1>4
  <1>6. PICK x \in T : u = 0..x
    BY <1>5
  <1>7. \A y \in T : ~(y < x)
    BY <1>3, <1>5, <1>6
  <1> QED BY <1>7

\* ... and a greatest one when it is bounded.
LEMMA GreatestNumber ==
  ASSUME NEW T \in SUBSET Nat, T # {}, NEW n \in Nat, \A x \in T : x <= n
  PROVE  \E x \in T : \A y \in T : y <= x
  <1> DEFINE D == {n - x : x \in T}
  <1>1. D \in SUBSET Nat /\ D # {}
    <2>1. \A x \in T : n - x \in Nat
      OBVIOUS
    <2> QED BY <2>1
  <1>2. PICK d \in D : \A e \in D : d <= e
    BY <1>1, LeastNumber
  <1>3. PICK x \in T : d = n - x
    BY <1>2
  <1>4. \A y \in T : n - x <= n - y
    BY <1>2, <1>3
  <1> QED BY <1>4

\* A set of numbers with zero and the successors of its elements is all of them.
THEOREM NumberInduction ==
  ASSUME NEW P \in SUBSET Nat, 0 \in P, \A n \in P : n + 1 \in P
  PROVE  P = Nat
  <1> SUFFICES ASSUME Nat \ P # {}
               PROVE  FALSE
    OBVIOUS
  <1>1. PICK x \in Nat \ P : \A y \in Nat \ P : x <= y
    BY LeastNumber
  <1>2. x # 0 /\ x - 1 \in Nat /\ ~(x <= x - 1)
    BY <1>1
  <1>3. x - 1 \in P
    BY <1>1, <1>2
  <1> QED BY <1>1, <1>2, <1>3

(* The folds of the community modules are recursive functions on the        *)
(* subsets of a set: from a set they take the element c[T], and combine it  *)
(* with the value of the rest.                                              *)
Iterates(S, c, g, base, f) ==
  f = [T \in SUBSET S |-> IF T = {} THEN base ELSE g[<<f[T \ {c[T]}], c[T]>>]]

\* Over a finite set there is such a function, so a fold is what it says.
THEOREM IterationExists ==
  ASSUME NEW S, IsFiniteSet(S), NEW A, NEW base \in A,
         NEW c, \A T \in SUBSET S : T # {} => c[T] \in T,
         NEW g \in [A \X S -> A]
  PROVE  \E f \in [SUBSET S -> A] : Iterates(S, c, g, base, f)
  <1> DEFINE Sized(n) == {T \in SUBSET S : Cardinality(T) <= n}
             Value(f, T) == IF T = {} THEN base ELSE g[<<f[T \ {c[T]}], c[T]>>]
             Good(n, f) == f \in [Sized(n) -> A] /\ \A T \in Sized(n) : f[T] = Value(f, T)
             Ok(n) == \E f : Good(n, f)
             P == {n \in Nat : Ok(n)}
  <1>1. \A T \in SUBSET S : IsFiniteSet(T) /\ Cardinality(T) \in Nat
    BY FS_Subset, FS_CardinalityType
  <1>2. ASSUME NEW T \in SUBSET S, T # {}
        PROVE  /\ c[T] \in T /\ T \ {c[T]} \in SUBSET S
               /\ Cardinality(T \ {c[T]}) = Cardinality(T) - 1
    <2>1. c[T] \in T
      BY <1>2
    <2>2. Cardinality(T \ {c[T]}) = IF c[T] \in T THEN Cardinality(T) - 1 ELSE Cardinality(T)
      BY <1>1, FS_RemoveElement
    <2> QED BY <2>1, <2>2
  <1>3. \A T \in SUBSET S : Cardinality(T) = 0 <=> T = {}
    BY <1>1, FS_EmptySet
  <1>4. ASSUME NEW n \in Nat, NEW f \in [Sized(n) -> A], NEW T \in Sized(n + 1)
        PROVE  Value(f, T) \in A
    <2>1. CASE T = {}
      BY <2>1
    <2>2. CASE T # {}
      <3>1. T \ {c[T]} \in Sized(n) /\ c[T] \in S
        BY <2>2, <1>1, <1>2
      <3>2. <<f[T \ {c[T]}], c[T]>> \in A \X S
        BY <3>1
      <3> QED BY <2>2, <3>2
    <2> QED BY <2>1, <2>2
  <1>5. Ok(0)
    <2> DEFINE h == [T \in Sized(0) |-> base]
    <2>1. \A T \in Sized(0) : T = {}
      BY <1>1, <1>3
    <2>2. Good(0, h)
      BY <2>1
    <2> QED BY <2>2
  <1>6. ASSUME NEW n \in P
        PROVE  Ok(n + 1)
    <2>1. PICK f : Good(n, f)
      OBVIOUS
    <2> DEFINE h == [T \in Sized(n + 1) |-> IF T \in Sized(n) THEN f[T] ELSE Value(f, T)]
    <2>2. h \in [Sized(n + 1) -> A]
      <3>1. \A T \in Sized(n + 1) : Value(f, T) \in A
        BY <1>4, <2>1
      <3> HIDE DEF Value, Sized
      <3> QED BY <3>1, <2>1
    <2>3. ASSUME NEW T \in Sized(n + 1)
          PROVE  h[T] = Value(h, T)
      <3>1. h[T] = Value(f, T)
        <4> HIDE DEF Value
        <4> QED BY <2>1
      <3>2. CASE T = {}
        BY <3>1, <3>2
      <3>3. CASE T # {}
        <4>1. T \ {c[T]} \in Sized(n) /\ T \ {c[T]} \in Sized(n + 1)
          BY <3>3, <1>1, <1>2
        <4>2. h[T \ {c[T]}] = f[T \ {c[T]}]
          BY <4>1
        <4> HIDE DEF h
        <4> QED BY <3>1, <3>3, <4>2
      <3> QED BY <3>2, <3>3
    <2> HIDE DEF h
    <2>4. Good(n + 1, h)
      BY <2>2, <2>3
    <2> QED BY <2>4
  <1>7. P = Nat
    <2> HIDE DEF Ok
    <2>1. 0 \in P /\ (\A n \in P : n + 1 \in P) /\ P \in SUBSET Nat
      BY <1>5, <1>6
    <2> HIDE DEF P
    <2> QED BY <2>1, NumberInduction
  <1>8. Cardinality(S) \in Nat /\ Sized(Cardinality(S)) = SUBSET S
    <2>1. \A T \in SUBSET S : Cardinality(T) <= Cardinality(S)
      BY FS_Subset
    <2> QED BY <2>1, FS_CardinalityType
  <1>9. PICK f : Good(Cardinality(S), f)
    <2>1. Ok(Cardinality(S))
      <3> HIDE DEF Ok, Sized
      <3> QED BY <1>7, <1>8
    <2> HIDE DEF Good
    <2> QED BY <2>1
  <1>10. f \in [SUBSET S -> A] /\ \A T \in SUBSET S : f[T] = Value(f, T)
    <2> HIDE DEF Sized, Value
    <2> QED BY <1>8, <1>9
  <1>11. Iterates(S, c, g, base, f)
    BY <1>10 DEF Iterates
  <1> QED BY <1>10, <1>11

\* The greatest place of a set of places.
LEMMA MaxOfPlaces ==
  ASSUME NEW n \in Nat, NEW T \in SUBSET (1..n), T # {}
  PROVE  Max(T) \in T /\ \A x \in T : x <= Max(T)
  <1>1. \E x \in T : \A y \in T : y <= x
    <2>1. T \in SUBSET Nat /\ \A x \in T : x <= n
      OBVIOUS
    <2> QED BY <2>1, GreatestNumber
  <1>2. \E x \in T : \A y \in T : x >= y
    BY <1>1
  <1> QED BY <1>2 DEF Max

\* The greatest number of 1..n is n, and 1..(n - 1) is what is left without it.
LEMMA MaxOfInterval ==
  ASSUME NEW n \in Nat \ {0}
  PROVE  /\ 1..n # {} /\ Max(1..n) = n /\ (1..n) \ {Max(1..n)} = 1..(n - 1)
  <1>1. n \in 1..n /\ 1..n \in SUBSET (1..n)
    OBVIOUS
  <1>2. Max(1..n) \in 1..n /\ n <= Max(1..n)
    BY <1>1, MaxOfPlaces
  <1>3. Max(1..n) = n
    BY <1>2
  <1> QED BY <1>1, <1>3

-----------------------------------------------------------------------------

LiveSteps  == {"read", "send", "map"}
BasicSteps == {"lease", "stop", "persist", "undo", "activate", "restarted"}

LogEvent == [kind : {"stage", "live", "error", "result", "torn"},
             of : Live \cup {NoRun}, good : BOOLEAN]

\* The part of a log that can be read.
TornIn(s)    == \E i \in DOMAIN s : s[i].kind = "torn"
VisibleIn(s) == IF TornIn(s) THEN SubSeq(s, 1, SelectInSeq(s, LAMBDA e : e.kind = "torn") - 1)
                ELSE s

\* A result that is read after the first k events of a log, of any run and of r.
ResultAfter(s, k) == \E i \in DOMAIN VisibleIn(s) : i > k /\ VisibleIn(s)[i].kind = "result"
ResultOf(s, r, k) == \E i \in DOMAIN VisibleIn(s) :
                       i > k /\ VisibleIn(s)[i].kind = "result" /\ VisibleIn(s)[i].of = r

\* A request of r waits in q or is worked on as j.
Busy(q, j, r) == r \in ToSet(q) \/ (j.of = r /\ j.at # "raised")

\* The handler in progress.
HandlerInv ==
  /\ ui.at \in {"idle", "down"} <=> ui.run = NoRun
  /\ ui.at \in LiveSteps => me \in Live /\ ~nextEvent[me].mapped
  /\ ui.at \in BasicSteps => me \in Basic
  /\ ui.at \in {"send", "map"} => ui.start <= Len(VisibleIn(events))
  /\ ui.at \in {"read", "send"} => lease = me /\ ~Busy(queue, job, me)
  /\ ui.at \in {"stop", "persist", "undo"} => lease = me
  /\ ui.at = "lease" => lease # me
  /\ ui.at \in {"activate", "restarted"} => basic = me
  /\ ui.at \in {"stop", "persist", "undo"} => basic = NoRun
  /\ ui.at \in {"lease", "stop", "restarted"} => container # me

\* A docker stop that outlived its client belongs to a run that no handler and no
\* basic_injection row names any more: it kept the lease, or was reported as failed.
LateInv ==
  \A r \in Basic : late[r] # "none" =>
    /\ ui.run # r /\ basic # r /\ status[r] # NoRow
    /\ lease = r \/ status[r] = "Failed"

\* A run has rows once it was created.
RowInv ==
  /\ \A r \in Live : nextEvent[r].mapped => status[r] # NoRow /\ nextEvent[r].next <= Len(VisibleIn(events))
  /\ lease # NoRun => status[lease] # NoRow
  /\ ui.run # NoRun => status[ui.run] # NoRow
  /\ basic # NoRun => status[basic] # NoRow

\* One request is on its way at a time.
QueueInv ==
  /\ Len(queue) <= 1 /\ (queue # <<>> => job.at \in {"none", "raised"})
  /\ job.of = NoRun <=> job.at = "none"

\* A run in progress finds no result in the part of the log it reads.
LogInv ==
  /\ ui.at = "send" \/ (ui.at = "map" /\ Busy(queue, job, me)) => ~ResultAfter(events, ui.start)
  /\ \A r \in Live : nextEvent[r].mapped /\ Busy(queue, job, r) => ~ResultAfter(events, nextEvent[r].next)

\* Between its request and its row, the result of a run can be found as well.
KeeperInv ==
  ui.at = "map" /\ lease = me =>
    Busy(queue, job, me) \/ ResultOf(events, me, ui.start) \/ me \in lost \/ TornIn(events)

\* RunHoldsLease and LeaseHasKeeper in these words.
LeaseInv == \A r \in Live : Busy(queue, job, r) => lease = r
KeptInv ==
  \A r \in Runs : lease = r =>
    \/ ui.run = r \/ basic = r \/ r \in lost \/ TornIn(events)
    \/ r \in Live /\ nextEvent[r].mapped
       /\ (Busy(queue, job, r) \/ ResultOf(events, r, nextEvent[r].next))

Core == /\ HandlerInv /\ RowInv /\ QueueInv /\ LogInv /\ KeeperInv
        /\ LeaseInv /\ LateInv /\ StoppedIsLeased /\ KeptInv
PlaneIInv == PlaneTypeOK /\ Core

-----------------------------------------------------------------------------
(* The log.                                                                *)

\* Torn and Visible, of the log as it is and as it will be.
LEMMA VisibleReads ==
  /\ Visible = VisibleIn(events) /\ Visible' = VisibleIn(events')
  /\ Torn = TornIn(events) /\ Torn' = TornIn(events')
  BY DEF Visible, VisibleIn, Torn, TornIn, SelectInSeq

\* The readable part of a log is the log up to its first torn line.
LEMMA VisiblePart ==
  ASSUME NEW s \in Seq(LogEvent)
  PROVE  /\ VisibleIn(s) \in Seq(LogEvent)
         /\ Len(VisibleIn(s)) <= Len(s)
         /\ \A i \in DOMAIN VisibleIn(s) : VisibleIn(s)[i] = s[i] /\ s[i].kind # "torn"
         /\ ~TornIn(s) => VisibleIn(s) = s
         /\ TornIn(s) => Len(VisibleIn(s)) + 1 \in DOMAIN s /\ s[Len(VisibleIn(s)) + 1].kind = "torn"
  <1>1. Len(s) \in Nat /\ DOMAIN s = 1..Len(s)
    OBVIOUS
  <1>2. CASE ~TornIn(s)
    <2>1. VisibleIn(s) = s
      BY <1>2 DEF VisibleIn
    <2> QED BY <1>1, <1>2, <2>1 DEF TornIn
  <1>3. CASE TornIn(s)
    <2> DEFINE I == {i \in 1..Len(s) : s[i].kind = "torn"}
               k == Min(I)
    <2>1. I \in SUBSET Nat /\ I # {}
      BY <1>1, <1>3 DEF TornIn
    <2>2. VisibleIn(s) = SubSeq(s, 1, k - 1)
      BY <1>3, <2>1 DEF VisibleIn, SelectInSeq
    <2>3. k \in I /\ \A i \in I : k <= i
      <3>1. \E x \in I : \A y \in I : x <= y
        <4> HIDE DEF I
        <4> QED BY <2>1, LeastNumber
      <3> HIDE DEF I
      <3> QED BY <3>1 DEF Min
    <2> HIDE DEF k
    <2>4. k \in 1..Len(s) /\ s[k].kind = "torn" /\ \A i \in 1..(k - 1) : s[i].kind # "torn"
      BY <1>1, <2>3
    <2>5. /\ VisibleIn(s) \in Seq(LogEvent) /\ Len(VisibleIn(s)) = k - 1
          /\ \A i \in 1..(k - 1) : VisibleIn(s)[i] = s[i]
      BY <1>1, <2>2, <2>4, SubSeqProperties
    <2> QED BY <1>1, <1>3, <2>4, <2>5
  <1> QED BY <1>2, <1>3

\* A line more: it can be read unless a torn one comes before it or it is torn.
LEMMA VisibleAppend ==
  ASSUME NEW s \in Seq(LogEvent), NEW e \in LogEvent
  PROVE  /\ Append(s, e) \in Seq(LogEvent)
         /\ TornIn(Append(s, e)) <=> TornIn(s) \/ e.kind = "torn"
         /\ TornIn(s) \/ e.kind = "torn" => VisibleIn(Append(s, e)) = VisibleIn(s)
         /\ ~TornIn(s) /\ e.kind # "torn" => VisibleIn(Append(s, e)) = Append(s, e)
  <1> DEFINE t == Append(s, e)
  <1>1. /\ Len(s) \in Nat /\ DOMAIN s = 1..Len(s)
        /\ t \in Seq(LogEvent) /\ Len(t) = Len(s) + 1 /\ DOMAIN t = 1..(Len(s) + 1)
        /\ t[Len(s) + 1] = e /\ \A i \in 1..Len(s) : t[i] = s[i]
    OBVIOUS
  <1> HIDE DEF t
  <1>2. TornIn(t) <=> TornIn(s) \/ e.kind = "torn"
    <2>1. DOMAIN t = DOMAIN s \cup {Len(s) + 1}
      BY <1>1
    <2> QED BY <1>1, <2>1 DEF TornIn
  <1>3. ~TornIn(s) /\ e.kind # "torn" => VisibleIn(t) = t
    BY <1>2 DEF VisibleIn
  <1>4. ASSUME TornIn(s) \/ e.kind = "torn"
        PROVE  VisibleIn(t) = VisibleIn(s)
    <2> DEFINE u == VisibleIn(s)
               v == VisibleIn(t)
    <2>1. /\ u \in Seq(LogEvent) /\ Len(u) \in Nat /\ DOMAIN u = 1..Len(u) /\ Len(u) <= Len(s)
          /\ \A i \in DOMAIN u : u[i] = s[i] /\ s[i].kind # "torn"
          /\ ~TornIn(s) => u = s
          /\ TornIn(s) => Len(u) + 1 \in DOMAIN s /\ s[Len(u) + 1].kind = "torn"
      BY VisiblePart
    <2>2. /\ v \in Seq(LogEvent) /\ Len(v) \in Nat /\ DOMAIN v = 1..Len(v) /\ Len(v) <= Len(t)
          /\ \A i \in DOMAIN v : v[i] = t[i] /\ t[i].kind # "torn"
          /\ Len(v) + 1 \in DOMAIN t /\ t[Len(v) + 1].kind = "torn"
      BY <1>1, <1>2, <1>4, VisiblePart
    <2> HIDE DEF u, v
    <2>3. Len(u) + 1 \in DOMAIN t /\ t[Len(u) + 1].kind = "torn"
      BY <1>1, <1>4, <2>1
    <2>4. Len(u) = Len(v)
      <3>1. ~(Len(u) < Len(v))
        BY <2>1, <2>2, <2>3
      <3>2. ~(Len(v) < Len(u))
        <4>1. Len(v) < Len(u) => Len(v) + 1 \in DOMAIN u /\ Len(v) + 1 \in 1..Len(s)
          BY <1>1, <2>1, <2>2
        <4>2. Len(v) < Len(u) => t[Len(v) + 1].kind # "torn"
          BY <4>1, <1>1, <2>1
        <4> QED BY <4>2, <2>2
      <3>3. Len(u) \in Nat /\ Len(v) \in Nat
        BY <2>1, <2>2
      <3> QED BY <3>1, <3>2, <3>3
    <2>5. \A i \in 1..Len(u) : u[i] = v[i]
      BY <1>1, <2>1, <2>2, <2>4
    <2>6. u = v
      BY <2>1, <2>2, <2>4, <2>5, SeqEqual
    <2> QED BY <2>6 DEF u, v
  <1> QED BY <1>1, <1>2, <1>3, <1>4 DEF t

\* What a line more does to the results that can be read.
LEMMA ResultAppend ==
  ASSUME NEW s \in Seq(LogEvent), NEW e \in LogEvent, NEW k \in Nat
  PROVE  /\ Len(VisibleIn(s)) <= Len(VisibleIn(Append(s, e)))
         /\ ResultAfter(Append(s, e), k) => ResultAfter(s, k) \/ e.kind = "result"
         /\ \A r : ResultOf(s, r, k) => ResultOf(Append(s, e), r, k)
         /\ e.kind = "result" /\ k <= Len(VisibleIn(s)) =>
              ResultOf(Append(s, e), e.of, k) \/ TornIn(Append(s, e))
  <1> DEFINE t == Append(s, e)
             u == VisibleIn(s)
             v == VisibleIn(t)
  <1>1. /\ Len(s) \in Nat /\ DOMAIN s = 1..Len(s)
        /\ t \in Seq(LogEvent) /\ Len(t) = Len(s) + 1 /\ DOMAIN t = 1..(Len(s) + 1)
        /\ t[Len(s) + 1] = e /\ \A i \in 1..Len(s) : t[i] = s[i]
    OBVIOUS
  <1>2. u \in Seq(LogEvent) /\ Len(u) \in Nat /\ DOMAIN u = 1..Len(u)
    BY VisiblePart
  <1>3. (v = u /\ TornIn(t)) \/ (v = t /\ u = s)
    <2>1. CASE TornIn(s) \/ e.kind = "torn"
      BY <2>1, VisibleAppend
    <2>2. CASE ~TornIn(s) /\ e.kind # "torn"
      BY <2>2, VisibleAppend, VisiblePart
    <2> QED BY <2>1, <2>2
  <1> HIDE DEF t, u, v
  <1>4. CASE v = u /\ TornIn(t)
    BY <1>2, <1>4 DEF ResultAfter, ResultOf, t, u, v
  <1>5. CASE v = t /\ u = s
    <2>1. Len(u) <= Len(v)
      BY <1>1, <1>5
    <2>2. ASSUME NEW i \in DOMAIN v, i > k, v[i].kind = "result"
          PROVE  (\E j \in DOMAIN u : j > k /\ u[j].kind = "result") \/ e.kind = "result"
      BY <1>1, <1>5, <2>2
    <2>3. ASSUME NEW r, NEW i \in DOMAIN u, i > k, u[i].kind = "result", u[i].of = r
          PROVE  \E j \in DOMAIN v : j > k /\ v[j].kind = "result" /\ v[j].of = r
      BY <1>1, <1>5, <2>3
    <2>4. e.kind = "result" /\ k <= Len(u) =>
            \E j \in DOMAIN v : j > k /\ v[j].kind = "result" /\ v[j].of = e.of
      <3>1. Len(s) + 1 \in DOMAIN v /\ v[Len(s) + 1] = e
        BY <1>1, <1>5
      <3> QED BY <1>1, <1>5, <3>1
    <2> QED BY <2>1, <2>2, <2>3, <2>4 DEF ResultAfter, ResultOf, t, u, v
  <1> QED BY <1>3, <1>4, <1>5

-----------------------------------------------------------------------------
(* What sync_controller_events does to a run's rows.                       *)

Rows == [status  : {"Starting", "Active", "Failed", "Resolved", "RecoveryFailed"},
         inst    : {NoRow, "queued", "active", "completed", "reverted"},
         attempt : [status : {NoRow, "queued", "running", "completed", "failed", "not_requested"},
                    phase : {NoRow, "capturing", "investigating", "complete"}],
         leased  : BOOLEAN]

AppliedAll(v, s) == FoldLeft(Applied, v, s)

\* One event keeps the rows' types, and only a result gives the lease back.
LEMMA AppliedOnce ==
  ASSUME NEW v \in Rows, NEW e \in LogEvent
  PROVE  /\ Applied(v, e) \in Rows
         /\ e.kind \in {"stage", "live", "error"} => Applied(v, e).leased = v.leased
         /\ e.kind \in {"result", "torn"} => Applied(v, e).leased = FALSE
  <1>1. CASE e.kind = "stage"
    BY <1>1 DEF Applied, Rows
  <1>2. CASE e.kind = "live"
    BY <1>2 DEF Applied, Rows
  <1>3. CASE e.kind = "error"
    BY <1>3 DEF Applied, Rows
  <1>4. CASE e.kind \in {"result", "torn"}
    BY <1>4 DEF Applied, Rows
  <1> QED BY <1>1, <1>2, <1>3, <1>4 DEF LogEvent

\* The events are applied one after the other.
LEMMA AppliedSteps ==
  ASSUME NEW v \in Rows, NEW s \in Seq(LogEvent)
  PROVE  \E h \in [0..Len(s) -> Rows] :
           /\ h[0] = v /\ AppliedAll(v, s) = h[Len(s)]
           /\ \A i \in 1..Len(s) : h[i] = Applied(h[i - 1], s[i])
  <1> DEFINE D == DOMAIN s
             iter == CHOOSE f : f = [T \in SUBSET D |->
                       IF T = {} THEN v ELSE Applied(f[T \ {Max(T)}], s[Max(T)])]
             c == [T \in SUBSET D |-> Max(T)]
             g == [a \in Rows \X D |-> Applied(a[1], s[a[2]])]
  <1>1. /\ Len(s) \in Nat /\ D = 1..Len(s) /\ IsFiniteSet(D)
        /\ \A i \in D : s[i] \in LogEvent
    BY FS_Interval
  <1>2. \A T \in SUBSET D : T # {} => Max(T) \in T
    BY <1>1, MaxOfPlaces
  <1>3. AppliedAll(v, s) = iter[D]
    BY DEF AppliedAll, FoldLeft, MapThenFoldSet
  <1>4. PICK f \in [SUBSET D -> Rows] : Iterates(D, c, g, v, f)
    <2>1. g \in [Rows \X D -> Rows]
      <3>1. \A a \in Rows \X D : Applied(a[1], s[a[2]]) \in Rows
        BY <1>1, AppliedOnce
      <3> HIDE DEF D
      <3> QED BY <3>1
    <2>2. \A T \in SUBSET D : T # {} => c[T] \in T
      BY <1>2
    <2> HIDE DEF c, g, D
    <2> QED BY <1>1, <2>1, <2>2, IterationExists
  <1>5. f = [T \in SUBSET D |-> IF T = {} THEN v ELSE Applied(f[T \ {Max(T)}], s[Max(T)])]
    <2>1. ASSUME NEW T \in SUBSET D, T # {}
          PROVE  g[<<f[T \ {c[T]}], c[T]>>] = Applied(f[T \ {Max(T)}], s[Max(T)])
      <3>1. c[T] = Max(T) /\ <<f[T \ {Max(T)}], Max(T)>> \in Rows \X D
        BY <1>2, <2>1
      <3> HIDE DEF c, D
      <3> QED BY <3>1
    <2> HIDE DEF c, g, D
    <2> QED BY <1>4, <2>1 DEF Iterates
  <1>6. iter = [T \in SUBSET D |-> IF T = {} THEN v ELSE Applied(iter[T \ {Max(T)}], s[Max(T)])]
    <2> HIDE DEF D
    <2> QED BY <1>5
  <1> HIDE DEF iter
  <1>7. iter[{}] = v
    BY <1>6
  <1>8. ASSUME NEW n \in 1..Len(s)
        PROVE  iter[1..n] = Applied(iter[1..(n - 1)], s[n])
    <2>1. 1..n \in SUBSET D /\ n \in Nat \ {0}
      BY <1>1
    <2>2. 1..n # {} /\ Max(1..n) = n /\ (1..n) \ {Max(1..n)} = 1..(n - 1)
      BY <2>1, MaxOfInterval
    <2> HIDE DEF D
    <2> QED BY <1>6, <2>1, <2>2
  <1> DEFINE h == [n \in 0..Len(s) |-> iter[1..n]]
             P == {n \in Nat : n <= Len(s) => iter[1..n] \in Rows}
  <1>9. 0 \in P
    BY <1>7
  <1>10. ASSUME NEW n \in P PROVE n + 1 \in P
    <2> SUFFICES ASSUME n + 1 <= Len(s)
                 PROVE  iter[1..(n + 1)] \in Rows
      OBVIOUS
    <2>1. n + 1 \in 1..Len(s) /\ n + 1 - 1 = n /\ iter[1..n] \in Rows /\ s[n + 1] \in LogEvent
      BY <1>1
    <2>2. iter[1..(n + 1)] = Applied(iter[1..n], s[n + 1])
      BY <1>8, <2>1
    <2>3. Applied(iter[1..n], s[n + 1]) \in Rows
      BY <2>1, AppliedOnce
    <2> QED BY <2>2, <2>3
  <1>11. P = Nat
    <2>1. P \in SUBSET Nat
      OBVIOUS
    <2> HIDE DEF P
    <2> QED BY <1>9, <1>10, <2>1, NumberInduction
  <1>12. h \in [0..Len(s) -> Rows] /\ h[0] = v /\ AppliedAll(v, s) = h[Len(s)]
    BY <1>1, <1>3, <1>7, <1>11
  <1>13. \A i \in 1..Len(s) : h[i] = Applied(h[i - 1], s[i])
    BY <1>1, <1>8
  <1> HIDE DEF h
  <1> QED BY <1>12, <1>13

\* The lease is given back when, and only when, there is a result among them.
LEMMA AppliedFacts ==
  ASSUME NEW v \in Rows, NEW s \in Seq(LogEvent), \A i \in DOMAIN s : s[i].kind # "torn"
  PROVE  /\ AppliedAll(v, s) \in Rows
         /\ AppliedAll(v, s).leased <=>
              v.leased /\ \A i \in DOMAIN s : s[i].kind # "result"
  <1>1. PICK h \in [0..Len(s) -> Rows] :
           /\ h[0] = v /\ AppliedAll(v, s) = h[Len(s)]
           /\ \A i \in 1..Len(s) : h[i] = Applied(h[i - 1], s[i])
    BY AppliedSteps
  <1>2. /\ Len(s) \in Nat /\ DOMAIN s = 1..Len(s)
        /\ \A i \in DOMAIN s : s[i] \in LogEvent
    OBVIOUS
  <1> DEFINE Clean(n) == \A i \in 1..n : s[i].kind # "result"
             P == {n \in Nat : n <= Len(s) => (h[n].leased <=> v.leased /\ Clean(n))}
  <1>3. 0 \in P
    BY <1>1
  <1>4. ASSUME NEW n \in P PROVE n + 1 \in P
    <2> SUFFICES ASSUME n + 1 <= Len(s)
                 PROVE  h[n + 1].leased <=> v.leased /\ Clean(n + 1)
      OBVIOUS
    <2>1. /\ n + 1 \in 1..Len(s) /\ n + 1 - 1 = n /\ n \in 0..Len(s)
          /\ 1..(n + 1) = (1..n) \cup {n + 1} /\ n <= Len(s)
      BY <1>2
    <2>2. h[n + 1] = Applied(h[n], s[n + 1]) /\ h[n] \in Rows /\ s[n + 1] \in LogEvent
      BY <1>1, <1>2, <2>1
    <2>3. h[n].leased \in BOOLEAN /\ v.leased \in BOOLEAN
      BY <2>2 DEF Rows
    <2>4. h[n].leased <=> v.leased /\ Clean(n)
      BY <2>1
    <2>5. Clean(n + 1) <=> Clean(n) /\ s[n + 1].kind # "result"
      BY <2>1
    <2> HIDE DEF Clean
    <2>6. CASE s[n + 1].kind = "result"
      <3>1. Applied(h[n], s[n + 1]).leased = FALSE
        BY <2>2, <2>6, AppliedOnce
      <3>2. h[n + 1].leased = FALSE
        BY <2>2, <3>1
      <3> QED BY <2>5, <2>6, <3>2
    <2>7. CASE s[n + 1].kind # "result"
      <3>1. s[n + 1].kind \in {"stage", "live", "error"}
        BY <1>2, <2>1, <2>2, <2>7 DEF LogEvent
      <3>2. h[n + 1].leased = h[n].leased
        <4>1. Applied(h[n], s[n + 1]).leased = h[n].leased
          BY <2>2, <3>1, AppliedOnce
        <4> QED BY <2>2, <4>1
      <3> QED BY <2>4, <2>5, <2>7, <3>2
    <2> QED BY <2>6, <2>7
  <1>5. P = Nat
    <2>1. P \in SUBSET Nat
      OBVIOUS
    <2> HIDE DEF P
    <2> QED BY <1>3, <1>4, <2>1, NumberInduction
  <1>6. h[Len(s)].leased <=> v.leased /\ Clean(Len(s))
    BY <1>2, <1>5
  <1>7. h[Len(s)] \in Rows
    BY <1>1, <1>2
  <1> QED BY <1>1, <1>2, <1>6, <1>7

-----------------------------------------------------------------------------
(* One step after the other.                                               *)

\* What the invariant says in the words of the properties.
LEMMA InvariantReads ==
  ASSUME PlaneIInv
  PROVE  LabIsLeased /\ LeaseHasKeeper
  <1>1. /\ \A r : InProgress(r) <=> Busy(queue, job, r)
        /\ \A r : Unseen(r) <=> ResultOf(events, r, nextEvent[r].next)
        /\ Torn <=> TornIn(events)
    BY VisibleReads DEF InProgress, Busy, Unseen, ResultOf
  <1>2. RunHoldsLease
    BY <1>1 DEF PlaneIInv, Core, LeaseInv, RunHoldsLease
  <1>3. LeaseHasKeeper
    BY <1>1 DEF PlaneIInv, Core, KeptInv, LeaseHasKeeper, Kept
  <1> QED BY <1>2, <1>3 DEF PlaneIInv, Core, LabIsLeased

\* What the type invariant says of the log.
LEMMA LogTypes ==
  ASSUME PlaneTypeOK
  PROVE  /\ events \in Seq(LogEvent) /\ Len(events) \in Nat
         /\ VisibleIn(events) \in Seq(LogEvent) /\ Len(VisibleIn(events)) \in Nat
         /\ Len(VisibleIn(events)) <= Len(events)
         /\ Visible = VisibleIn(events) /\ NoRow = "none"
         /\ ~ResultAfter(events, Len(VisibleIn(events)))
  <1>1. events \in Seq(LogEvent)
    BY DEF PlaneTypeOK, LogEvent
  <1>2. VisibleIn(events) \in Seq(LogEvent) /\ Len(VisibleIn(events)) <= Len(events)
    BY <1>1, VisiblePart
  <1>3. ~ResultAfter(events, Len(VisibleIn(events)))
    BY <1>2 DEF ResultAfter
  <1> QED BY <1>1, <1>2, <1>3, VisibleReads DEF NoRow

\* The steps of the plane that neither send a request nor read the log, and those
\* of the lab and its recovery command.
QuietStep ==
  \/ \E r \in Live : CreateLive(r)
  \/ \E r \in Basic : CreateBasic(r) \/ StopLands(r)
  \/ ReadStart \/ SendFailed \/ MapRequest \/ Acquire \/ AcquireRefused \/ StopContainer
  \/ StopFailed \/ Persist \/ PersistFailed \/ Undo \/ HandlerRaises \/ Activate
  \/ Restart \/ RestartFailed \/ RecordRestart \/ PlaneDies \/ RecoverLab

\* They keep the invariant.
LEMMA QuietKeeps ==
  ASSUME PlaneIInv, QuietStep
  PROVE  Core'
  <1>1. /\ queue' = queue /\ job' = job /\ events' = events
        /\ Len(VisibleIn(events)) \in Nat /\ NoRow = "none"
        /\ Visible = VisibleIn(events) /\ ~ResultAfter(events, Len(VisibleIn(events)))
    BY LogTypes DEF PlaneIInv, QuietStep, CreateLive, CreateBasic, ReadStart, SendFailed, MapRequest,
       Acquire, AcquireRefused, StopContainer, StopFailed, Persist, PersistFailed,
       Undo, HandlerRaises, Activate, Restart, RestartFailed, RecordRestart, PlaneDies, RecoverLab,
       StopLands, MayComeLate, ctl
  <1> USE <1>1, ControlPlaneAssumption DEF PlaneIInv, Core, PlaneTypeOK, HandlerInv, RowInv, QueueInv,
  LogInv, KeeperInv,
          LeaseInv, LateInv, StoppedIsLeased, KeptInv, LiveSteps, BasicSteps, Runs,
          plane, db, ctl, docker, ghost, Enter, At, Step, Return, me, Idle, ReleaseOf, Refused, Unleased
  <1>2. ASSUME NEW r \in Live, CreateLive(r)
        PROVE  Core'
    BY <1>2 DEF CreateLive
  <1>3. ASSUME NEW r \in Basic, CreateBasic(r)
        PROVE  Core'
    BY <1>3 DEF CreateBasic
  <1>4. CASE ReadStart
    BY <1>4 DEF ReadStart
  <1>5. CASE SendFailed
    BY <1>5 DEF SendFailed
  <1>6. CASE MapRequest
    BY <1>6 DEF MapRequest
  <1>7. CASE Acquire
    BY <1>7 DEF Acquire
  <1>8. CASE AcquireRefused
    BY <1>8 DEF AcquireRefused
  <1>9. CASE StopContainer
    BY <1>9 DEF StopContainer
  <1>10. CASE StopFailed
    BY <1>10 DEF StopFailed, MayComeLate
  <1>11. CASE Persist
    BY <1>11 DEF Persist
  <1>12. CASE PersistFailed
    BY <1>12 DEF PersistFailed
  <1>13. CASE Undo
    BY <1>13 DEF Undo
  <1>14. CASE HandlerRaises
    BY <1>14 DEF HandlerRaises
  <1>15. CASE Activate
    BY <1>15 DEF Activate
  <1>16. CASE Restart
    BY <1>16 DEF Restart
  <1>17. CASE RestartFailed
    BY <1>17 DEF RestartFailed
  <1>18. CASE RecordRestart
    BY <1>18 DEF RecordRestart
  <1>19. CASE PlaneDies
    BY <1>19 DEF PlaneDies, MayComeLate
  <1>20. CASE RecoverLab
    BY <1>20 DEF RecoverLab
  <1>21. ASSUME NEW r \in Basic, StopLands(r)
         PROVE  Core'
    BY <1>21 DEF StopLands
  <1> HIDE DEF PlaneIInv, Core, PlaneTypeOK
  <1> QED BY <1>2, <1>3, <1>4, <1>5, <1>6, <1>7, <1>8, <1>9, <1>10, <1>11, <1>12, <1>13, <1>14,
  <1>15, <1>16, <1>17, <1>18, <1>19, <1>20, <1>21 DEF QuietStep

\* A line more at the end of the log.
Grows ==
  /\ events' \in Seq(LogEvent) /\ Len(events') \in Nat /\ Len(events) <= Len(events')
  /\ Len(VisibleIn(events')) \in Nat /\ Len(VisibleIn(events)) <= Len(VisibleIn(events'))
  /\ TornIn(events) => TornIn(events')
  /\ \A r : \A k \in Nat : ResultOf(events, r, k) => ResultOf(events', r, k)

\* A line more: the log grows, and a result is one that can be found, or the log is torn.
LEMMA LogGrows ==
  ASSUME PlaneTypeOK, NEW e \in LogEvent, events' = Append(events, e)
  PROVE  /\ Grows
         /\ \A k \in Nat : ResultAfter(events', k) => ResultAfter(events, k) \/ e.kind = "result"
         /\ e.kind = "result" => \A k \in Nat : k <= Len(VisibleIn(events)) =>
                                   ResultOf(events', e.of, k) \/ TornIn(events')
  <1>1. events \in Seq(LogEvent) /\ events' \in Seq(LogEvent) /\ Len(events') = Len(events) + 1
        /\ Len(events) \in Nat
    BY LogTypes
  <1>2. VisibleIn(events') \in Seq(LogEvent)
    BY <1>1, VisiblePart
  <1>3. TornIn(events) => TornIn(events')
    BY <1>1, VisibleAppend
  <1>4. \A k \in Nat :
          /\ Len(VisibleIn(events)) <= Len(VisibleIn(events'))
          /\ ResultAfter(events', k) => ResultAfter(events, k) \/ e.kind = "result"
          /\ \A r : ResultOf(events, r, k) => ResultOf(events', r, k)
          /\ e.kind = "result" /\ k <= Len(VisibleIn(events)) =>
               ResultOf(events', e.of, k) \/ TornIn(events')
    BY <1>1, ResultAppend
  <1>5. Len(VisibleIn(events)) <= Len(VisibleIn(events'))
    BY <1>4
  <1>6. \A r : \A k \in Nat : ResultOf(events, r, k) => ResultOf(events', r, k)
    BY <1>4
  <1>7. Grows
    BY <1>1, <1>2, <1>3, <1>5, <1>6 DEF Grows
  <1> QED BY <1>4, <1>7

\* A log that stays the same grows as well.
LEMMA LogStays ==
  ASSUME PlaneTypeOK, events' = events
  PROVE  Grows
  BY LogTypes DEF Grows

\* The start of the controller writes at most a stage line.
LEMMA LaunchGrows ==
  ASSUME PlaneTypeOK, Launch
  PROVE  Grows /\ \A k \in Nat : ResultAfter(events', k) => ResultAfter(events, k)
  <1>1. CASE events' = events
    BY <1>1, LogStays
  <1>2. CASE events' = Append(events, Event("stage", NoRun, TRUE))
    <2>1. Event("stage", NoRun, TRUE) \in LogEvent /\ Event("stage", NoRun, TRUE).kind = "stage"
      BY DEF Event, LogEvent
    <2> QED BY <1>2, <2>1, LogGrows
  <1> QED BY <1>1, <1>2 DEF Launch

\* What the plane's invariants need of a step that leaves its rows alone.
PlaneStays == UNCHANGED <<ui, db, docker>>

\* What the plane's invariants need of a step that leaves its rows alone.
LEMMA ControllerFrame ==
  ASSUME PlaneIInv, Grows, QueueInv', PlaneStays, lost \subseteq lost',
         \A r \in Live : Busy(queue', job', r) => Busy(queue, job, r),
         \A r \in Live : Busy(queue, job, r) =>
            Busy(queue', job', r) \/ r \in lost' \/ TornIn(events')
              \/ \A k \in Nat : k <= Len(VisibleIn(events)) => ResultOf(events', r,
              k) \/ TornIn(events'),
         \A r \in Live : \A k \in Nat : ResultAfter(events', k) =>
            \/ ResultAfter(events, k)
            \/ (\E l \in Live : Busy(queue, job, l)) /\ ~Busy(queue', job', r)
  PROVE  Core'
  <1>1. /\ ui' = ui /\ lease' = lease /\ basic' = basic /\ status' = status /\ nextEvent' = nextEvent
        /\ container' = container /\ late' = late
        /\ Len(VisibleIn(events)) \in Nat
        /\ ui.start \in Nat /\ \A r \in Live : nextEvent[r].next \in Nat
        /\ Len(VisibleIn(events')) \in Nat /\ Len(VisibleIn(events)) <= Len(VisibleIn(events'))
    BY LogTypes DEF PlaneIInv, PlaneTypeOK, PlaneStays, db, docker, Grows
  <1> USE ControlPlaneAssumption DEF PlaneIInv, Core, LiveSteps, BasicSteps, Runs, me
  <1>2. HandlerInv'
    BY <1>1 DEF HandlerInv
  <1>3. RowInv'
    BY <1>1 DEF RowInv
  <1>4. LogInv'
    <2>1. ASSUME ui.at = "send" \/ (ui.at = "map" /\ Busy(queue', job', me))
          PROVE  ~ResultAfter(events', ui.start)
      <3>1. ~ResultAfter(events, ui.start) /\ me \in Live
        BY <2>1 DEF LogInv, HandlerInv
      <3>2. ui.at = "send" => \A l \in Live : ~Busy(queue, job, l)
        BY DEF LeaseInv, HandlerInv
      <3> QED BY <1>1, <2>1, <3>1, <3>2
    <2>2. ASSUME NEW r \in Live, nextEvent[r].mapped, Busy(queue', job', r)
          PROVE  ~ResultAfter(events', nextEvent[r].next)
      BY <1>1, <2>2 DEF LogInv
    <2> QED BY <1>1, <2>1, <2>2 DEF LogInv
  <1>5. KeeperInv'
    <2> SUFFICES ASSUME ui.at = "map", lease = me
                 PROVE  Busy(queue', job', me) \/ ResultOf(events', me, ui.start)
                          \/ me \in lost' \/ TornIn(events')
      BY <1>1 DEF KeeperInv
    <2>1. me \in Live /\ ui.start <= Len(VisibleIn(events))
      BY DEF HandlerInv
    <2>2. Busy(queue, job, me) \/ ResultOf(events, me, ui.start) \/ me \in lost \/ TornIn(events)
      BY DEF KeeperInv
    <2>3. CASE Busy(queue, job, me)
      BY <1>1, <2>1, <2>3
    <2> QED BY <1>1, <2>1, <2>2, <2>3 DEF Grows
  <1>6. LeaseInv'
    BY <1>1 DEF LeaseInv
  <1>7. LateInv' /\ StoppedIsLeased'
    BY <1>1 DEF LateInv, StoppedIsLeased
  <1>8. KeptInv'
    <2> SUFFICES ASSUME NEW r \in Runs, lease = r
                 PROVE  \/ ui.run = r \/ basic = r \/ r \in lost' \/ TornIn(events')
                        \/ r \in Live /\ nextEvent[r].mapped
                           /\ (Busy(queue', job', r) \/ ResultOf(events', r, nextEvent[r].next))
      BY <1>1 DEF KeptInv
    <2>1. \/ ui.run = r \/ basic = r \/ r \in lost \/ TornIn(events)
          \/ r \in Live /\ nextEvent[r].mapped
             /\ (Busy(queue, job, r) \/ ResultOf(events, r, nextEvent[r].next))
      BY DEF KeptInv
    <2>2. CASE r \in Live /\ nextEvent[r].mapped /\ Busy(queue, job, r)
      <3>1. nextEvent[r].next <= Len(VisibleIn(events)) /\ nextEvent[r].next \in Nat
        BY <1>1, <2>2 DEF RowInv
      <3> QED BY <2>2, <3>1
    <2>3. CASE r \in Live /\ nextEvent[r].mapped /\ ResultOf(events, r, nextEvent[r].next)
      BY <1>1, <2>3 DEF Grows
    <2> QED BY <2>1, <2>2, <2>3 DEF Grows
  <1> QED BY <1>2, <1>3, <1>4, <1>5, <1>6, <1>7, <1>8

\* The same when no result is written.
LEMMA QuietFrame ==
  ASSUME PlaneIInv, Grows, QueueInv', PlaneStays, lost \subseteq lost',
         \A k \in Nat : ResultAfter(events', k) => ResultAfter(events, k),
         \A r \in Live : Busy(queue', job', r) => Busy(queue, job, r),
         \A r \in Live : Busy(queue, job, r) => Busy(queue', job', r) \/ r \in lost'
  PROVE  Core'
  <1>1. \A r \in Live : Busy(queue, job, r) =>
          Busy(queue', job', r) \/ r \in lost' \/ TornIn(events')
            \/ \A k \in Nat : k <= Len(VisibleIn(events)) => ResultOf(events', r, k) \/ TornIn(events')
    OBVIOUS
  <1>2. \A r \in Live : \A k \in Nat : ResultAfter(events', k) =>
          \/ ResultAfter(events, k)
          \/ (\E l \in Live : Busy(queue, job, l)) /\ ~Busy(queue', job', r)
    OBVIOUS
  <1> QED BY <1>1, <1>2, ControllerFrame

\* A queue of at most one request.
LEMMA QueueParts ==
  ASSUME PlaneTypeOK, QueueInv
  PROVE  /\ queue = <<>> => \A r : r \notin ToSet(queue)
         /\ queue # <<>> => /\ Head(queue) \in Live /\ Tail(queue) = <<>>
                            /\ \A r : r \in ToSet(queue) <=> r = Head(queue)
  <1>1. queue \in Seq(Live) /\ Len(queue) \in Nat /\ Len(queue) <= 1
    BY DEF PlaneTypeOK, QueueInv
  <1>2. CASE queue = <<>>
    BY <1>2 DEF ToSet
  <1>3. CASE queue # <<>>
    <2>1. Head(queue) \in Live /\ Tail(queue) \in Seq(Live) /\ Len(Tail(queue)) = Len(queue) - 1
      BY <1>1, <1>3, HeadTailProperties
    <2>2. Len(queue) = 1
      <3>1. Len(Tail(queue)) \in Nat
        BY <2>1
      <3> QED BY <1>1, <2>1, <3>1
    <2>3. Tail(queue) = <<>>
      <3>1. \A seq \in Seq(Live) : seq # <<>> => Len(seq) \in Nat \ {0}
        BY EmptySeq
      <3>2. Len(Tail(queue)) = 0
        BY <2>1, <2>2
      <3> QED BY <2>1, <3>1, <3>2
    <2>4. DOMAIN queue = {1} /\ Head(queue) = queue[1]
      BY <1>1, <2>2
    <2> QED BY <1>3, <2>1, <2>3, <2>4 DEF ToSet
  <1> QED BY <1>2, <1>3

\* There is no request in an empty queue.
LEMMA NoRequest == \A r : r \notin ToSet(<<>>)
  BY DEF ToSet

\* Each of the other steps keeps the invariant.
LEMMA StartControllerKeeps ==
  ASSUME PlaneIInv, StartController
  PROVE  Core'
  <1>1. Grows /\ (\A k \in Nat : ResultAfter(events', k) => ResultAfter(events, k))
    BY LaunchGrows DEF PlaneIInv, StartController
  <1>2. /\ queue' = queue /\ job' = job /\ lost' = lost /\ PlaneStays
    BY DEF PlaneStays, StartController, ghost
  <1>3. QueueInv'
    BY <1>2 DEF PlaneIInv, Core, QueueInv
  <1> QED BY <1>1, <1>2, <1>3, QuietFrame

\* The request that is taken stays in progress.
LEMMA TakeKeeps ==
  ASSUME PlaneIInv, Take
  PROVE  Core'
  <1>1. /\ job = NoJob /\ queue # <<>> /\ job' = [of |-> Head(queue), at |-> "admit"]
        /\ queue' = Tail(queue) /\ events' = events /\ lost' = lost /\ PlaneStays
    BY DEF Take, plane, ghost, PlaneStays
  <1>2. /\ Head(queue) \in Live /\ queue' = <<>>
        /\ \A r : r \in ToSet(queue) <=> r = Head(queue)
    BY <1>1, QueueParts DEF PlaneIInv, Core
  <1>3. \A r \in Live : Busy(queue', job', r) <=> Busy(queue, job, r)
    BY <1>1, <1>2, NoRequest, ControlPlaneAssumption DEF Busy, NoJob
  <1>4. QueueInv'
    <2>1. Len(queue') = 0 /\ job'.of # NoRun /\ job'.at = "admit"
      BY <1>1, <1>2, ControlPlaneAssumption
    <2> QED BY <1>2, <2>1 DEF QueueInv
  <1>5. Grows /\ \A n \in Nat : ResultAfter(events', n) => ResultAfter(events, n)
    BY <1>1, LogStays DEF PlaneIInv
  <1> QED BY <1>1, <1>3, <1>4, <1>5, QuietFrame

\* A stage is announced.
LEMMA AdvanceKeeps ==
  ASSUME PlaneIInv, Advance
  PROVE  Core'
  <1>1. PICK k \in {"stage", "live"} :
          /\ events' = Append(events, Event(k, job.of, TRUE))
          /\ queue' = queue /\ lost' = lost /\ PlaneStays
          /\ job.at \in {"admit", "check"} /\ job'.of = job.of /\ job'.at \in {"check", "observe"}
    BY DEF PlaneStays, Advance, Works, Emit, plane, ghost, PlaneIInv, PlaneTypeOK
  <1>2. Event(k, job.of, TRUE) \in LogEvent /\ Event(k, job.of, TRUE).kind = k
    BY DEF PlaneIInv, PlaneTypeOK, Event, LogEvent
  <1>3. Grows /\ \A n \in Nat : ResultAfter(events', n) => ResultAfter(events, n)
    BY <1>1, <1>2, LogGrows DEF PlaneIInv
  <1>4. \A r \in Live : Busy(queue', job', r) <=> Busy(queue, job, r)
    BY <1>1 DEF Busy
  <1>5. QueueInv'
    BY <1>1 DEF PlaneIInv, Core, QueueInv
  <1> QED BY <1>1, <1>3, <1>4, <1>5, QuietFrame

\* While the controller works there is no other request, and its own is in progress.
LEMMA OneAtWork ==
  ASSUME PlaneIInv, job.at \in {"admit", "check", "observe"}
  PROVE  /\ job.of \in Live /\ queue = <<>>
         /\ \A r : Busy(queue, job, r) <=> r = job.of
  <1>1. job.of \in Live /\ queue = <<>>
    BY DEF PlaneIInv, Core, QueueInv, PlaneTypeOK
  <1> QED BY <1>1, QueueParts DEF Busy, PlaneIInv, Core

\* The run in progress ends with a result that can be found.
LEMMA ResultKeeps ==
  ASSUME PlaneIInv, Result
  PROVE  Core'
  <1>1. PICK good \in BOOLEAN :
          /\ events' = Append(events, Event("result", job.of, good))
          /\ queue' = queue /\ lost' = lost /\ PlaneStays
          /\ job.at \in {"check", "observe"}
          /\ job' = NoJob \/ (job'.of = job.of /\ job'.at = "raised")
    BY DEF PlaneStays, Result, Emit, plane, ghost, PlaneIInv, PlaneTypeOK
  <1>2. LET e == Event("result", job.of, good)
        IN  e \in LogEvent /\ e.kind = "result" /\ e.of = job.of
    BY DEF PlaneIInv, PlaneTypeOK, Event, LogEvent
  <1>3. /\ Grows
        /\ \A n \in Nat : n <= Len(VisibleIn(events)) =>
             ResultOf(events', job.of, n) \/ TornIn(events')
    BY <1>1, <1>2, LogGrows DEF PlaneIInv
  <1>4. job.of \in Live /\ queue = <<>> /\ \A r : Busy(queue, job, r) <=> r = job.of
    BY <1>1, OneAtWork
  <1>5. \A r \in Live : ~Busy(queue', job', r)
    BY <1>1, <1>4, NoRequest, ControlPlaneAssumption DEF Busy, NoJob
  <1>6. QueueInv'
    BY <1>1, <1>4, ControlPlaneAssumption DEF QueueInv, NoJob
  <1>7. \A r \in Live : Busy(queue, job, r) =>
           \A n \in Nat : n <= Len(VisibleIn(events)) => ResultOf(events', r, n) \/ TornIn(events')
    BY <1>3, <1>4
  <1>8. \A r \in Live : (\E l \in Live : Busy(queue, job, l)) /\ ~Busy(queue', job', r)
    BY <1>4, <1>5
  <1> QED BY <1>1, <1>3, <1>5, <1>6, <1>7, <1>8, ControllerFrame

\* A request that ends in an error loses its keeper, unless its result is there.
LEMMA ReportKeeps ==
  ASSUME PlaneIInv, Report
  PROVE  Core'
  <1>1. /\ queue' = queue /\ PlaneStays /\ job' = NoJob
        /\ job.at \in {"admit", "raised"} /\ lost \subseteq lost'
        /\ job.at = "admit" => job.of \in lost'
        /\ \/ \E good \in BOOLEAN : events' = Append(events, Event("error", job.of, good))
           \/ events' = events
    BY DEF PlaneStays, Report, Emit, plane
  <1>2. Grows /\ \A n \in Nat : ResultAfter(events', n) => ResultAfter(events, n)
    <2>1. CASE events' = events
      BY <2>1, LogStays DEF PlaneIInv
    <2>2. ASSUME NEW good \in BOOLEAN, events' = Append(events, Event("error", job.of, good))
          PROVE  Grows /\ \A n \in Nat : ResultAfter(events', n) => ResultAfter(events, n)
      <3>1. /\ Event("error", job.of, good) \in LogEvent
            /\ Event("error", job.of, good).kind = "error"
        BY DEF PlaneIInv, PlaneTypeOK, Event, LogEvent
      <3> QED BY <2>2, <3>1, LogGrows DEF PlaneIInv
    <2> QED BY <1>1, <2>1, <2>2
  <1>3. \A r \in Live : Busy(queue', job', r) => Busy(queue, job, r)
    BY <1>1, ControlPlaneAssumption DEF Busy, NoJob
  <1>4. \A r \in Live : Busy(queue, job, r) => Busy(queue', job', r) \/ r \in lost'
    BY <1>1 DEF Busy
  <1>5. QueueInv'
    BY <1>1 DEF PlaneIInv, Core, QueueInv, NoJob
  <1> QED BY <1>1, <1>2, <1>3, <1>4, <1>5, QuietFrame

\* The same of a request that the controller dies with.
LEMMA ControllerDiesKeeps ==
  ASSUME PlaneIInv, ControllerDies
  PROVE  Core'
  <1>1. /\ queue' = queue /\ PlaneStays /\ job' = NoJob /\ lost \subseteq lost'
        /\ job.at \in {"admit", "check", "observe"} => job.of \in lost'
        /\ events' = events \/ events' = Append(events, Event("torn", job.of, FALSE))
    BY DEF PlaneStays, ControllerDies, plane
  <1>2. Grows /\ \A n \in Nat : ResultAfter(events', n) => ResultAfter(events, n)
    <2>1. CASE events' = events
      BY <2>1, LogStays DEF PlaneIInv
    <2>2. CASE events' = Append(events, Event("torn", job.of, FALSE))
      <3>1. /\ Event("torn", job.of, FALSE) \in LogEvent
            /\ Event("torn", job.of, FALSE).kind = "torn"
        BY DEF PlaneIInv, PlaneTypeOK, Event, LogEvent
      <3> QED BY <2>2, <3>1, LogGrows DEF PlaneIInv
    <2> QED BY <1>1, <2>1, <2>2
  <1>3. \A r \in Live : Busy(queue', job', r) => Busy(queue, job, r)
    BY <1>1, ControlPlaneAssumption DEF Busy, NoJob
  <1>4. \A r \in Live : Busy(queue, job, r) => Busy(queue', job', r) \/ r \in lost'
    BY <1>1, ControlPlaneAssumption DEF Busy, PlaneIInv, PlaneTypeOK, Core, QueueInv
  <1>5. QueueInv'
    BY <1>1 DEF PlaneIInv, Core, QueueInv, NoJob
  <1> QED BY <1>1, <1>2, <1>3, <1>4, <1>5, QuietFrame

\* The request is the only one, and its run has the lease.
LEMMA SendKeeps ==
  ASSUME PlaneIInv, Send
  PROVE  Core'
  <1>1. /\ ui.at = "send" /\ ui' = [ui EXCEPT !.at = "map"] /\ queue' = Append(queue, me)
        /\ UNCHANGED <<db, docker>> /\ job' = job /\ events' = events /\ lost' = lost
    BY DEF Send, At, Step, ghost
  <1>2. me \in Live /\ lease = me /\ (\A r \in Live : ~Busy(queue, job, r))
    BY <1>1 DEF PlaneIInv, Core, HandlerInv, LeaseInv, LiveSteps
  <1>3. queue = <<>>
    BY <1>2, QueueParts DEF Busy, PlaneIInv, Core
  <1>4. queue' = <<me>> /\ \A r : r \in ToSet(<<me>>) <=> r = me
    BY <1>1, <1>3 DEF ToSet
  <1>5. job.at \in {"none", "raised"}
    BY <1>2 DEF Busy, PlaneIInv, Core, PlaneTypeOK, QueueInv
  <1>6. \A r \in Live : Busy(queue', job', r) <=> r = me
    BY <1>1, <1>2, <1>4 DEF Busy
  <1>7. /\ ui'.at = "map" /\ ui'.run = me /\ ui'.start = ui.start
        /\ lease' = lease /\ basic' = basic /\ status' = status /\ nextEvent' = nextEvent
        /\ container' = container /\ late' = late /\ Len(queue') = 1
    BY <1>1, <1>4 DEF PlaneIInv, PlaneTypeOK, db, docker, me
  <1>8. QueueInv'
    BY <1>1, <1>5, <1>7 DEF PlaneIInv, Core, QueueInv
  <1> USE <1>1, <1>2, <1>7 DEF PlaneIInv, Core, me
  <1>9. HandlerInv' /\ RowInv' /\ LateInv' /\ StoppedIsLeased'
    BY ControlPlaneAssumption DEF HandlerInv, RowInv, LateInv, StoppedIsLeased, LiveSteps, BasicSteps
  <1>10. LogInv'
    <2>1. ~nextEvent[me].mapped /\ ~ResultAfter(events, ui.start)
      BY DEF HandlerInv, LogInv, LiveSteps
    <2> QED BY <1>6, <2>1 DEF LogInv
  <1>11. KeeperInv' /\ LeaseInv'
    BY <1>6 DEF KeeperInv, LeaseInv
  <1>12. KeptInv'
    BY <1>6 DEF KeptInv
  <1> QED BY <1>8, <1>9, <1>10, <1>11, <1>12

\* The plane comes back with no handler.
LEMMA StartPlaneKeeps ==
  ASSUME PlaneIInv, StartPlane
  PROVE  Core'
  <1>1. /\ ui.at = "down" /\ ui' = Idle /\ queue' = queue /\ job' = job /\ lost' = lost
        /\ lease' = lease /\ basic' = basic /\ status' = status /\ nextEvent' = nextEvent
        /\ container' = container /\ late' = late
    BY DEF StartPlane, At, Return, db, docker, ghost
  <1>2. Grows /\ (\A k \in Nat : ResultAfter(events', k) => ResultAfter(events, k))
    BY LaunchGrows DEF PlaneIInv, StartPlane
  <1>3. ui.run = NoRun /\ ui'.at = "idle" /\ ui'.run = NoRun
    BY <1>1 DEF PlaneIInv, Core, HandlerInv, Idle
  <1>4. Len(VisibleIn(events)) \in Nat /\ \A r \in Live : nextEvent[r].next \in Nat
    BY LogTypes DEF PlaneIInv, PlaneTypeOK
  <1> USE <1>1, <1>2, <1>3, <1>4 DEF PlaneIInv, Core, me, Grows
  <1>5. HandlerInv' /\ RowInv' /\ LateInv' /\ StoppedIsLeased' /\ QueueInv'
    BY ControlPlaneAssumption DEF HandlerInv, RowInv, LateInv, StoppedIsLeased, QueueInv, LiveSteps, BasicSteps
  <1>6. LogInv' /\ KeeperInv' /\ LeaseInv'
    BY DEF LogInv, KeeperInv, LeaseInv
  <1>7. KeptInv'
    BY ControlPlaneAssumption DEF KeptInv, Runs
  <1> QED BY <1>5, <1>6, <1>7

\* What a sync does, event list and all: the lease is given back when there is a
\* result among the events that the run has not read yet.
LEMMA SyncDoes ==
  ASSUME PlaneIInv, NEW r \in Live, Sync(r)
  PROVE  \E v \in Rows :
           /\ v.leased <=> lease = r /\ ~ResultAfter(events, nextEvent[r].next)
           /\ status' = [status EXCEPT ![r] = v.status]
           /\ inst' = [inst EXCEPT ![r] = v.inst]
           /\ attempt' = [attempt EXCEPT ![r] = v.attempt]
           /\ lease' = IF lease = r /\ ~v.leased THEN NoRun ELSE lease
  <1> DEFINE s == Unread(r)
             v0 == [status |-> status[r], inst |-> inst[r], attempt |-> attempt[r],
                    leased |-> lease = r]
             v == AppliedAll(v0, s)
             V == VisibleIn(events)
             n == nextEvent[r].next
  <1>1. /\ V \in Seq(LogEvent) /\ Len(V) \in Nat /\ n \in Nat /\ n <= Len(V)
        /\ \A i \in DOMAIN V : V[i].kind # "torn"
        /\ s = SubSeq(V, n + 1, Len(V))
    <2>1. events \in Seq(LogEvent) /\ V \in Seq(LogEvent) /\ Len(V) \in Nat /\ Visible = V
      BY LogTypes DEF PlaneIInv
    <2>2. \A i \in DOMAIN V : V[i].kind # "torn"
      <3>1. \A i \in DOMAIN V : V[i] = events[i] /\ events[i].kind # "torn"
        BY <2>1, VisiblePart
      <3> QED BY <3>1
    <2>3. n \in Nat /\ n <= Len(V)
      BY DEF PlaneIInv, Core, RowInv, Sync, PlaneTypeOK
    <2>4. s = SubSeq(V, n + 1, Len(V))
      BY <2>1 DEF Unread
    <2> QED BY <2>1, <2>2, <2>3, <2>4
  <1>2. v0 \in Rows
    <2>1. status[r] # NoRow /\ r \in Runs
      BY DEF PlaneIInv, Core, RowInv, Sync, Runs
    <2>2. /\ status[r] \in {"Starting", "Active", "Failed", "Resolved", "RecoveryFailed"}
          /\ inst[r] \in {NoRow, "queued", "active", "completed", "reverted"}
          /\ attempt[r] \in [status : {NoRow, "queued", "running", "completed", "failed",
                                      "not_requested"},
                             phase : {NoRow, "capturing", "investigating", "complete"}]
      BY <2>1 DEF PlaneIInv, PlaneTypeOK
    <2>3. (lease = r) \in BOOLEAN
      OBVIOUS
    <2> QED BY <2>2, <2>3 DEF Rows
  <1>3. /\ status' = [status EXCEPT ![r] = v.status]
        /\ inst' = [inst EXCEPT ![r] = v.inst]
        /\ attempt' = [attempt EXCEPT ![r] = v.attempt]
        /\ lease' = IF lease = r /\ ~v.leased THEN NoRun ELSE lease
    BY DEF Sync, AppliedAll
  <1> HIDE DEF V, n, s
  <1>4. /\ s \in Seq(LogEvent) /\ Len(s) = Len(V) - n /\ DOMAIN s = 1..(Len(V) - n)
        /\ \A i \in 1..(Len(V) - n) : s[i] = V[n + i] /\ n + i \in DOMAIN V
    <2>1. n + 1 \in 1..(Len(V) + 1)
      BY <1>1
    <2>2. \A i \in (n + 1)..Len(V) : i \in DOMAIN V /\ V[i] \in LogEvent
      BY <1>1
    <2>3. s \in Seq(LogEvent) /\ Len(s) = Len(V) - n
      BY <1>1, <2>1, <2>2
    <2>4. \A i \in 1..(Len(V) - n) : s[i] = V[n + i] /\ n + i \in DOMAIN V
      BY <1>1, <2>1
    <2> QED BY <2>3, <2>4, <1>1
  <1>5. \A i \in DOMAIN s : s[i].kind # "torn"
    BY <1>1, <1>4
  <1>6. (\A i \in DOMAIN s : s[i].kind # "result") <=> ~ResultAfter(events, n)
    <2>1. ASSUME NEW i \in DOMAIN V, i > n, V[i].kind = "result"
          PROVE  \E j \in DOMAIN s : s[j].kind = "result"
      <3>1. i - n \in 1..(Len(V) - n) /\ n + (i - n) = i
        BY <1>1, <2>1
      <3> QED BY <1>4, <2>1, <3>1
    <2>2. ASSUME NEW i \in DOMAIN s, s[i].kind = "result"
          PROVE  \E j \in DOMAIN V : j > n /\ V[j].kind = "result"
      <3>1. n + i \in DOMAIN V /\ n + i > n /\ V[n + i].kind = "result"
        BY <1>1, <1>4, <2>2
      <3> QED BY <3>1
    <2> QED BY <2>1, <2>2 DEF ResultAfter, V
  <1> HIDE DEF v0
  <1>7. v \in Rows /\ (v.leased <=> v0.leased /\ \A i \in DOMAIN s : s[i].kind # "result")
    BY <1>2, <1>4, <1>5, AppliedFacts
  <1>8. v0.leased <=> lease = r
    BY DEF v0
  <1> HIDE DEF v
  <1>9. v.leased <=> lease = r /\ ~ResultAfter(events, n)
    BY <1>6, <1>7, <1>8
  <1> QED BY <1>3, <1>7, <1>9 DEF n

\* So a sync keeps the invariant.
LEMMA SyncKeeps ==
  ASSUME PlaneIInv, NEW r \in Live, Sync(r)
  PROVE  Core'
  <1>1. PICK v \in Rows :
           /\ v.leased <=> lease = r /\ ~ResultAfter(events, nextEvent[r].next)
           /\ status' = [status EXCEPT ![r] = v.status]
           /\ lease' = IF lease = r /\ ~v.leased THEN NoRun ELSE lease
    BY SyncDoes
  <1>2. /\ ui.run = NoRun /\ ui.at = "idle" /\ ui' = ui /\ basic' = basic /\ container' = container /\ late' = late
        /\ queue' = queue /\ job' = job /\ events' = events /\ lost' = lost
        /\ nextEvent[r].mapped /\ r # NoRun /\ r \in Runs /\ r \notin Basic
    BY ControlPlaneAssumption DEF Sync, At, PlaneIInv, Core, HandlerInv, plane, ctl, docker, ghost, Runs
  <1>3. /\ nextEvent'[r].mapped /\ nextEvent'[r].next = Len(VisibleIn(events))
        /\ \A l \in Live : l # r => nextEvent'[l] = nextEvent[l]
        /\ ~ResultAfter(events, Len(VisibleIn(events))) /\ Len(VisibleIn(events)) \in Nat
    BY <1>2, LogTypes DEF Sync, PlaneIInv, PlaneTypeOK
  <1>4. lease' = IF lease = r /\ ResultAfter(events, nextEvent[r].next) THEN NoRun ELSE lease
    BY <1>1
  <1>5. \A l \in Runs : status[l] # NoRow => status'[l] # NoRow
    <2>1. v.status # NoRow
      BY DEF Rows, NoRow
    <2> QED BY <1>1, <2>1 DEF PlaneIInv, PlaneTypeOK
  <1> USE <1>2, <1>3, <1>4 DEF PlaneIInv, Core, me
  <1>6. HandlerInv' /\ QueueInv' /\ KeeperInv'
    BY DEF HandlerInv, QueueInv, KeeperInv, LiveSteps, BasicSteps
  <1>7. RowInv'
    <2>1. RowInv
      OBVIOUS
    <2>2. \A l \in Live : nextEvent'[l].mapped =>
            status'[l] # NoRow /\ nextEvent'[l].next <= Len(VisibleIn(events))
      BY <2>1, <1>5 DEF RowInv, Runs
    <2>3. /\ lease' # NoRun => status'[lease'] # NoRow
          /\ basic' # NoRun => status'[basic'] # NoRow
      <3>1. lease \in Runs \cup {NoRun} /\ basic \in Basic \cup {NoRun} /\ Basic \subseteq Runs
        BY DEF PlaneTypeOK, Runs
      <3>2. lease' = lease \/ lease' = NoRun
        OBVIOUS
      <3> QED BY <2>1, <3>1, <3>2, <1>5 DEF RowInv
    <2> QED BY <2>2, <2>3 DEF RowInv
  <1>8. LogInv'
    BY DEF LogInv
  <1>9. LeaseInv'
    BY DEF LeaseInv, LogInv
  <1>10. LateInv' /\ StoppedIsLeased'
    <2>1. \A l \in Basic : l # r /\ l \in Runs /\ l # NoRun
      BY ControlPlaneAssumption DEF Runs
    <2>2. \A l \in Basic : status'[l] = status[l] /\ (lease = l => lease' = l)
      BY <1>1, <2>1 DEF PlaneTypeOK
    <2>3. LateInv'
      BY <2>2 DEF LateInv
    <2>4. container \in Basic \cup {NoRun}
      BY DEF PlaneTypeOK
    <2> QED BY <2>2, <2>3, <2>4 DEF StoppedIsLeased
  <1>11. KeptInv'
    <2>1. ResultOf(events, r, nextEvent[r].next) => ResultAfter(events, nextEvent[r].next)
      BY DEF ResultOf, ResultAfter
    <2> SUFFICES ASSUME NEW l \in Runs, lease' = l
                 PROVE  \/ ui.run = l \/ basic = l \/ l \in lost \/ TornIn(events)
                        \/ l \in Live /\ nextEvent'[l].mapped
                           /\ (Busy(queue, job, l) \/ ResultOf(events, l, nextEvent'[l].next))
      BY DEF KeptInv
    <2>2. lease = l /\ (l = r => ~ResultAfter(events, nextEvent[r].next))
      BY ControlPlaneAssumption DEF Runs
    <2>3. \/ ui.run = l \/ basic = l \/ l \in lost \/ TornIn(events)
          \/ l \in Live /\ nextEvent[l].mapped
             /\ (Busy(queue, job, l) \/ ResultOf(events, l, nextEvent[l].next))
      BY <2>2 DEF KeptInv
    <2>4. CASE l = r
      BY <2>1, <2>2, <2>3, <2>4
    <2>5. CASE l # r
      BY <2>3, <2>5
    <2> QED BY <2>4, <2>5
  <1> QED BY <1>6, <1>7, <1>8, <1>9, <1>10, <1>11

\* The type invariant in parts.
Attempts == [status : {NoRow, "queued", "running", "completed", "failed", "not_requested"},
         phase : {NoRow, "capturing", "investigating", "complete"}]
TypeUi  == ui \in [at : {"idle", "down", "read", "send", "map", "lease", "stop", "persist",
                         "undo", "activate", "restarted"},
                   run : Runs \cup {NoRun}, start : Nat]
TypeDb  == /\ lease \in Runs \cup {NoRun} /\ basic \in Basic \cup {NoRun}
           /\ status \in [Runs -> {NoRow, "Starting", "Active", "Failed", "Resolved", "RecoveryFailed"}]
           /\ inst \in [Runs -> {NoRow, "queued", "active", "completed", "reverted"}]
           /\ attempt \in [Runs -> Attempts]
TypeLog == /\ nextEvent \in [Live -> [mapped : BOOLEAN, next : 0..Len(events)]]
           /\ events \in Seq(LogEvent)
TypeCtl == /\ server \in {"off", "up", "stale"} /\ starts \in 0..MaxStarts
           /\ queue \in Seq(Live)
           /\ job \in [of : Live \cup {NoRun},
                       at : {"none", "admit", "check", "observe", "raised"}]
           /\ blockedBy \in Live \cup {NoRun}
TypeLab == /\ handle \in BOOLEAN
           /\ container \in Basic \cup {NoRun}
           /\ late \in [Basic -> {"none", "underway", "landed"}]
           /\ lost \subseteq Runs /\ deaths \in 0..MaxDeaths

\* They are the type invariant.
LEMMA TypeParts ==
  /\ PlaneTypeOK <=> TypeUi /\ TypeDb /\ TypeLog /\ TypeCtl /\ TypeLab
  /\ PlaneTypeOK' <=> TypeUi' /\ TypeDb' /\ TypeLog' /\ TypeCtl' /\ TypeLab'
  BY DEF PlaneTypeOK, TypeUi, TypeDb, TypeLog, TypeCtl, TypeLab, Attempts, LogEvent

\* A failed attempt is an attempt.
LEMMA AttemptFailed ==
  ASSUME attempt \in [Runs -> Attempts], NEW r \in Runs
  PROVE  [attempt EXCEPT ![r].status = "failed"] \in [Runs -> Attempts]
  <1>1. attempt[r] \in Attempts
    OBVIOUS
  <1>2. [attempt[r] EXCEPT !.status = "failed"] \in Attempts
    BY <1>1 DEF Attempts
  <1> QED BY <1>2

\* The types, step by step.
LEMMA QuietTypes ==
  ASSUME PlaneIInv, QuietStep
  PROVE  PlaneTypeOK'
  <1>1. /\ queue' = queue /\ job' = job /\ events' = events
        /\ Len(VisibleIn(events)) \in Nat /\ Len(events) \in Nat /\ NoRow = "none"
        /\ Visible = VisibleIn(events) /\ Len(VisibleIn(events)) <= Len(events)
    BY LogTypes DEF PlaneIInv, QuietStep, CreateLive, CreateBasic, ReadStart, SendFailed, MapRequest,
       Acquire, AcquireRefused, StopContainer, StopFailed, Persist, PersistFailed,
       Undo, HandlerRaises, Activate, Restart, RestartFailed, RecordRestart, PlaneDies, RecoverLab,
       StopLands, MayComeLate, ctl
  <1>p. TypeUi /\ TypeDb /\ TypeLog /\ TypeCtl /\ TypeLab
    BY TypeParts DEF PlaneIInv
  <1>l. MayComeLate => late' \in [Basic -> {"none", "underway", "landed"}]
    BY <1>p DEF MayComeLate, TypeLab
  <1> USE <1>1, <1>p, ControlPlaneAssumption DEF PlaneIInv, Core, PlaneTypeOK, HandlerInv, LiveSteps,
  BasicSteps, Runs,
          plane, db, ctl, docker, ghost, Enter, At, Step, Return, me, Idle, ReleaseOf, Refused, Unleased
  <1>2. ASSUME NEW r \in Live, CreateLive(r)
        PROVE  PlaneTypeOK'
    BY <1>2 DEF CreateLive
  <1>3. ASSUME NEW r \in Basic, CreateBasic(r)
        PROVE  PlaneTypeOK'
    BY <1>3 DEF CreateBasic
  <1>4. CASE ReadStart
    BY <1>4 DEF ReadStart
  <1>5. CASE SendFailed
    BY <1>5 DEF SendFailed
  <1>6. CASE MapRequest
    BY <1>6 DEF MapRequest
  <1>7. CASE Acquire
    BY <1>7 DEF Acquire
  <1>8. CASE AcquireRefused
    <2>1. /\ attempt' = [attempt EXCEPT ![me].status = "failed"] /\ me \in Basic
          /\ status' = [status EXCEPT ![me] = "Failed"] /\ inst' = inst /\ basic' = basic
          /\ lease' \in {lease, NoRun}
      BY <1>8 DEF AcquireRefused
    <2>2. TypeDb'
      BY <2>1, AttemptFailed DEF TypeDb
    <2>3. TypeUi' /\ TypeLog' /\ TypeCtl' /\ TypeLab'
      BY <1>8 DEF AcquireRefused, TypeUi, TypeLog, TypeCtl, TypeLab
    <2> QED BY <2>2, <2>3, TypeParts
  <1>9. CASE StopContainer
    BY <1>9 DEF StopContainer
  <1>10. CASE StopFailed
    <2>1. /\ attempt' = [attempt EXCEPT ![me].status = "failed"] /\ me \in Basic
          /\ status' = [status EXCEPT ![me] = "Failed"] /\ inst' = inst /\ basic' = basic
          /\ lease' \in {lease, NoRun}
      BY <1>10 DEF StopFailed
    <2>2. TypeDb'
      BY <2>1, AttemptFailed DEF TypeDb
    <2>3. TypeLab'
      BY <1>10, <1>l DEF StopFailed, TypeLab
    <2>4. TypeUi' /\ TypeLog' /\ TypeCtl'
      BY <1>10 DEF StopFailed, TypeUi, TypeLog, TypeCtl
    <2> QED BY <2>2, <2>3, <2>4, TypeParts
  <1>11. CASE Persist
    BY <1>11 DEF Persist
  <1>12. CASE PersistFailed
    BY <1>12 DEF PersistFailed
  <1>13. CASE Undo
    <2>1. /\ attempt' = [attempt EXCEPT ![me].status = "failed"] /\ me \in Basic
          /\ status' = [status EXCEPT ![me] = "Failed"] /\ inst' = inst /\ basic' = basic
          /\ lease' \in {lease, NoRun}
      BY <1>13 DEF Undo
    <2>2. TypeDb'
      BY <2>1, AttemptFailed DEF TypeDb
    <2>3. TypeUi' /\ TypeLog' /\ TypeCtl' /\ TypeLab'
      BY <1>13 DEF Undo, TypeUi, TypeLog, TypeCtl, TypeLab
    <2> QED BY <2>2, <2>3, TypeParts
  <1>14. CASE HandlerRaises
    BY <1>14 DEF HandlerRaises
  <1>15. CASE Activate
    BY <1>15 DEF Activate
  <1>16. CASE Restart
    BY <1>16 DEF Restart
  <1>17. CASE RestartFailed
    BY <1>17 DEF RestartFailed
  <1>18. CASE RecordRestart
    <2>1. TypeDb'
      <3>1. /\ me \in Basic /\ basic' = NoRun /\ lease' \in {lease, NoRun} /\ attempt' = attempt
            /\ status' = [status EXCEPT ![me] = "Resolved"]
            /\ inst' = [inst EXCEPT ![me] = IF inst[me] = "active" THEN "reverted" ELSE inst[me]]
        BY <1>18 DEF RecordRestart
      <3>2. inst' \in [Runs -> {NoRow, "queued", "active", "completed", "reverted"}]
        BY <3>1 DEF TypeDb
      <3> QED BY <3>1, <3>2 DEF TypeDb
    <2>2. TypeUi' /\ TypeLog' /\ TypeCtl' /\ TypeLab'
      BY <1>18 DEF RecordRestart, TypeUi, TypeLog, TypeCtl, TypeLab
    <2> QED BY <2>1, <2>2, TypeParts
  <1>19. CASE PlaneDies
    <2>1. TypeUi'
      BY <1>19 DEF PlaneDies, TypeUi
    <2>2. lost' \subseteq Runs
      BY <1>19 DEF PlaneDies, TypeLab
    <2>3. deaths' \in 0..MaxDeaths
      BY <1>19 DEF PlaneDies, TypeLab
    <2>4. TypeLab'
      BY <1>19, <1>l, <2>2, <2>3 DEF PlaneDies, TypeLab
    <2>5. TypeDb' /\ TypeLog' /\ TypeCtl'
      BY <1>19 DEF PlaneDies, TypeDb, TypeLog, TypeCtl
    <2> QED BY <2>1, <2>4, <2>5, TypeParts
  <1>20. CASE RecoverLab
    BY <1>20 DEF RecoverLab
  <1>21. ASSUME NEW r \in Basic, StopLands(r)
         PROVE  PlaneTypeOK'
    BY <1>21 DEF StopLands
  <1> HIDE DEF PlaneIInv, Core, PlaneTypeOK
  <1> QED BY <1>2, <1>3, <1>4, <1>5, <1>6, <1>7, <1>8, <1>9, <1>10, <1>11, <1>12, <1>13, <1>14,
  <1>15, <1>16, <1>17, <1>18, <1>19, <1>20, <1>21 DEF QuietStep

\* The steps that write to the log or change the requests.
LoudStep == StartPlane \/ StartController \/ Send \/ Take \/ Advance \/ Result \/ Report \/ ControllerDies

\* They only add to the log.
LEMMA LoudGrows ==
  ASSUME PlaneTypeOK, LoudStep
  PROVE  events' \in Seq(LogEvent) /\ Len(events') \in Nat /\ Len(events) <= Len(events')
  <1>1. job.of \in Live \cup {NoRun} /\ NoRun \in Live \cup {NoRun}
    BY DEF PlaneTypeOK
  <1>2. \/ events' = events
        \/ \E k \in {"stage", "live", "error", "result", "torn"}, l \in Live \cup {NoRun},
              g \in BOOLEAN :
             events' = Append(events, Event(k, l, g))
    BY <1>1 DEF LoudStep, StartPlane, StartController, Launch, Send, Take, Advance, Works, Result,
       Report,
       ControllerDies, Emit
  <1>3. \A k \in {"stage", "live", "error", "result", "torn"}, l \in Live \cup {NoRun}, g \in BOOLEAN :
          Event(k, l, g) \in LogEvent
    BY DEF Event, LogEvent
  <1>4. CASE events' = events
    BY <1>4, LogTypes
  <1>5. CASE \E e \in LogEvent : events' = Append(events, e)
    BY <1>5, LogTypes
  <1> QED BY <1>2, <1>3, <1>4, <1>5

\* The types of these steps.
LEMMA LoudTypes ==
  ASSUME PlaneIInv, LoudStep
  PROVE  PlaneTypeOK'
  <1>1. TypeUi /\ TypeDb /\ TypeLog /\ TypeCtl /\ TypeLab
    BY TypeParts DEF PlaneIInv
  <1>2. UNCHANGED <<db, container, late>>
    BY DEF LoudStep, StartPlane, StartController, Send, Take, Advance, Result, Report,
       ControllerDies, docker
  <1>3. TypeDb'
    BY <1>1, <1>2 DEF TypeDb, db
  <1>4. TypeLog'
    <2>1. /\ events' \in Seq(LogEvent) /\ Len(events') \in Nat /\ Len(events) \in Nat
          /\ Len(events) <= Len(events') /\ nextEvent' = nextEvent
      BY <1>2, LoudGrows, LogTypes DEF PlaneIInv, db
    <2> QED BY <1>1, <2>1 DEF TypeLog
  <1>5. TypeUi'
    <2>1. CASE StartPlane
      BY <2>1 DEF StartPlane, TypeUi, Return, Idle
    <2>2. CASE Send
      BY <1>1, <2>2 DEF Send, TypeUi, Step
    <2>3. CASE ui' = ui
      BY <1>1, <2>3 DEF TypeUi
    <2> QED BY <2>1, <2>2, <2>3 DEF LoudStep, StartController, Take, Advance, Result, Report,
    ControllerDies,
                                   plane
  <1>6. TypeLab'
    <2>1. handle' \in BOOLEAN /\ deaths' \in 0..MaxDeaths
      <3>1. handle' \in {handle, TRUE}
        BY DEF LoudStep, StartPlane, StartController, Send, Take, Advance, Result, Report,
           ControllerDies,
               Launch, plane
      <3>2. deaths' = deaths \/ (deaths < MaxDeaths /\ deaths' = deaths + 1)
        BY DEF LoudStep, StartPlane, StartController, Send, Take, Advance, Result, Report,
           ControllerDies, ghost
      <3>3. handle \in BOOLEAN /\ deaths \in 0..MaxDeaths /\ MaxDeaths \in Nat
        BY <1>1, ControlPlaneAssumption DEF TypeLab
      <3>4. deaths' \in 0..MaxDeaths
        BY <3>2, <3>3
      <3> QED BY <3>1, <3>3, <3>4
    <2>2. lost' \subseteq Runs
      <3>1. job.at = "none" => job.of = NoRun
        BY DEF PlaneIInv, Core, QueueInv
      <3>2. job.at \in {"admit", "check", "observe"} => job.of \in Runs
        BY <1>1 DEF PlaneIInv, Core, QueueInv, TypeCtl, Runs
      <3> QED BY <1>1, <3>2 DEF TypeLab, LoudStep, StartPlane, StartController, Send, Take,
      Advance, Result, Report, ControllerDies, ghost
    <2> QED BY <1>1, <1>2, <2>1, <2>2 DEF TypeLab
  <1>7. TypeCtl'
    <2>1. NoJob \in [of : Live \cup {NoRun}, at : {"none", "admit", "check", "observe", "raised"}]
      BY DEF NoJob
    <2> USE <1>1, <2>1, ControlPlaneAssumption DEF TypeCtl
    <2>2. CASE StartPlane \/ StartController
      <3>1. /\ UNCHANGED <<queue, job, blockedBy>>
            /\ server' \in {server, "up"}
            /\ starts' = starts \/ (starts < MaxStarts /\ starts' = starts + 1)
        BY <2>2 DEF StartPlane, StartController, Launch
      <3>2. starts' \in 0..MaxStarts
        BY <3>1
      <3> QED BY <3>1, <3>2
    <2>3. CASE Send
      <3>1. me \in Live
        BY <2>3 DEF PlaneIInv, Core, HandlerInv, LiveSteps, Send, At
      <3> QED BY <2>3, <3>1 DEF Send
    <2>4. CASE Take
      <3>1. Head(queue) \in Live /\ Tail(queue) = <<>>
        BY <2>4, QueueParts DEF PlaneIInv, Core, Take
      <3> QED BY <2>4, <3>1 DEF Take
    <2>5. CASE Advance
      BY <2>5 DEF Advance, Works
    <2>6. CASE Result
      BY <2>6 DEF Result
    <2>7. CASE Report
      BY <2>7 DEF Report
    <2>8. CASE ControllerDies
      BY <2>8 DEF ControllerDies
    <2> QED BY <2>2, <2>3, <2>4, <2>5, <2>6, <2>7, <2>8 DEF LoudStep
  <1> QED BY <1>3, <1>4, <1>5, <1>6, <1>7, TypeParts

\* The types of a sync.
LEMMA SyncTypes ==
  ASSUME PlaneIInv, NEW r \in Live, Sync(r)
  PROVE  PlaneTypeOK'
  <1>1. PICK v \in Rows :
           /\ status' = [status EXCEPT ![r] = v.status]
           /\ inst' = [inst EXCEPT ![r] = v.inst]
           /\ attempt' = [attempt EXCEPT ![r] = v.attempt]
           /\ lease' = IF lease = r /\ ~v.leased THEN NoRun ELSE lease
    BY SyncDoes
  <1>2. /\ v.status \in {"Starting", "Active", "Failed", "Resolved", "RecoveryFailed"}
        /\ v.inst \in {NoRow, "queued", "active", "completed", "reverted"}
        /\ v.attempt \in [status : {NoRow, "queued", "running", "completed", "failed", "not_requested"},
                          phase : {NoRow, "capturing", "investigating", "complete"}]
    BY DEF Rows
  <1>3. /\ nextEvent' = [nextEvent EXCEPT ![r].next = Len(VisibleIn(events))]
        /\ Len(VisibleIn(events)) \in 0..Len(events)
        /\ UNCHANGED <<plane, basic, ctl, docker, ghost>>
    BY LogTypes DEF Sync, PlaneIInv
  <1>4. nextEvent' \in [Live -> [mapped : BOOLEAN, next : 0..Len(events)]]
    BY <1>3 DEF PlaneIInv, PlaneTypeOK
  <1>5. status' \in [Runs -> {NoRow, "Starting", "Active", "Failed", "Resolved", "RecoveryFailed"}]
    BY <1>1, <1>2 DEF PlaneIInv, PlaneTypeOK
  <1>6. inst' \in [Runs -> {NoRow, "queued", "active", "completed", "reverted"}]
    BY <1>1, <1>2 DEF PlaneIInv, PlaneTypeOK
  <1>7. attempt' \in [Runs -> [status : {NoRow, "queued", "running", "completed", "failed",
                                     "not_requested"},
                               phase : {NoRow, "capturing", "investigating", "complete"}]]
    BY <1>1, <1>2 DEF PlaneIInv, PlaneTypeOK
  <1>8. lease' \in Runs \cup {NoRun}
    BY <1>1 DEF PlaneIInv, PlaneTypeOK
  <1> QED BY <1>3, <1>4, <1>5, <1>6, <1>7, <1>8 DEF PlaneIInv, PlaneTypeOK, plane, ctl, docker, ghost

-----------------------------------------------------------------------------
(* The theorems.                                                           *)

\* The invariant holds initially.
LEMMA InvariantInit == PlaneInit => PlaneIInv
  <1> SUFFICES ASSUME PlaneInit PROVE PlaneIInv
    OBVIOUS
  <1> USE ControlPlaneAssumption DEF PlaneInit, Idle, NoJob, Nowhere, NoRow, Runs
  <1>1. PlaneTypeOK
    <2>1. TypeUi /\ TypeLab
      <3>1. TypeUi
        BY DEF TypeUi
      <3>2. 0 \in 0..MaxDeaths
        OBVIOUS
      <3>3. TypeLab
        BY <3>2 DEF TypeLab
      <3> QED BY <3>1, <3>3
    <2>2. TypeCtl
      BY DEF TypeCtl
    <2>3. TypeLog
      BY DEF TypeLog
    <2>4. TypeDb
      BY DEF TypeDb, Attempts
    <2> QED BY <2>1, <2>2, <2>3, <2>4, TypeParts
  <1>2. HandlerInv /\ RowInv /\ QueueInv /\ KeeperInv /\ LateInv /\ StoppedIsLeased
    BY DEF HandlerInv, RowInv, QueueInv, KeeperInv, LateInv, StoppedIsLeased, LiveSteps, BasicSteps, me
  <1>3. \A r \in Live : ~Busy(queue, job, r)
    BY NoRequest DEF Busy
  <1> QED BY <1>1, <1>2, <1>3 DEF PlaneIInv, Core, LogInv, LeaseInv, KeptInv, me

\* Every step keeps the invariant.
LEMMA InvariantNext == PlaneIInv /\ [PlaneNext]_planeVars => PlaneIInv'
  <1> SUFFICES ASSUME PlaneIInv, [PlaneNext]_planeVars PROVE PlaneIInv'
    OBVIOUS
  <1>1. ASSUME NEW r \in Live, Sync(r)
        PROVE  PlaneIInv'
    BY <1>1, SyncKeeps, SyncTypes DEF PlaneIInv
  <1>2. CASE QuietStep
    BY <1>2, QuietKeeps, QuietTypes DEF PlaneIInv
  <1>3. CASE LoudStep
    BY <1>3, LoudTypes, StartPlaneKeeps, StartControllerKeeps, SendKeeps, TakeKeeps, AdvanceKeeps,
       ResultKeeps, ReportKeeps, ControllerDiesKeeps DEF PlaneIInv, LoudStep
  <1>4. CASE UNCHANGED planeVars
    BY <1>4 DEF planeVars, plane, db, ctl, docker, ghost, PlaneIInv, Core, PlaneTypeOK, HandlerInv, RowInv, QueueInv,
       LogInv,
       KeeperInv, LeaseInv, LateInv, StoppedIsLeased, KeptInv, me
  <1> QED BY <1>1, <1>2, <1>3, <1>4 DEF PlaneNext, QuietStep, LoudStep

\* The inductive invariant holds in every reachable state.
THEOREM ControlPlaneInvariant == PlaneSpec => []PlaneIInv
  BY InvariantInit, InvariantNext, PTL DEF PlaneSpec

\* A run whose request waits or is worked on has the lease, and so has the run that
\* stopped the injector's container, whatever was read back from the log and whoever
\* died - unless the stop landed after its run had been reported as failed.
THEOREM ControlPlaneLabIsLeased == PlaneSpec => []LabIsLeased
  BY ControlPlaneInvariant, InvariantReads, PTL

\* Whoever has the lease has somebody to give it back, unless the run was lost in
\* one of the ways the model names or the log is torn.
THEOREM ControlPlaneLeaseHasKeeper == PlaneSpec => []LeaseHasKeeper
  BY ControlPlaneInvariant, InvariantReads, PTL

=============================================================================
