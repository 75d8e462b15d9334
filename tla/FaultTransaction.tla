--------------------------- MODULE FaultTransaction ---------------------------
(***************************************************************************)
(* The journalled fault transaction of src/rca_investigation/faults_v3.py, *)
(* its two callers (the live controller and the raw capture schedule) and  *)
(* the recovery command, against a lab whose commands may fail, time out   *)
(* or take effect late.                                                    *)
(*                                                                         *)
(* "Caller holds the shared lab lease throughout injection and recovery":  *)
(* one caller runs at a time here; module LabOwnership models the lease.   *)
(* A caller may die at any step.  The journal file is written atomically   *)
(* (dataset.atomic_json) and survives; the transaction object does not.    *)
(***************************************************************************)
EXTENDS Naturals, Sequences

CONSTANTS
  StopTargets,    \* containers a scenario stops
  CpuHelpers,     \* leased CPU helper processes
  MemoryHelpers,  \* leased memory helper processes
  ProxyPaths,     \* proxied paths a scenario delays
  Scenarios,      \* sequences of components, in the order of SCENARIOS
  Owner,          \* transaction identities (fresh UUIDs)
  NoOwner,        \* no fault in effect
  NoDoc,          \* no journal file, no transaction object
  LateCommands,   \* may a timed out or detached command take effect later?
  MaxCrashes      \* bound on the number of times a caller dies

Helpers   == CpuHelpers \cup MemoryHelpers
Component == StopTargets \cup Helpers \cup ProxyPaths

\* cause_set admits atomic causes and one pair, so a scenario has at most two
\* components.
ASSUME ConstantsAssumption ==
  /\ Scenarios \subseteq Seq(Component)
  /\ \A s \in Scenarios : Len(s) <= 2
  /\ NoOwner \notin Owner
  /\ LateCommands \in BOOLEAN
  /\ MaxCrashes \in Nat

VARIABLES
  journal,    \* shared/blocked-lab.json: a Doc, or NoDoc
  tx,         \* FaultTransaction.state of the running caller, or NoDoc
  plan,       \* the mechanisms inject() has ordered
  pc,         \* where the caller is
  cursor,     \* row of recover()'s loop over reversed components
  final,      \* is this recover() the caller's last, in its finally block?
  fault,      \* fault[c]: the transaction whose fault is in effect on c
  inflight,   \* injection commands that may still take effect
  overtaken,  \* components whose cleanup passed while an injection of them
              \* was in flight
  crashes     \* how many times a caller has died

vars == <<journal, tx, plan, pc, cursor, final, fault, inflight, overtaken, crashes>>
lab  == <<fault, inflight, overtaken>>

Row == [comp    : Component,
        status  : {"INTENT", "ACTIVE"},
        cleanup : {"none", "failed", "passed"}]

Doc == [owner : Owner, components : Seq(Row), recovered : BOOLEAN]

ASSUME NoDocAssumption == NoDoc \notin Doc

PCs == {"idle", "inject", "row", "command", "ack", "active",
        "recover", "record", "health", "confirm", "unlink"}

-----------------------------------------------------------------------------
(* The lab and the journal.                                                *)

\* An injection command of c has been sent and may still take effect.
Pending(c) == \E o \in Owner : <<c, o>> \in inflight

AllRunning == \A c \in StopTargets : fault[c] = NoOwner

\* save() refuses to overwrite the journal of another owner.
CanSaveAlways(doc) == TRUE
CanSave(doc) == journal # NoDoc => journal.owner = doc.owner

\* doc has a row that recover() will still try to clean up.
CoveredBy(doc, c) ==
  \E k \in 1..Len(doc.components) :
    doc.components[k].comp = c /\ doc.components[k].cleanup # "passed"

FreshAnonymous(o) == [owner |-> NoOwner, components |-> <<>>, recovered |-> FALSE]
Fresh(o) == [owner |-> o, components |-> <<>>, recovered |-> FALSE]

\* "CPU starts first so its owned lease exists before stopping the database."
Ordered(s) ==
  IF Len(s) = 2 /\ s[1] \notin CpuHelpers /\ s[2] \in CpuHelpers
  THEN <<s[2], s[1]>> ELSE s

Leave ==
  /\ pc' = "idle" /\ tx' = NoDoc
  /\ plan' = <<>> /\ cursor' = 0 /\ final' = FALSE

\* Run recover() on the rows of doc; last says whether the caller's finally
\* block runs it (its failure then ends the caller) or something before it.
EnterRecover(doc, last) ==
  /\ pc' = "recover"
  /\ tx' = doc
  /\ cursor' = Len(doc.components)
  /\ final' = last
  /\ UNCHANGED plan

\* A recover() before the finally block is followed by the finally block's,
\* whether it returned or raised; when that one raises the caller ends and the
\* journal stays.
FinallyOrLeave(doc) ==
  IF final THEN Leave ELSE EnterRecover(doc, TRUE)

\* save() followed by the rest of the step, or the exception save() raises.
SaveThen(doc, Continue, OnForeign) ==
  \/ CanSave(doc) /\ journal' = doc /\ Continue
  \/ ~CanSave(doc) /\ UNCHANGED journal /\ OnForeign

-----------------------------------------------------------------------------
Init ==
  /\ journal = NoDoc /\ tx = NoDoc /\ plan = <<>>
  /\ pc = "idle" /\ cursor = 0 /\ final = FALSE
  /\ fault = [c \in Component |-> NoOwner]
  /\ inflight = {} /\ overtaken = {} /\ crashes = 0

\* A caller constructs its transaction with a fresh UUID.  Its lease was taken
\* by capture_lease, whose check for a journal precedes the lock it takes, so
\* a journal may be there.
Begin(o, s) ==
  /\ pc = "idle"
  /\ \A c \in Component : fault[c] # o /\ <<c, o>> \notin inflight
  /\ journal # NoDoc => journal.owner # o
  /\ tx' = Fresh(o) /\ plan' = Ordered(s) /\ pc' = "inject" /\ final' = FALSE
  /\ UNCHANGED <<journal, cursor, lab, crashes>>

\* inject(): an existing journal, a component that is not running, or a failing
\* status command raises before the try block; the caller's finally follows.
InjectRefused ==
  /\ pc = "inject"
  /\ EnterRecover(tx, TRUE)
  /\ UNCHANGED <<journal, lab, crashes>>

InjectStart ==
  /\ pc = "inject"
  /\ journal = NoDoc
  /\ AllRunning
  /\ pc' = "row"
  /\ UNCHANGED <<journal, tx, plan, cursor, final, lab, crashes>>

\* The component inject()'s loop is at.
Current == plan[Len(tx.components) + 1]
MoreRows == Len(tx.components) < Len(plan)
LastRow == Len(tx.components)

\* Measuring the memory margin or reading the proxy may fail, and a delay that
\* is already there is refused; the row is not appended.
RowRefused ==
  /\ pc = "row" /\ MoreRows
  /\ Current \in MemoryHelpers \cup ProxyPaths
  /\ EnterRecover(tx, FALSE)
  /\ UNCHANGED <<journal, lab, crashes>>

\* The intent row is on disk before the command runs.
AppendRowUnsaved ==
  /\ pc = "row" /\ MoreRows
  /\ Current \in ProxyPaths => fault[Current] = NoOwner
  /\ tx' = [tx EXCEPT !.components =
              Append(@, [comp |-> Current, status |-> "INTENT", cleanup |-> "none"])]
  /\ pc' = "command"
  /\ UNCHANGED <<journal, plan, cursor, final, lab, crashes>>

AppendRow ==
  /\ pc = "row" /\ MoreRows
  /\ Current \in ProxyPaths => fault[Current] = NoOwner
  /\ LET doc == [tx EXCEPT !.components =
                   Append(@, [comp |-> Current, status |-> "INTENT", cleanup |-> "none"])]
     IN  SaveThen(doc,
                  tx' = doc /\ pc' = "command" /\ UNCHANGED <<plan, cursor, final>>,
                  EnterRecover(doc, FALSE))
  /\ UNCHANGED <<lab, crashes>>

\* The injection command returned with its effect in place.  Containers must
\* be running and a helper's pid file absent for it to have one.
CommandApplied ==
  /\ pc = "command"
  /\ LET c == tx.components[LastRow].comp
     IN  /\ fault[c] = NoOwner
         /\ fault' = [fault EXCEPT ![c] = tx.owner]
  /\ pc' = "ack"
  /\ UNCHANGED <<journal, tx, plan, cursor, final, inflight, overtaken, crashes>>

\* "docker exec -d" returned: the helper comes up later or, when its pid file
\* exists, exits at once.
CommandDetached ==
  /\ pc = "command"
  /\ LET c == tx.components[LastRow].comp
     IN  /\ c \in Helpers
         /\ \/ inflight' = inflight
            \/ LateCommands /\ inflight' = inflight \cup {<<c, tx.owner>>}
  /\ pc' = "ack"
  /\ UNCHANGED <<journal, tx, plan, cursor, final, fault, overtaken, crashes>>

\* The injection command raised: refused, failed, or timed out after 15 seconds
\* with its effect absent, in place, or (LateCommands) still to come.
CommandRaised ==
  /\ pc = "command"
  /\ LET c == tx.components[LastRow].comp
     IN  \/ UNCHANGED <<fault, inflight>>
         \/ /\ fault[c] = NoOwner
            /\ fault' = [fault EXCEPT ![c] = tx.owner]
            /\ UNCHANGED inflight
         \/ /\ LateCommands
            /\ inflight' = inflight \cup {<<c, tx.owner>>}
            /\ UNCHANGED fault
  /\ EnterRecover(tx, FALSE)
  /\ UNCHANGED <<journal, overtaken, crashes>>

\* The row becomes ACTIVE and is saved.
Acknowledge ==
  /\ pc = "ack"
  /\ LET doc == [tx EXCEPT !.components[LastRow].status = "ACTIVE"]
     IN  SaveThen(doc,
                  tx' = doc /\ pc' = "row" /\ UNCHANGED <<plan, cursor, final>>,
                  EnterRecover(doc, FALSE))
  /\ UNCHANGED <<lab, crashes>>

\* Every component of the scenario is injected; inject() returns.
InjectDone ==
  /\ pc = "row" /\ ~MoreRows
  /\ pc' = "active"
  /\ UNCHANGED <<journal, tx, plan, cursor, final, lab, crashes>>

\* The caller has observed (or failed to): an agent repair runs recover() before
\* the finally block does, any other outcome goes to the finally block.
ObserveDone ==
  /\ pc = "active"
  /\ \E repair \in BOOLEAN : EnterRecover(tx, ~repair)
  /\ UNCHANGED <<journal, lab, crashes>>

\* The live controller's traffic threads did not stop: its finally block raises
\* before recover().
Abandon ==
  /\ pc = "active"
  /\ Leave
  /\ UNCHANGED <<journal, lab, crashes>>

-----------------------------------------------------------------------------
(* recover()                                                               *)

SkipRowUnacknowledged ==
  /\ pc = "recover" /\ cursor > 0
  /\ tx.components[cursor].cleanup = "passed" \/ tx.components[cursor].status = "INTENT"
  /\ cursor' = cursor - 1
  /\ UNCHANGED <<journal, tx, plan, pc, final, lab, crashes>>

\* A row whose cleanup passed is not cleaned again.
SkipRow ==
  /\ pc = "recover" /\ cursor > 0
  /\ tx.components[cursor].cleanup = "passed"
  /\ cursor' = cursor - 1
  /\ UNCHANGED <<journal, tx, plan, pc, final, lab, crashes>>

CleanRowOnce(outcome) ==
  /\ pc = "recover" /\ cursor > 0
  /\ tx.components[cursor].cleanup # "passed"
  /\ tx' = [tx EXCEPT !.components[cursor].cleanup = IF @ = "failed" THEN @ ELSE outcome]
  /\ pc' = "record"
  /\ UNCHANGED <<journal, plan, cursor, final, inflight, crashes>>

\* One cleanup command: docker start, the proxy reset, or the helper's stop,
\* which succeeds when there is no pid file and refuses another lease.
CleanRow(outcome) ==
  /\ pc = "recover" /\ cursor > 0
  /\ tx.components[cursor].cleanup # "passed"
  /\ tx' = [tx EXCEPT !.components[cursor].cleanup = outcome]
  /\ pc' = "record"
  /\ UNCHANGED <<journal, plan, cursor, final, inflight, crashes>>

CleanupPassed ==
  /\ CleanRow("passed")
  /\ LET c == tx.components[cursor].comp
     IN  /\ c \in Helpers => fault[c] \in {NoOwner, tx.owner}
         /\ fault' = [fault EXCEPT ![c] = NoOwner]
         /\ overtaken' = IF Pending(c) THEN overtaken \cup {c} ELSE overtaken \ {c}

\* The command failed, or timed out after its effect.
CleanupFailed ==
  /\ CleanRow("failed")
  /\ LET c == tx.components[cursor].comp
     IN  \/ UNCHANGED fault
         \/ /\ c \in Helpers => fault[c] \in {NoOwner, tx.owner}
            /\ fault' = [fault EXCEPT ![c] = NoOwner]
  /\ UNCHANGED overtaken

\* The outcome is saved and the loop goes on whatever it was.
RecordCleanupStopsEarly ==
  /\ pc = "record"
  /\ SaveThen(tx,
              /\ cursor' = 0
              /\ pc' = "recover"
              /\ UNCHANGED <<tx, plan, final>>,
              FinallyOrLeave(tx))
  /\ UNCHANGED <<lab, crashes>>

RecordCleanup ==
  /\ pc = "record"
  /\ SaveThen(tx,
              /\ cursor' = cursor - 1
              /\ pc' = "recover"
              /\ UNCHANGED <<tx, plan, final>>,
              FinallyOrLeave(tx))
  /\ UNCHANGED <<lab, crashes>>

\* No cleanup that this loop attempted has failed.
NoFailures == \A k \in 1..Len(tx.components) : tx.components[k].cleanup # "failed"

\* The loop is over: recovered is set and saved; a failure raises.  A recover()
\* that is not the caller's last is followed by the finally block's.
RecoverEnd ==
  /\ pc = "recover" /\ cursor = 0
  /\ LET doc == [tx EXCEPT !.recovered = NoFailures]
     IN  SaveThen(doc,
                  IF NoFailures /\ final
                  THEN tx' = doc /\ pc' = "health" /\ UNCHANGED <<plan, cursor, final>>
                  ELSE FinallyOrLeave(doc),
                  FinallyOrLeave(doc))
  /\ UNCHANGED <<lab, crashes>>

-----------------------------------------------------------------------------
(* Verified recovery, and the end of the transaction.                      *)

\* The workload and memory checks; the memory check covers the rows of this
\* transaction.  Neither caller looks for a CPU helper.
Healthy ==
  /\ AllRunning
  /\ \A c \in MemoryHelpers :
       (\E k \in 1..Len(tx.components) : tx.components[k].comp = c) => fault[c] = NoOwner

HealthPassed ==
  /\ pc = "health" /\ Healthy
  /\ pc' = "confirm"
  /\ UNCHANGED <<journal, tx, plan, cursor, final, lab, crashes>>

\* The checks did not pass before their deadline.
HealthFailed ==
  /\ pc = "health"
  /\ Leave
  /\ UNCHANGED <<journal, lab, crashes>>

\* confirm_recovery(): every state is read again before the confirmation is
\* saved.
Confirm ==
  /\ pc = "confirm"
  /\ \/ /\ tx.recovered /\ AllRunning
        /\ SaveThen(tx, pc' = "unlink" /\ UNCHANGED <<tx, plan, cursor, final>>, Leave)
     \/ Leave /\ UNCHANGED journal
  /\ UNCHANGED <<lab, crashes>>

Unlink ==
  /\ pc = "unlink"
  /\ journal' = NoDoc
  /\ Leave
  /\ UNCHANGED <<lab, crashes>>

\* restore(): the recovery command rebuilds the transaction from the journal
\* and runs recover() once.
Restore ==
  /\ pc = "idle" /\ journal # NoDoc
  /\ EnterRecover(journal, TRUE)
  /\ UNCHANGED <<journal, lab, crashes>>

-----------------------------------------------------------------------------
(* The environment.                                                        *)

\* A caller dies; the docker client it was waiting for may outlive it.
Crash ==
  /\ pc # "idle" /\ crashes < MaxCrashes
  /\ crashes' = crashes + 1
  /\ \/ UNCHANGED inflight
     \/ /\ pc = "command" /\ LateCommands
        /\ inflight' = inflight \cup {<<tx.components[LastRow].comp, tx.owner>>}
  /\ Leave
  /\ UNCHANGED <<journal, fault, overtaken>>

\* A command in flight takes effect, or never does.
LateEffect(c, o) ==
  /\ <<c, o>> \in inflight
  /\ inflight' = inflight \ {<<c, o>>}
  /\ \/ fault[c] = NoOwner /\ fault' = [fault EXCEPT ![c] = o]
     \/ UNCHANGED fault
  /\ UNCHANGED <<journal, tx, plan, pc, cursor, final, overtaken, crashes>>

\* Helpers exit after 210 seconds and the proxy drops its delay after 240.
Expire(c) ==
  /\ c \in Helpers \cup ProxyPaths
  /\ fault[c] # NoOwner
  /\ fault' = [fault EXCEPT ![c] = NoOwner]
  /\ UNCHANGED <<journal, tx, plan, pc, cursor, final, inflight, overtaken, crashes>>

Inject  == \/ InjectRefused \/ InjectStart \/ RowRefused \/ AppendRow
           \/ CommandApplied \/ CommandDetached \/ CommandRaised
           \/ Acknowledge \/ InjectDone
Recover == \/ SkipRow \/ CleanupPassed \/ CleanupFailed \/ RecordCleanup \/ RecoverEnd
Verify  == HealthPassed \/ HealthFailed \/ Confirm \/ Unlink
Caller  == Inject \/ ObserveDone \/ Abandon \/ Recover \/ Verify

Next ==
  \/ \E o \in Owner, s \in Scenarios : Begin(o, s)
  \/ Caller
  \/ Restore
  \/ Crash
  \/ \E c \in Component, o \in Owner : LateEffect(c, o)
  \/ \E c \in Component : Expire(c)

Spec == Init /\ [][Next]_vars

\* The operator re-runs recovery while the block stands, every step of a caller
\* that can be taken is taken, and commands and checks that keep being tried
\* eventually work.
Fairness ==
  /\ WF_vars(Caller)
  /\ SF_vars(Restore)
  /\ SF_vars(CleanupPassed)
  /\ SF_vars(HealthPassed)
  /\ SF_vars(Confirm /\ pc' = "unlink")
  /\ \A c \in Component : WF_vars(Expire(c))

FairSpec == Spec /\ Fairness

-----------------------------------------------------------------------------
(* Properties.                                                             *)

TypeOK ==
  /\ journal \in Doc \cup {NoDoc}
  /\ tx \in Doc \cup {NoDoc}
  /\ plan \in Seq(Component)
  /\ pc \in PCs
  /\ cursor \in Nat
  /\ final \in BOOLEAN
  /\ fault \in [Component -> Owner \cup {NoOwner}]
  /\ inflight \subseteq Component \X Owner
  /\ overtaken \subseteq Component
  /\ crashes \in 0..MaxCrashes

\* A fault is in effect on c, or may still come into effect.
Hazard(c) == fault[c] # NoOwner \/ Pending(c)

\* Whatever dies or fails, a fault the lab carries has a row in the journal on
\* disk that recovery will still clean, unless the cleanup of its component
\* passed while the injection command itself was in flight.
JournalCovers ==
  \A c \in Component :
    Hazard(c) => c \in overtaken \/ (journal # NoDoc /\ CoveredBy(journal, c))

\* "Every component cleanup is attempted even after another cleanup fails": no
\* row behind recover()'s cursor is left without an attempt.
EveryCleanupAttempted ==
  pc = "recover" =>
    \A k \in 1..Len(tx.components) : k > cursor => tx.components[k].cleanup # "none"

\* Recovery is verified and the block lifted only after the cleanup of every
\* row has passed; a flag left by an earlier recovery does not do.
ConfirmedMeansClean ==
  pc \in {"health", "confirm", "unlink"} =>
    /\ tx.recovered
    /\ \A k \in 1..Len(tx.components) : tx.components[k].cleanup = "passed"

\* doc keeps the rows of old, in order, and none of its passed cleanups is
\* taken back.
Extends(doc, old) ==
  /\ Len(old.components) <= Len(doc.components)
  /\ \A k \in 1..Len(old.components) :
       /\ doc.components[k].comp = old.components[k].comp
       /\ old.components[k].cleanup = "passed" => doc.components[k].cleanup = "passed"

\* The journal of one owner is replaced by the same owner's later state or
\* removed by its transaction, never overwritten or removed by another caller,
\* and its rows and passed cleanups are never lost.
JournalOnlyAdvances ==
  [][journal # NoDoc /\ journal' # journal =>
       /\ tx # NoDoc /\ tx.owner = journal.owner
       /\ journal' # NoDoc => journal'.owner = journal.owner /\ Extends(journal', journal)]_vars

-----------------------------------------------------------------------------
(* The inductive invariant.                                                *)

\* A transaction object exists exactly while a caller is at work.
AtWork == pc # "idle" <=> tx # NoDoc

\* While inject() runs nothing is recorded that is not also on disk, and no
\* command runs before its row is.
IntentOnDisk ==
  /\ pc = "inject" => tx.components = <<>>
  /\ pc \in {"row", "command", "ack", "active"} =>
       journal = tx \/ (journal = NoDoc /\ tx.components = <<>>)
  /\ pc \in {"command", "ack"} =>
       /\ journal = tx
       /\ LastRow > 0
       /\ tx.components[LastRow].cleanup = "none"

\* recover()'s cursor, and the attempts behind it.
CursorInv ==
  /\ pc = "recover" => cursor <= Len(tx.components)
  /\ pc = "record"  => cursor \in 1..Len(tx.components)
  /\ pc \in {"recover", "record"} =>
       \A k \in 1..Len(tx.components) :
         (k > cursor \/ (pc = "record" /\ k = cursor)) => tx.components[k].cleanup # "none"

\* From the end of recover() on, memory and disk agree.
VerifiedOnDisk == pc \in {"health", "confirm", "unlink"} => journal = tx

\* The transaction object is ahead of its own journal, never behind it.
AheadOfDisk ==
  tx # NoDoc /\ journal # NoDoc /\ tx.owner = journal.owner => Extends(tx, journal)

\* What JournalCovers says of the disk holds of the object that will replace it.
MemoryCovers ==
  tx # NoDoc /\ journal # NoDoc /\ tx.owner = journal.owner =>
    \A c \in Component : Hazard(c) => c \in overtaken \/ CoveredBy(tx, c)

IInv ==
  /\ TypeOK /\ AtWork
  /\ JournalCovers /\ MemoryCovers
  /\ IntentOnDisk /\ CursorInv /\ VerifiedOnDisk /\ AheadOfDisk
  /\ ConfirmedMeansClean

\* The gate this transaction implements: it answers for every hazard but those
\* of a command that was still in flight when its cleanup passed.
Dirty == {c \in Component : Hazard(c) /\ c \notin overtaken}

Gate == INSTANCE LabGate WITH
  blocked <- journal # NoDoc,
  dirty   <- Dirty

GateSpec == Gate!Spec

\* A block does not stand for ever: recovery is re-run until it succeeds, unless
\* a command was overtaken by the cleanup that was to undo it.
BlockIsLifted == journal # NoDoc ~> (journal = NoDoc \/ overtaken # {})

\* "The block survives failures and can be recovered from the same exact
\* identities and leases": while the block stands and nobody is at work, every
\* fault in effect is one a new recovery will clean.
BlockIsRecoverable ==
  pc = "idle" /\ journal # NoDoc =>
    \A c \in Component : fault[c] # NoOwner => CoveredBy(journal, c)
=============================================================================
