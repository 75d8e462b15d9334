------------------------------ MODULE Controller ------------------------------
(***************************************************************************)
(* The live controller of src/rca_live_v3: serve() takes request files in  *)
(* order and runs one incident for each "run": baseline, rolling traffic,  *)
(* injection, observation, quiescence, repair, and a finally block that    *)
(* cleans up, verifies, lifts the block and publishes the receipt.  Every  *)
(* step may raise; exceptions are told apart only by whether serve()       *)
(* catches them.  The process may die at any step and is started again;    *)
(* its traffic threads are not daemons, so they outlive a serve() that     *)
(* returns and die with a process that is killed.                          *)
(*                                                                         *)
(* The transaction is FaultTransaction seen from outside (one journal, one *)
(* fault), the locks are LabOwnership's: one server at a time.             *)
(* Sources: rca_live_v3/{controller,early,bus,cli}.py.                     *)
(***************************************************************************)
EXTENDS Naturals, SequencesExt

CONSTANTS
  Requests,   \* request ids (fresh UUIDs)
  Command,    \* Command[r]: "run", "policy", "stop", or "bad"
  Healthy,    \* requests whose case injects nothing
  Early,      \* collection mode: rolling traffic (early) or windows
  Stuck,      \* may a traffic thread outlast the 40 second join?
  MaxDeaths,  \* bound on deaths of the serving process
  NoOne       \* no request, no journal, no fault

ASSUME ControllerAssumption ==
  /\ Command \in [Requests -> {"run", "policy", "stop", "bad"}]
  /\ Healthy \subseteq Requests /\ NoOne \notin Requests
  /\ Early \in BOOLEAN /\ Stuck \in BOOLEAN /\ MaxDeaths \in Nat

VARIABLES
  sent,     \* requests submitted so far
  queue,    \* files in output/pending, oldest first
  scan,     \* the rest of the sorted listing serve() is iterating over
  pc,       \* where the serving process is ("off": none is serving)
  item,     \* the request it runs
  exc,      \* the exception on its way out: "none", "caught", "uncaught"
  tx,       \* has _run constructed its transaction?
  stack,    \* the ExitStack: "empty", "open" (a collector is on it), "closed"
  traffic,  \* incidents with live collector threads in the serving process
  orphans,  \* ... in processes whose serve() has returned
  journal,  \* whose transaction shared/blocked-lab.json holds, or NoOne
  fault,    \* whose fault the lab carries, or NoOne
  draft,    \* the receipt in memory
  receipt,  \* receipt[r]: the receipt on disk
  results,  \* requests whose "result" event was emitted
  runs,     \* runs[r]: how often an incident was started for r
  rec,      \* the recovery command: "off", "recovering", "healed"
  deaths

bus     == <<sent, queue, scan>>
lab     == <<journal, fault, rec>>
threads == <<stack, traffic, orphans>>
record  == <<draft, receipt, results, runs>>
vars == <<bus, pc, item, exc, tx, threads, lab, record, deaths>>

Status  == {"STARTED", "COMPLETE", "FAILED", "RECOVERY_FAILED"}
Receipt == [status : Status, repaired : BOOLEAN, resolved : BOOLEAN]
NoReceipt == [status |-> "NONE"]
Fresh == [status |-> "STARTED", repaired |-> FALSE, resolved |-> FALSE]

Incident == {"baseline", "enter", "inject", "strike", "observe", "quiesce", "decide",
             "repair", "unwind", "cleanup", "verify", "confirm", "clear", "publish"}
PCs == {"off", "idle", "next", "admit", "report"} \cup Incident

LiveTraffic == traffic \cup orphans

TypeOK ==
  /\ sent \subseteq Requests
  /\ queue \in Seq(Requests) /\ scan \in Seq(Requests)
  /\ pc \in PCs
  /\ item \in Requests \cup {NoOne}
  /\ exc \in {"none", "caught", "uncaught"}
  /\ tx \in BOOLEAN
  /\ stack \in {"empty", "open", "closed"}
  /\ traffic \subseteq Requests /\ orphans \subseteq Requests
  /\ journal \in Requests \cup {NoOne} /\ fault \in Requests \cup {NoOne}
  /\ draft \in Receipt
  /\ receipt \in [Requests -> Receipt \cup {NoReceipt}]
  /\ results \subseteq Requests
  /\ runs \in [Requests -> Nat]
  /\ rec \in {"off", "recovering", "healed"}
  /\ deaths \in 0..MaxDeaths

Init ==
  /\ sent = {} /\ queue = <<>> /\ scan = <<>>
  /\ pc = "off" /\ item = NoOne /\ exc = "none" /\ tx = FALSE
  /\ stack = "empty" /\ traffic = {} /\ orphans = {}
  /\ journal = NoOne /\ fault = NoOne /\ rec = "off"
  /\ draft = Fresh
  /\ receipt = [r \in Requests |-> NoReceipt]
  /\ results = {}
  /\ runs = [r \in Requests |-> 0]
  /\ deaths = 0

-----------------------------------------------------------------------------
(* The bus and serve().                                                    *)

\* request(): the file appears whole (atomic_json) and is the youngest.
Submit(r) ==
  /\ r \notin sent
  /\ sent' = sent \cup {r} /\ queue' = Append(queue, r)
  /\ UNCHANGED <<scan, pc, item, exc, tx, threads, lab, record, deaths>>

Start ==
  /\ pc = "off"
  /\ pc' = "idle"
  /\ UNCHANGED <<bus, item, exc, tx, threads, lab, record, deaths>>

\* serve() returns or lets an exception out.  The process lives on as long as
\* its traffic threads do.
LeaveServe ==
  /\ pc' = "off" /\ scan' = <<>> /\ item' = NoOne /\ exc' = "none" /\ tx' = FALSE
  /\ stack' = "empty" /\ draft' = Fresh
  /\ orphans' = orphans \cup traffic /\ traffic' = {}

\* The listing is made once; later files wait for the next one.
List ==
  /\ pc = "idle"
  /\ scan' = queue /\ pc' = "next"
  /\ UNCHANGED <<sent, queue, item, exc, tx, threads, lab, record, deaths>>

DrainedForGood ==
  /\ pc = "next" /\ scan = <<>>
  /\ UNCHANGED vars

Drained ==
  /\ pc = "next" /\ scan = <<>>
  /\ pc' = "idle"
  /\ UNCHANGED <<bus, item, exc, tx, threads, lab, record, deaths>>

\* A request that does not validate raises outside any try block, and its file
\* stays.
Reject ==
  /\ pc = "next" /\ scan # <<>> /\ Command[Head(scan)] = "bad"
  /\ LeaveServe
  /\ UNCHANGED <<sent, queue, lab, receipt, results, runs, deaths>>

\* The file is unlinked before its command is carried out.
Unlink ==
  /\ \E k \in DOMAIN queue : queue[k] = Head(scan) /\ queue' = RemoveAt(queue, k)
  /\ sent' = sent

TakeStop ==
  /\ pc = "next" /\ scan # <<>> /\ Command[Head(scan)] = "stop"
  /\ Unlink /\ LeaveServe
  /\ UNCHANGED <<lab, receipt, results, runs, deaths>>

TakePolicy ==
  /\ pc = "next" /\ scan # <<>> /\ Command[Head(scan)] = "policy"
  /\ Unlink /\ scan' = Tail(scan)
  /\ UNCHANGED <<pc, item, exc, tx, threads, lab, record, deaths>>

TakeRun ==
  /\ pc = "next" /\ scan # <<>> /\ Command[Head(scan)] = "run"
  /\ Unlink /\ scan' = Tail(scan)
  /\ item' = Head(scan) /\ pc' = "admit"
  /\ UNCHANGED <<exc, tx, threads, lab, record, deaths>>

\* run(): a foreign controller, the journal, a lock, the legacy markers or a
\* registry that does not resolve refuses the incident.
AdmitRefused ==
  /\ pc = "admit"
  /\ exc' \in {"caught", "uncaught"} /\ pc' = "report"
  /\ UNCHANGED <<bus, item, tx, threads, lab, record, deaths>>

\* capture_lease is taken, a receipt is on disk.
Admitted ==
  /\ pc = "admit" /\ journal = NoOne /\ rec = "off"
  /\ draft' = Fresh
  /\ receipt' = [receipt EXCEPT ![item] = Fresh]
  /\ runs' = [runs EXCEPT ![item] = @ + 1]
  /\ tx' = FALSE /\ stack' = "empty" /\ pc' = "baseline"
  /\ UNCHANGED <<bus, item, exc, traffic, orphans, lab, results, deaths>>

-----------------------------------------------------------------------------
(* The try block of _run.                                                  *)

\* except BaseException: the receipt is FAILED and the finally block runs.
Raise ==
  /\ exc' \in {"caught", "uncaught"}
  /\ draft' = [draft EXCEPT !.status = "FAILED"]
  /\ pc' = "unwind"

BaselinePassed ==
  /\ pc = "baseline"
  /\ pc' = IF Early THEN "enter" ELSE "inject"
  /\ UNCHANGED <<bus, item, exc, tx, threads, lab, record, deaths>>

BaselineFailed ==
  /\ pc = "baseline" /\ Raise
  /\ UNCHANGED <<bus, item, tx, threads, lab, receipt, results, runs, deaths>>

\* The collector is on the stack and its four threads run.
EnterCollector ==
  /\ pc = "enter"
  /\ stack' = "open" /\ traffic' = traffic \cup {item} /\ pc' = "inject"
  /\ UNCHANGED <<bus, item, exc, tx, orphans, lab, record, deaths>>

\* The statistics stream or a thread does not start: __enter__ stops what it
\* started, and nothing is on the stack.
EnterFailed ==
  /\ pc = "enter" /\ Raise
  /\ traffic' \in {traffic} \cup (IF Stuck THEN {traffic \cup {item}} ELSE {})
  /\ UNCHANGED <<bus, item, tx, stack, orphans, lab, receipt, results, runs, deaths>>

\* inject() refuses before its first save.
InjectRefused ==
  /\ pc = "inject"
  /\ tx' = TRUE /\ Raise
  /\ UNCHANGED <<bus, item, threads, lab, receipt, results, runs, deaths>>

\* A healthy case saves no row.
InjectNothing ==
  /\ pc = "inject" /\ item \in Healthy
  /\ tx' = TRUE /\ pc' = "observe"
  /\ UNCHANGED <<bus, item, exc, threads, lab, record, deaths>>

InjectIntentUnsaved ==
  /\ pc = "inject" /\ item \notin Healthy
  /\ tx' = TRUE /\ pc' = "strike"
  /\ UNCHANGED <<bus, item, exc, threads, lab, record, deaths>>

\* The journal is on disk before the first command.
InjectIntent ==
  /\ pc = "inject" /\ item \notin Healthy /\ journal = NoOne
  /\ tx' = TRUE /\ journal' = item /\ pc' = "strike"
  /\ UNCHANGED <<bus, item, exc, threads, fault, rec, record, deaths>>

Strike ==
  /\ pc = "strike"
  /\ fault' = item /\ pc' = "observe"
  /\ UNCHANGED <<bus, item, exc, tx, threads, journal, rec, record, deaths>>

\* An injection that fails is undone, or not, by inject() itself.
StrikeFailed ==
  /\ pc = "strike" /\ Raise
  /\ fault' \in {fault, item}
  /\ UNCHANGED <<bus, item, tx, threads, journal, rec, receipt, results, runs, deaths>>

Observed ==
  /\ pc = "observe"
  /\ pc' = "quiesce"
  /\ UNCHANGED <<bus, item, exc, tx, threads, lab, record, deaths>>

\* A dead collector thread, the graph, the policy, a probe or a file raises.
ObserveFailed ==
  /\ pc \in {"observe", "decide"} /\ Raise
  /\ UNCHANGED <<bus, item, tx, threads, lab, receipt, results, runs, deaths>>

\* stack.close(): the threads are told to stop and joined.  The exit callback is
\* popped before it runs, so a second close() does nothing.
Joined ==
  /\ stack' = IF stack = "open" THEN "closed" ELSE stack
  /\ traffic' = IF stack = "open" THEN traffic \ {item} ELSE traffic

QuiesceSkipped ==
  /\ pc = "quiesce"
  /\ pc' = "decide"
  /\ UNCHANGED <<bus, item, exc, tx, threads, lab, record, deaths>>

Quiesce ==
  /\ pc = "quiesce" /\ Joined
  /\ pc' = "decide"
  /\ UNCHANGED <<bus, item, exc, tx, orphans, lab, record, deaths>>

\* A thread outlasts the join, or the statistics stream fails to close.
QuiesceFailed ==
  /\ pc = "quiesce" /\ stack = "open" /\ Raise
  /\ stack' = "closed"
  /\ traffic' \in {traffic \ {item}} \cup (IF Stuck THEN {traffic} ELSE {})
  /\ UNCHANGED <<bus, item, tx, orphans, lab, receipt, results, runs, deaths>>

\* repair_supported needs an owned cause.
DecideRepair ==
  /\ pc = "decide" /\ item \notin Healthy
  /\ pc' = "repair"
  /\ UNCHANGED <<bus, item, exc, tx, threads, lab, record, deaths>>

DecideNoRepair ==
  /\ pc = "decide"
  /\ draft' = [draft EXCEPT !.status = "COMPLETE"]
  /\ pc' = "unwind"
  /\ UNCHANGED <<bus, item, exc, tx, threads, lab, receipt, results, runs, deaths>>

RepairResolves ==
  /\ pc = "repair"
  /\ fault' = NoOne
  /\ draft' = [status |-> "COMPLETE", repaired |-> TRUE, resolved |-> TRUE]
  /\ pc' = "unwind"
  /\ UNCHANGED <<bus, item, exc, tx, threads, journal, rec, receipt, results, runs, deaths>>

\* The agent's repair is recover() on the transaction.
Repair ==
  /\ pc = "repair"
  /\ fault' = NoOne
  /\ draft' = [draft EXCEPT !.status = "COMPLETE", !.repaired = TRUE]
  /\ pc' = "unwind"
  /\ UNCHANGED <<bus, item, exc, tx, threads, journal, rec, receipt, results, runs, deaths>>

RepairFailed ==
  /\ pc = "repair" /\ Raise
  /\ fault' \in {fault, NoOne}
  /\ UNCHANGED <<bus, item, tx, threads, journal, rec, receipt, results, runs, deaths>>

-----------------------------------------------------------------------------
(* The finally block of _run.                                              *)

\* except BaseException in the finally block: the receipt says so, and a
\* transaction that was never constructed is made and saved to block the lab.
\* One that was constructed is not saved here.
RecoveryRaises ==
  /\ exc' \in {"caught", "uncaught"}
  /\ draft' = [draft EXCEPT !.status = "RECOVERY_FAILED"]
  /\ tx' = TRUE
  /\ journal' = IF tx THEN journal ELSE item
  /\ pc' = "publish"

\* close() again, then the check that the collector's threads are gone, which
\* is skipped when there is no collector.
Unwind ==
  /\ pc = "unwind" /\ Joined
  /\ stack = "closed" => item \notin traffic
  /\ pc' = IF tx THEN "cleanup" ELSE "verify"
  /\ UNCHANGED <<bus, item, exc, tx, orphans, lab, record, deaths>>

UnwindFailed ==
  /\ pc = "unwind" /\ RecoveryRaises
  /\ \/ /\ stack = "open" /\ stack' = "closed"
        /\ traffic' \in {traffic \ {item}} \cup (IF Stuck THEN {traffic} ELSE {})
     \/ /\ stack = "closed" /\ item \in traffic
        /\ UNCHANGED <<stack, traffic>>
  /\ UNCHANGED <<bus, item, orphans, fault, rec, receipt, results, runs, deaths>>

\* recover() saves its journal whatever comes of it.
Cleanup ==
  /\ pc = "cleanup" /\ journal \in {NoOne, item}
  /\ journal' = item /\ fault' = NoOne /\ pc' = "verify"
  /\ UNCHANGED <<bus, item, exc, tx, threads, rec, record, deaths>>

CleanupFailed ==
  /\ pc = "cleanup"
  /\ fault' \in {fault, NoOne}
  /\ exc' \in {"caught", "uncaught"}
  /\ draft' = [draft EXCEPT !.status = "RECOVERY_FAILED"]
  /\ journal' = IF journal = NoOne THEN item ELSE journal
  /\ pc' = "publish"
  /\ UNCHANGED <<bus, item, tx, threads, rec, receipt, results, runs, deaths>>

\* health(): five consecutive groups of fresh authentication, checkout and
\* shipping within 90 seconds.
Verified ==
  /\ pc = "verify"
  /\ pc' = IF tx THEN "confirm" ELSE "clear"
  /\ UNCHANGED <<bus, item, exc, tx, threads, lab, record, deaths>>

VerifyFailed ==
  /\ pc = "verify" /\ RecoveryRaises
  /\ UNCHANGED <<bus, item, threads, fault, rec, receipt, results, runs, deaths>>

Confirm ==
  /\ pc = "confirm"
  /\ journal' = NoOne /\ pc' = "clear"
  /\ UNCHANGED <<bus, item, exc, tx, threads, fault, rec, record, deaths>>

ConfirmFailed ==
  /\ pc = "confirm" /\ RecoveryRaises
  /\ UNCHANGED <<bus, item, threads, fault, rec, receipt, results, runs, deaths>>

\* graph.clear(), after the block is lifted; then the receipt is complete.
Clear ==
  /\ pc = "clear"
  /\ draft' = [draft EXCEPT !.resolved = draft.repaired]
  /\ pc' = "publish"
  /\ UNCHANGED <<bus, item, exc, tx, threads, lab, receipt, results, runs, deaths>>

ClearFailed ==
  /\ pc = "clear" /\ RecoveryRaises
  /\ UNCHANGED <<bus, item, threads, fault, rec, receipt, results, runs, deaths>>

\* The innermost finally: the receipt replaces the one that said STARTED, the
\* result is emitted, and the leases are released.
Publish ==
  /\ pc = "publish"
  /\ receipt' = [receipt EXCEPT ![item] = draft]
  /\ results' = results \cup {item}
  /\ pc' = IF exc = "none" THEN "next" ELSE "report"
  /\ item' = IF exc = "none" THEN NoOne ELSE item
  /\ UNCHANGED <<bus, exc, tx, threads, lab, draft, runs, deaths>>

\* serve()'s except clause: caught exceptions end the server only while the lab
\* is blocked, others always do.
Carry ==
  /\ pc = "report" /\ exc = "caught" /\ journal = NoOne
  /\ exc' = "none" /\ item' = NoOne /\ pc' = "next"
  /\ UNCHANGED <<bus, tx, threads, lab, record, deaths>>

Quit ==
  /\ pc = "report"
  /\ exc = "uncaught" \/ journal # NoOne
  /\ LeaveServe
  /\ UNCHANGED <<sent, queue, lab, receipt, results, runs, deaths>>

-----------------------------------------------------------------------------
(* The recovery command, the threads, death.                               *)

\* "live_v3.py recover" refuses while the server's lock names a live process.
RecoverBegin ==
  /\ rec = "off" /\ pc = "off" /\ journal # NoOne
  /\ rec' = "recovering"
  /\ UNCHANGED <<bus, pc, item, exc, tx, threads, journal, fault, record, deaths>>

RecoverHeals ==
  /\ rec = "recovering"
  /\ fault' = NoOne /\ rec' = "healed"
  /\ UNCHANGED <<bus, pc, item, exc, tx, threads, journal, record, deaths>>

RecoverFails ==
  /\ rec \in {"recovering", "healed"}
  /\ rec' = "off"
  /\ UNCHANGED <<bus, pc, item, exc, tx, threads, journal, fault, record, deaths>>

RecoverConfirms ==
  /\ rec = "healed"
  /\ journal' = NoOne /\ rec' = "off"
  /\ UNCHANGED <<bus, pc, item, exc, tx, threads, fault, record, deaths>>

\* The request a thread was waiting for returns and the thread sees the stop.
ThreadEnds(r) ==
  /\ r \in LiveTraffic
  /\ ~(r \in traffic /\ r = item /\ stack = "open")
  /\ traffic' = traffic \ {r} /\ orphans' = orphans \ {r}
  /\ UNCHANGED <<bus, pc, item, exc, tx, stack, lab, record, deaths>>

\* The serving process is killed, its threads with it.
Die ==
  /\ pc # "off" /\ deaths < MaxDeaths
  /\ deaths' = deaths + 1
  /\ pc' = "off" /\ scan' = <<>> /\ item' = NoOne /\ exc' = "none" /\ tx' = FALSE
  /\ stack' = "empty" /\ traffic' = {} /\ draft' = Fresh
  /\ UNCHANGED <<sent, queue, orphans, lab, receipt, results, runs>>

Serve == List \/ Drained \/ Reject \/ TakeStop \/ TakePolicy \/ TakeRun
Try == \/ AdmitRefused \/ Admitted \/ BaselinePassed \/ BaselineFailed
       \/ EnterCollector \/ EnterFailed \/ InjectRefused \/ InjectNothing
       \/ InjectIntent \/ Strike \/ StrikeFailed \/ Observed \/ ObserveFailed
       \/ Quiesce \/ QuiesceFailed \/ DecideRepair \/ DecideNoRepair
       \/ Repair \/ RepairFailed
Finally == \/ Unwind \/ UnwindFailed \/ Cleanup \/ CleanupFailed
           \/ Verified \/ VerifyFailed \/ Confirm \/ ConfirmFailed
           \/ Clear \/ ClearFailed \/ Publish \/ Carry \/ Quit
Recovery == RecoverBegin \/ RecoverHeals \/ RecoverFails \/ RecoverConfirms

Next ==
  \/ \E r \in Requests : Submit(r) \/ ThreadEnds(r)
  \/ Start \/ Serve \/ Try \/ Finally \/ Recovery \/ Die

Spec == Init /\ [][Next]_vars

\* The server runs and every call of it ends; an operator starts it again and
\* re-runs recovery, which succeeds when it is tried often enough.
Fairness ==
  /\ WF_vars(Serve) /\ WF_vars(Try) /\ WF_vars(Finally) /\ WF_vars(Start)
  /\ SF_vars(RecoverBegin) /\ SF_vars(RecoverHeals) /\ SF_vars(RecoverConfirms)

FairSpec == Spec /\ Fairness

-----------------------------------------------------------------------------
(* Properties.                                                             *)

\* "Quiesce independent traffic before repair and functional recovery checks":
\* components are repaired and cleaned up only when this incident's threads are
\* gone.
QuietRepair == pc \in {"repair", "cleanup"} => item \notin traffic

\* A request starts at most one incident, though the server may die while it is
\* at it and find its other files again.
AtMostOnce == \A r \in Requests : runs[r] <= 1

\* What a receipt says.  A final receipt other than RECOVERY_FAILED comes with
\* its fault gone and its block lifted; "resolved" is said only of an incident
\* the agent repaired and nothing went wrong after.
HonestReceipt ==
  \A r \in Requests :
    /\ receipt[r].status \in {"COMPLETE", "FAILED"} => fault # r /\ journal # r
    /\ receipt[r].status = "COMPLETE" => r \notin LiveTraffic
    /\ receipt[r] # NoReceipt /\ receipt[r].resolved => receipt[r].status = "COMPLETE"

\* A request comes to one incident at most, and its receipt tells the truth of it.
RequestsAreAnswered == TypeOK /\ AtMostOnce /\ HonestReceipt

Gate == INSTANCE LabGate WITH
  Component <- Requests,
  blocked   <- journal # NoOne,
  dirty     <- {fault} \ {NoOne}

\* The controller with its recovery command keeps the promise of the gate.
GateSpec == Gate!Spec

\* Every request is taken: nothing the incidents before it do keeps it waiting.
\* A request is submitted once, so that the queue runs empty says it of each of
\* them.  Only a malformed one waits, and keeps others waiting, which stays and
\* ends every server that comes to it (controller.py:283-288).
Waiting(r) == \E k \in 1..Len(queue) : queue[k] = r
Poisoned == \E r \in Requests : Command[r] = "bad" /\ Waiting(r)
RequestsAreTaken == queue # <<>> ~> queue = <<>> \/ Poisoned
=============================================================================
