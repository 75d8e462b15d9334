----------------------------- MODULE ControlPlane -----------------------------
(***************************************************************************)
(* The browser control plane, rca_control_ui/app.py with its bridge        *)
(* live_v3_bridge.py, beside the live controller it starts.                *)
(*                                                                         *)
(* A run is either live (a request file for the controller, whose events   *)
(* the plane reads back from one shared log) or basic (the plane itself    *)
(* stops one container and starts it again).  A row of its database leases *)
(* the lab to one run.  The plane's handlers run on one event loop and do  *)
(* not await between the steps modelled here, so they do not overlap, but  *)
(* the server may die between two transactions and the controller works    *)
(* at any time.                                                            *)
(*                                                                         *)
(* Left out: requests that reach the controller from a terminal, the       *)
(* second container that the basic injector can stop (one stands for       *)
(* both), the in-memory display state, chats, telemetry, policy replay of  *)
(* finished runs, and manual edits of a run's status.                      *)
(***************************************************************************)
EXTENDS Naturals, Sequences, FiniteSets, SequencesExt

CONSTANTS
  Live,        \* run identifiers of create_run with a policy
  Basic,       \* run identifiers of the injector-only path
  NoRun,
  MaxDeaths,   \* bound on deaths of plane and controller
  MaxStarts    \* bound on starts of the controller process

ASSUME ControlPlaneAssumption ==
  /\ Live \cap Basic = {} /\ NoRun \notin Live \cup Basic
  /\ MaxDeaths \in Nat /\ MaxStarts \in Nat

Runs == Live \cup Basic

VARIABLES
  ui,        \* the plane: its handler in progress, for which run, and the
             \* number of events it read before sending
  handle,    \* the bridge holds a child process (perhaps an ended one)
  lease,     \* lab_lease.run_id
  basic,     \* the run of the basic_injection row
  status,    \* runs.status
  inst,      \* status of the run's fault instance
  attempt,   \* status and phase of the run's attempt
  nextEvent, \* the run's row in controller_requests: its next event
  server,    \* controller process: off, up, or dead with its lock left
  starts,    \* how often it was started
  queue,     \* request files
  job,       \* the request it works on, and how far it is
  events,    \* events.jsonl
  blockedBy, \* the request whose recovery journal blocks the lab
  container, \* the run that stopped the injector's container, or NoRun: it runs
  late,      \* late[r]: the docker stop of r that outlived its client: none,
             \* under way, or landed
  lost,      \* history: runs whose lease nobody is left to give back
  deaths

plane  == <<ui, handle>>
db     == <<lease, basic, status, inst, attempt, nextEvent>>
ctl    == <<server, starts, queue, job, events, blockedBy>>
docker == <<container, late>>
ghost  == <<lost, deaths>>
planeVars == <<plane, db, ctl, docker, ghost>>

Idle   == [at |-> "idle", run |-> NoRun, start |-> 0]
NoJob  == [of |-> NoRun, at |-> "none"]
NoRow  == "none"
Nowhere == [mapped |-> FALSE, next |-> 0]

Event(kind, r, good) == [kind |-> kind, of |-> r, good |-> good]

PlaneInit ==
  /\ ui = Idle /\ handle = FALSE
  /\ lease = NoRun /\ basic = NoRun
  /\ status = [r \in Runs |-> NoRow] /\ inst = [r \in Runs |-> NoRow]
  /\ attempt = [r \in Runs |-> [status |-> NoRow, phase |-> NoRow]]
  /\ nextEvent = [r \in Live |-> Nowhere]
  /\ server = "off" /\ starts = 0 /\ queue = <<>> /\ job = NoJob /\ events = <<>>
  /\ blockedBy = NoRun /\ container = NoRun /\ late = [r \in Basic |-> "none"]
  /\ lost = {} /\ deaths = 0

\* What events() returns of the log: it stops at the line of a death in mid-write.
Torn    == \E i \in DOMAIN events : events[i].kind = "torn"
Visible == IF Torn THEN SubSeq(events, 1, SelectInSeq(events, LAMBDA e : e.kind = "torn") - 1)
           ELSE events

At(p) == ui.at = p
Step(p) == ui' = [ui EXCEPT !.at = p]
Enter(p, r) == At("idle") /\ ui' = [at |-> p, run |-> r, start |-> 0]
Return == ui' = Idle
me == ui.run

-----------------------------------------------------------------------------
(* The bridge.                                                             *)

\* status(): a child that has ended, or a dead owner's lock, blocks a start.
Available == IF handle THEN server = "up" ELSE server # "stale"

\* start(): the child takes the lock and announces itself, or ends at once.
Launch ==
  \/ /\ ~(Available /\ server = "off" /\ starts < MaxStarts)
     /\ UNCHANGED <<handle, server, starts, events>>
  \/ /\ Available /\ server = "off" /\ starts < MaxStarts
     /\ handle' = TRUE /\ starts' = starts + 1
     /\ \/ server' = "up" /\ events' = Append(events, Event("stage", NoRun, TRUE))
        \/ UNCHANGED <<server, events>>

\* startup_event.
StartPlane ==
  /\ At("down") /\ Return
  /\ Launch
  /\ UNCHANGED <<db, queue, job, blockedBy, docker, ghost>>

\* create_run as far as start(), for a request that goes no further.
StartController ==
  /\ At("idle") /\ server = "off" /\ Launch
  /\ UNCHANGED <<ui, db, queue, job, blockedBy, docker, ghost>>

-----------------------------------------------------------------------------
(* create_run with a policy.                                               *)

Unleased == lease = NoRun

\* One transaction: the run, its instance and attempt, and the lease.
CreateLive(r) ==
  /\ status[r] = NoRow
  /\ Available /\ server = "up"
  /\ Unleased
  /\ Enter("read", r)
  /\ lease' = r
  /\ status' = [status EXCEPT ![r] = "Active"]
  /\ inst' = [inst EXCEPT ![r] = "queued"]
  /\ attempt' = [attempt EXCEPT ![r] = [status |-> "queued", phase |-> "capturing"]]
  /\ UNCHANGED <<handle, basic, nextEvent, ctl, docker, ghost>>

ReadStart ==
  /\ At("read")
  /\ ui' = [ui EXCEPT !.at = "send", !.start = Len(Visible)]
  /\ UNCHANGED <<handle, db, ctl, docker, ghost>>

Send ==
  /\ At("send") /\ Step("map")
  /\ queue' = Append(queue, me)
  /\ UNCHANGED <<handle, db, server, starts, job, events, blockedBy, docker, ghost>>

ReleaseOf(r) == lease' = IF lease = r THEN NoRun ELSE lease

SendFailed ==
  /\ ui.at \in {"read", "send"} /\ Return
  /\ ReleaseOf(me)
  /\ status' = [status EXCEPT ![me] = "Failed"]
  /\ UNCHANGED <<handle, basic, inst, attempt, nextEvent, ctl, docker, ghost>>

MapRequestLate ==
  /\ At("map") /\ Return
  /\ nextEvent' = [nextEvent EXCEPT ![me] = [mapped |-> TRUE, next |-> Len(Visible)]]
  /\ UNCHANGED <<handle, lease, basic, status, inst, attempt, ctl, docker, ghost>>

\* The second transaction remembers where the run's events begin.
MapRequest ==
  /\ At("map") /\ Return
  /\ nextEvent' = [nextEvent EXCEPT ![me] = [mapped |-> TRUE, next |-> ui.start]]
  /\ UNCHANGED <<handle, lease, basic, status, inst, attempt, ctl, docker, ghost>>

-----------------------------------------------------------------------------
(* sync_controller_events: everything from the run's cursor to the end of  *)
(* the log, in one transaction.                                            *)

AppliedReleasing(v, e) == [v EXCEPT !.leased = FALSE]

\* What one event does to the rows of the run that reads it.
Applied(v, e) ==
  CASE e.kind = "stage" -> [v EXCEPT !.attempt = [status |-> "running", phase |-> "capturing"]]
    [] e.kind = "live"  -> [v EXCEPT !.attempt = [status |-> "running", phase |-> "investigating"],
                                     !.inst = IF @ = "queued" THEN "active" ELSE @]
    [] e.kind = "error" -> [v EXCEPT !.attempt.status = IF e.good THEN "running" ELSE "failed"]
    [] OTHER -> [status  |-> IF e.good THEN "Resolved" ELSE "RecoveryFailed",
                 inst    |-> "completed",
                 attempt |-> [status |-> IF e.good THEN "completed" ELSE "failed", phase |-> "complete"],
                 leased  |-> FALSE]

Unread(r) == SubSeq(Visible, nextEvent[r].next + 1, Len(Visible))

Sync(r) ==
  /\ At("idle") /\ nextEvent[r].mapped /\ Unread(r) # <<>>
  /\ LET v == FoldLeft(Applied, [status |-> status[r], inst |-> inst[r], attempt |-> attempt[r],
                                 leased |-> lease = r], Unread(r))
     IN /\ status' = [status EXCEPT ![r] = v.status]
        /\ inst' = [inst EXCEPT ![r] = v.inst]
        /\ attempt' = [attempt EXCEPT ![r] = v.attempt]
        /\ lease' = IF lease = r /\ ~v.leased THEN NoRun ELSE lease
  /\ nextEvent' = [nextEvent EXCEPT ![r].next = Len(Visible)]
  /\ UNCHANGED <<plane, basic, ctl, docker, ghost>>

-----------------------------------------------------------------------------
(* create_run without a policy, with inject_fault, and recover_fault.  A    *)
(* direct call of inject_fault differs in having no run to record.         *)

CreateBasic(r) ==
  /\ status[r] = NoRow
  /\ Enter("lease", r)
  /\ status' = [status EXCEPT ![r] = "Starting"]
  /\ inst' = [inst EXCEPT ![r] = "queued"]
  /\ attempt' = [attempt EXCEPT ![r] = [status |-> "not_requested", phase |-> "complete"]]
  /\ UNCHANGED <<handle, lease, basic, nextEvent, ctl, docker, ghost>>

Acquire ==
  /\ At("lease") /\ basic = NoRun /\ Unleased
  /\ Step("stop")
  /\ lease' = me
  /\ UNCHANGED <<handle, basic, status, inst, attempt, nextEvent, ctl, docker, ghost>>

\* An HTTPException out of inject_fault.
Refused ==
  /\ Return
  /\ status' = [status EXCEPT ![me] = "Failed"]
  /\ attempt' = [attempt EXCEPT ![me].status = "failed"]

AcquireRefused ==
  /\ At("lease") /\ (basic # NoRun \/ ~Unleased)
  /\ Refused
  /\ UNCHANGED <<handle, lease, basic, inst, nextEvent, ctl, docker, ghost>>

StopContainer ==
  /\ At("stop") /\ container = NoRun
  /\ Step("persist")
  /\ container' = me
  /\ UNCHANGED <<handle, db, ctl, late, ghost>>

\* The client of a docker stop that was sent ends, and the stop goes on.
MayComeLate == late' \in IF container = NoRun THEN {late, [late EXCEPT ![me] = "underway"]}
                         ELSE {late}

\* The target is not running, or docker failed or ran out of its 15 seconds: the
\* lease is given back, though the stop may still come.
StopFailed ==
  /\ At("stop") /\ Refused
  /\ ReleaseOf(me)
  /\ MayComeLate
  /\ UNCHANGED <<handle, basic, inst, nextEvent, ctl, container, ghost>>

Persist ==
  /\ At("persist") /\ Step("activate")
  /\ basic' = me
  /\ UNCHANGED <<handle, lease, status, inst, attempt, nextEvent, ctl, docker, ghost>>

PersistFailed ==
  /\ At("persist") /\ Step("undo")
  /\ UNCHANGED <<handle, db, ctl, docker, ghost>>

Undo ==
  /\ At("undo") /\ Refused
  /\ container' = NoRun
  /\ ReleaseOf(me)
  /\ UNCHANGED <<handle, basic, inst, nextEvent, ctl, late, ghost>>

\* recover() raised, or there was no docker to begin with: the handler ends there,
\* with the lease still held.
HandlerRaises ==
  /\ ui.at \in {"stop", "undo"} /\ Return
  /\ container' \in IF At("undo") THEN {NoRun, container} ELSE {container}
  /\ lost' = lost \cup {me}
  /\ UNCHANGED <<handle, db, ctl, late, deaths>>

Activate ==
  /\ At("activate") /\ Return
  /\ status' = [status EXCEPT ![me] = "Active"]
  /\ inst' = [inst EXCEPT ![me] = "active"]
  /\ UNCHANGED <<handle, lease, basic, attempt, nextEvent, ctl, docker, ghost>>

\* recover_fault, and the deletion of a run's active fault.
Restart ==
  /\ basic # NoRun
  /\ Enter("restarted", basic)
  /\ container' = NoRun
  /\ UNCHANGED <<handle, db, ctl, late, ghost>>

RestartFailed ==
  /\ At("idle") /\ basic # NoRun
  /\ container' \in {NoRun, container}
  /\ UNCHANGED <<plane, db, ctl, late, ghost>>

RecordRestart ==
  /\ At("restarted") /\ Return
  /\ basic' = NoRun
  /\ ReleaseOf(me)
  /\ inst' = [inst EXCEPT ![me] = IF @ = "active" THEN "reverted" ELSE @]
  /\ status' = [status EXCEPT ![me] = "Resolved"]
  /\ UNCHANGED <<handle, attempt, nextEvent, ctl, docker, ghost>>

-----------------------------------------------------------------------------
(* The controller as Controller.tla has it, reduced to what it emits.      *)

Emit(kind, good) == events' = Append(events, Event(kind, job.of, good))

Take ==
  /\ server = "up" /\ job = NoJob /\ queue # <<>>
  /\ job' = [of |-> Head(queue), at |-> "admit"]
  /\ queue' = Tail(queue)
  /\ UNCHANGED <<plane, db, server, starts, events, blockedBy, docker, ghost>>

\* Admission and the stages of _run, each announced.  Probes and latencies are
\* further "live" events to the plane.
Works(from, to, kind) ==
  /\ server = "up" /\ job.at = from
  /\ job' = [job EXCEPT !.at = to]
  /\ Emit(kind, TRUE)

Advance ==
  /\ \/ Works("admit", "check", "stage") /\ blockedBy = NoRun /\ UNCHANGED blockedBy
     \/ Works("check", "observe", "live") /\ blockedBy' = job.of
  /\ UNCHANGED <<plane, db, server, starts, queue, docker, ghost>>

\* The finally block: cleaned and confirmed, or not.
Result ==
  /\ server = "up" /\ job.at \in {"check", "observe"}
  /\ \/ Emit("result", TRUE) /\ blockedBy' = NoRun
     \/ Emit("result", FALSE) /\ blockedBy' \in {job.of, NoRun}
  /\ \/ job.at = "observe" /\ events'[Len(events')].good /\ job' = NoJob
     \/ job' = [job EXCEPT !.at = "raised"]
  /\ UNCHANGED <<plane, db, server, starts, queue, docker, ghost>>

\* serve(): the exception is reported, or ends the process unreported.
Report ==
  /\ server = "up" /\ job.at \in {"admit", "raised"}
  /\ job' = NoJob
  /\ \/ /\ \E good \in BOOLEAN : Emit("error", good)
        /\ server' = IF blockedBy # NoRun THEN "off" ELSE "up"
     \/ server' = "off" /\ UNCHANGED events
  /\ lost' = IF job.at = "admit" THEN lost \cup {job.of} ELSE lost
  /\ UNCHANGED <<plane, db, starts, queue, blockedBy, docker, deaths>>

-----------------------------------------------------------------------------
(* Deaths, late effects, and the terminal's recovery command.              *)

PlaneDies ==
  /\ deaths < MaxDeaths /\ ~At("down")
  /\ ui' = [Idle EXCEPT !.at = "down"] /\ handle' = FALSE
  /\ deaths' = deaths + 1
  /\ lost' = IF ui.at \in {"read", "send", "map", "stop", "persist", "undo"}
             THEN lost \cup {me} ELSE lost
  /\ IF At("stop") THEN MayComeLate ELSE UNCHANGED late
  /\ UNCHANGED <<db, ctl, container>>

ControllerDies ==
  /\ deaths < MaxDeaths /\ server = "up"
  /\ server' = "stale" /\ job' = NoJob
  /\ deaths' = deaths + 1
  /\ lost' = IF job.at \in {"admit", "check", "observe"} THEN lost \cup {job.of} ELSE lost
  /\ events' \in {events, Append(events, Event("torn", job.of, FALSE))}
  /\ UNCHANGED <<plane, db, starts, queue, blockedBy, docker>>

RecoverLab ==
  /\ server # "up" /\ (server = "stale" \/ blockedBy # NoRun)
  /\ server' = "off" /\ blockedBy' = NoRun
  /\ UNCHANGED <<plane, db, starts, queue, job, events, docker, ghost>>

StopLands(r) ==
  /\ late[r] = "underway"
  /\ late' = [late EXCEPT ![r] = "landed"]
  /\ container' = IF container = NoRun THEN r ELSE container
  /\ UNCHANGED <<plane, db, ctl, ghost>>

PlaneNext ==
  \/ StartPlane \/ StartController
  \/ \E r \in Live : CreateLive(r) \/ Sync(r)
  \/ ReadStart \/ Send \/ SendFailed \/ MapRequest
  \/ \E r \in Basic : CreateBasic(r) \/ StopLands(r)
  \/ Acquire \/ AcquireRefused \/ StopContainer \/ StopFailed
  \/ Persist \/ PersistFailed \/ Undo \/ HandlerRaises \/ Activate
  \/ Restart \/ RestartFailed \/ RecordRestart
  \/ Take \/ Advance \/ Result \/ Report
  \/ PlaneDies \/ ControllerDies \/ RecoverLab

PlaneSpec == PlaneInit /\ [][PlaneNext]_planeVars

-----------------------------------------------------------------------------
(* Properties.                                                             *)

\* Type invariant.
PlaneTypeOK ==
  /\ ui \in [at : {"idle", "down", "read", "send", "map", "lease", "stop", "persist",
                   "undo", "activate", "restarted"},
            run : Runs \cup {NoRun}, start : Nat]
  /\ handle \in BOOLEAN
  /\ lease \in Runs \cup {NoRun} /\ basic \in Basic \cup {NoRun}
  /\ status \in [Runs -> {NoRow, "Starting", "Active", "Failed", "Resolved", "RecoveryFailed"}]
  /\ inst \in [Runs -> {NoRow, "queued", "active", "completed", "reverted"}]
  /\ attempt \in [Runs -> [status : {NoRow, "queued", "running", "completed", "failed", "not_requested"},
                           phase : {NoRow, "capturing", "investigating", "complete"}]]
  /\ nextEvent \in [Live -> [mapped : BOOLEAN, next : 0..Len(events)]]
  /\ server \in {"off", "up", "stale"} /\ starts \in 0..MaxStarts
  /\ queue \in Seq(Live)
  /\ job \in [of : Live \cup {NoRun},
              at : {"none", "admit", "check", "observe", "raised"}]
  /\ events \in Seq([kind : {"stage", "live", "error", "result", "torn"},
                     of : Live \cup {NoRun}, good : BOOLEAN])
  /\ blockedBy \in Live \cup {NoRun}
  /\ container \in Basic \cup {NoRun} /\ late \in [Basic -> {"none", "underway", "landed"}]
  /\ lost \subseteq Runs /\ deaths \in 0..MaxDeaths

\* A run whose request waits for the controller or is being worked on has the
\* lease (app.py:560-566,632), whatever was read back from the log and wherever
\* the plane died.
InProgress(r) == r \in ToSet(queue) \/ (job.of = r /\ job.at # "raised")
RunHoldsLease == \A r \in Live : InProgress(r) => lease = r

\* A stopped container is leased to the run that stopped it, so that no other run is
\* admitted until it runs again (app.py:893-950).  The one exception is a docker
\* stop that landed after its client had given up and the run had been reported as
\* failed: beside that container other runs are admitted.
StoppedIsLeased ==
  container # NoRun =>
    lease = container \/ (late[container] = "landed" /\ status[container] = "Failed")

\* The lease of the lab covers what its two injectors do: whoever dies, whatever is
\* read back from the log, and whichever step fails, they meet by a late stop only.
LabIsLeased == PlaneTypeOK /\ RunHoldsLease /\ StoppedIsLeased

\* Whoever has the lease is on the way to give it back - its handler, its
\* basic_injection row, its request, or a result it has not read yet - except
\* the runs in "lost" (app.py:576,632,906-950), and all once the log is torn.
Unseen(r) == \E i \in DOMAIN Visible :
  i > nextEvent[r].next /\ Visible[i].kind = "result" /\ Visible[i].of = r
Kept(r) ==
  \/ ui.run = r \/ basic = r
  \/ r \in Live /\ nextEvent[r].mapped
     /\ (InProgress(r) \/ Unseen(r))
LeaseHasKeeper == \A r \in Runs : lease = r => Kept(r) \/ r \in lost \/ Torn

=============================================================================
