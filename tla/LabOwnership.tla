----------------------------- MODULE LabOwnership -----------------------------
(***************************************************************************)
(* Who may touch the lab.  Separate processes on one machine share lock    *)
(* files that name a pid, and the recovery journal:                        *)
(*   server.lock        (output)  one serve or run of the live controller  *)
(*   capture.lock       (lab)     one incident: live, capture or recovery  *)
(*   graph_writer.lock  (data)    one writer of the service graph          *)
(*   server.lock        (lab)     one recovery command                     *)
(* Every file is made with O_CREAT|O_EXCL, written a moment later, and     *)
(* unlinked by name in a finally block; a process that dies leaves its     *)
(* files, and "live_v3.py recover" removes those it finds dead.            *)
(* Sources: rca_live_v3/{bus,cli,controller,ownership}.py,                 *)
(* rca_investigation/{capture,raw_schedule_v3}.py, pipeline/graph_writer.py*)
(***************************************************************************)
EXTENDS Naturals, Sequences

CONSTANTS
  Controllers,  \* processes of "live_v3.py serve" (or run: one request)
  Captures,     \* processes of the raw capture schedule
  Monitors,     \* processes of pipeline/monitor.py and kg_builder.py
  Recoveries,   \* processes of "live_v3.py recover"
  Mortal,       \* processes that may die
  MaxDeaths,    \* bound on deaths
  TornLocks,    \* may a process die between creating a lock and writing it?
  NoOne,        \* no journal
  Absent        \* no lock file

Proc == Controllers \cup Captures \cup Monitors \cup Recoveries
File == {"server", "capture", "writer", "shared"}
Lock == [by : Proc, written : BOOLEAN]

ASSUME OwnershipAssumption ==
  /\ Mortal \subseteq Proc /\ MaxDeaths \in Nat
  /\ TornLocks \in BOOLEAN
  /\ NoOne \notin Proc /\ Absent \notin Lock
  /\ Controllers \cap (Captures \cup Monitors \cup Recoveries) = {}
  /\ Captures \cap (Monitors \cup Recoveries) = {} /\ Monitors \cap Recoveries = {}

VARIABLES
  pc,       \* where each process is
  lock,     \* lock[f]: the file and the pid in it, or Absent
  journal,  \* whose fault shared/blocked-lab.json records, or NoOne
  todo,     \* todo[p]: lock files p has still to inspect or create, in order
  held,     \* held[p]: files p's open finally blocks will unlink, in order
  failed,   \* did p's last incident raise?
  deaths,
  raced,    \* history: recovery commands that ran beside another one since they began
  undercut  \* history: did a recovery command ever remove a running process's lock?

hist == <<raced, undercut>>
vars == <<pc, lock, journal, todo, held, failed, deaths, hist>>

PCs == {"off", "inspect", "remove", "acquire", "write", "idle", "foreign", "check", "lab",
        "inject", "fault", "restore", "watch", "unwind", "served", "leave", "gone"}

Alive(p) == pc[p] \notin {"off", "gone"}

\* "Never infer death from a timestamp": dead() asks the kernel.
DeadAlways(p) == TRUE
Dead(p) == ~Alive(p)

Goto(p, label) == pc' = [pc EXCEPT ![p] = label]

TypeOK ==
  /\ pc \in [Proc -> PCs]
  /\ lock \in [File -> Lock \cup {Absent}]
  /\ journal \in Proc \cup {NoOne}
  /\ todo \in [Proc -> Seq(File)]
  /\ held \in [Proc -> Seq(File)]
  /\ failed \in [Proc -> BOOLEAN]
  /\ deaths \in 0..MaxDeaths
  /\ raced \subseteq Recoveries /\ undercut \in BOOLEAN

Init ==
  /\ pc = [p \in Proc |-> "off"]
  /\ lock = [f \in File |-> Absent]
  /\ journal = NoOne
  /\ todo = [p \in Proc |-> <<>>]
  /\ held = [p \in Proc |-> <<>>]
  /\ failed = [p \in Proc |-> FALSE]
  /\ deaths = 0
  /\ raced = {} /\ undercut = FALSE

-----------------------------------------------------------------------------
(* Starting.                                                               *)

StartsAt(p) ==
  CASE p \in Recoveries -> "inspect"
    [] p \in Captures   -> "check"
    [] OTHER            -> "acquire"

StartsWithServer(p) ==
  CASE p \in Controllers \cup Recoveries -> <<"server">>
    [] p \in Monitors -> <<"writer">>
    [] OTHER -> <<>>

StartsWith(p) ==
  CASE p \in Controllers -> <<"server">>
    [] p \in Monitors    -> <<"writer">>
    [] p \in Recoveries  -> <<"server", "capture", "writer">>
    [] OTHER             -> <<>>

\* Recovery commands that run, p aside.
Others(p) == {q \in Recoveries \ {p} : Alive(q)}

\* A process runs once; the recovery command may be run again, under a pid that
\* no lock file names.  Nothing keeps two of them from running at once.
Start(p) ==
  /\ \/ pc[p] = "off"
     \/ /\ p \in Recoveries /\ pc[p] = "gone"
        /\ \A f \in File : lock[f] # Absent => lock[f].by # p
  /\ Goto(p, StartsAt(p))
  /\ todo' = [todo EXCEPT ![p] = StartsWith(p)]
  /\ raced' = IF p \notin Recoveries THEN raced
              ELSE IF Others(p) = {} THEN raced \ {p} ELSE raced \cup Others(p) \cup {p}
  /\ UNCHANGED <<lock, journal, held, failed, deaths, undercut>>

-----------------------------------------------------------------------------
(* Lock files.                                                             *)

\* Where a process goes when it has every lock it was after.
Goal(p) ==
  CASE p \in Recoveries -> "restore"
    [] p \in Monitors   -> "watch"
    [] p \in Controllers /\ held[p] = <<"server">> -> "idle"
    [] OTHER            -> "lab"

\* A raise inside an incident unwinds to the caller's own locks; elsewhere it
\* ends the process.
Raise(p) ==
  /\ Goto(p, IF p \in Controllers /\ held[p] # <<>> THEN "unwind" ELSE "leave")
  /\ failed' = [failed EXCEPT ![p] = TRUE]

CreateShared(p) ==
  /\ pc[p] = "acquire" /\ todo[p] # <<>>
  /\ lock' = [lock EXCEPT ![Head(todo[p])] = [by |-> p, written |-> FALSE]]
  /\ Goto(p, "write")
  /\ UNCHANGED <<journal, todo, held, failed, deaths, hist>>

\* os.open(O_CREAT | O_EXCL).
Create(p) ==
  /\ pc[p] = "acquire" /\ todo[p] # <<>>
  /\ lock[Head(todo[p])] = Absent
  /\ lock' = [lock EXCEPT ![Head(todo[p])] = [by |-> p, written |-> FALSE]]
  /\ Goto(p, "write")
  /\ UNCHANGED <<journal, todo, held, failed, deaths, hist>>

CreateRefused(p) ==
  /\ pc[p] = "acquire" /\ todo[p] # <<>>
  /\ lock[Head(todo[p])] # Absent
  /\ Raise(p)
  /\ todo' = [todo EXCEPT ![p] = <<>>]
  /\ UNCHANGED <<lock, journal, held, deaths, hist>>

\* The pid goes to the file that was opened, whatever its name refers to by now.
Write(p) ==
  /\ pc[p] = "write"
  /\ LET f == Head(todo[p])
     IN  /\ lock' = IF lock[f] # Absent /\ lock[f].by = p
                    THEN [lock EXCEPT ![f].written = TRUE] ELSE lock
         /\ held' = [held EXCEPT ![p] = Append(@, f)]
         /\ todo' = [todo EXCEPT ![p] = Tail(@)]
  /\ Goto(p, "acquire")
  /\ UNCHANGED <<journal, failed, deaths, hist>>

Acquired(p) ==
  /\ pc[p] = "acquire" /\ todo[p] = <<>>
  /\ Goto(p, Goal(p))
  /\ UNCHANGED <<lock, journal, todo, held, failed, deaths, hist>>

\* The files a process keeps when an incident unwinds.
Base(p) == IF p \in Controllers THEN 1 ELSE 0

\* target.unlink() in a finally block removes the name whoever made the file,
\* and raises when it is gone.
Release(p) ==
  /\ \/ pc[p] = "unwind" /\ Len(held[p]) > Base(p)
     \/ pc[p] = "leave" /\ held[p] # <<>>
  /\ LET n == Len(held[p])
         f == held[p][n]
     IN  /\ lock' = [lock EXCEPT ![f] = Absent]
         /\ held' = [held EXCEPT ![p] = SubSeq(@, 1, n - 1)]
         /\ failed' = [failed EXCEPT ![p] = @ \/ lock[f] = Absent]
  /\ UNCHANGED <<pc, journal, todo, deaths, hist>>

Exit(p) ==
  /\ pc[p] = "leave" /\ held[p] = <<>>
  /\ Goto(p, "gone")
  /\ failed' = [failed EXCEPT ![p] = FALSE]
  /\ UNCHANGED <<lock, journal, todo, held, deaths, hist>>

-----------------------------------------------------------------------------
(* serve(), the capture schedule and the monitor.                          *)

\* A request is taken, or the process stops: a stop request, an invalid file.
Request(p) ==
  /\ pc[p] = "idle"
  /\ Goto(p, "foreign")
  /\ failed' = [failed EXCEPT ![p] = FALSE]
  /\ UNCHANGED <<lock, journal, todo, held, deaths, hist>>

Stop(p) ==
  /\ pc[p] \in {"idle", "watch"}
  /\ Goto(p, "leave")
  /\ UNCHANGED <<lock, journal, todo, held, failed, deaths, hist>>

\* reject_foreign_controllers() looks for capture and monitor processes.
Foreign(p) ==
  /\ pc[p] = "foreign"
  /\ IF \E q \in Captures \cup Monitors : Alive(q)
     THEN Raise(p)
     ELSE Goto(p, "check") /\ UNCHANGED failed
  /\ UNCHANGED <<lock, journal, todo, held, deaths, hist>>

\* capture_lease() looks for the journal before it makes its lock file.
Check(p) ==
  /\ pc[p] = "check"
  /\ IF journal # NoOne
     THEN Raise(p) /\ UNCHANGED todo
     ELSE /\ Goto(p, "acquire")
          /\ todo' = [todo EXCEPT ![p] = IF p \in Controllers THEN <<"capture", "writer">>
                                         ELSE <<"capture">>]
          /\ UNCHANGED failed
  /\ UNCHANGED <<lock, journal, held, deaths, hist>>

AllowedUnchecked(p) ==
  /\ pc[p] = "lab"
  /\ Goto(p, "inject")
  /\ UNCHANGED <<lock, journal, todo, held, failed, deaths, hist>>

\* FaultTransaction.inject() and save(), in the short form module
\* FaultTransaction expands: they look for a journal ...
Allowed(p) ==
  /\ pc[p] = "lab" /\ journal = NoOne
  /\ Goto(p, "inject")
  /\ UNCHANGED <<lock, journal, todo, held, failed, deaths, hist>>

\* ... and replace whatever is at its path.
Inject(p) ==
  /\ pc[p] = "inject"
  /\ journal' = p
  /\ Goto(p, "fault")
  /\ UNCHANGED <<lock, todo, held, failed, deaths, hist>>

\* Another owner's journal refuses the incident, the baseline fails and the lab
\* is seen healthy again, or it is not and an empty journal is saved.
LabFailed(p) ==
  /\ pc[p] = "lab"
  /\ \/ UNCHANGED journal
     \/ journal = NoOne /\ journal' = p
  /\ Raise(p)
  /\ UNCHANGED <<lock, todo, held, deaths, hist>>

\* The incident ends with a verified recovery, whatever was observed before.
\* Another owner's journal would refuse it.
Heal(p) ==
  /\ pc[p] = "fault" /\ journal \in {p, NoOne}
  /\ journal' = NoOne
  /\ \/ Raise(p)
     \/ Goto(p, "unwind") /\ UNCHANGED failed
  /\ UNCHANGED <<lock, todo, held, deaths, hist>>

\* Cleanup or verification failed: the journal stays, or is saved again.
Stuck(p) ==
  /\ pc[p] = "fault"
  /\ journal' = IF journal = NoOne THEN p ELSE journal
  /\ Raise(p)
  /\ UNCHANGED <<lock, todo, held, deaths, hist>>

Unwound(p) ==
  /\ pc[p] = "unwind" /\ Len(held[p]) <= Base(p)
  /\ Goto(p, "served")
  /\ UNCHANGED <<lock, journal, todo, held, failed, deaths, hist>>

\* serve() returns when a failed incident left the lab blocked and otherwise
\* takes the next request, unless the exception was not one it catches; the
\* schedule takes its next slot.
Served(p) ==
  /\ pc[p] = "served"
  /\ \/ /\ failed[p] => journal = NoOne
        /\ Goto(p, IF p \in Controllers THEN "idle" ELSE "check")
     \/ /\ failed[p] \/ p \in Captures
        /\ Goto(p, "leave")
  /\ UNCHANGED <<lock, journal, todo, held, failed, deaths, hist>>

-----------------------------------------------------------------------------
(* live_v3.py recover                                                      *)

\* exists() and read_text(): an absent file is passed over, an unreadable or
\* live one refuses the recovery.
Inspect(p) ==
  /\ pc[p] = "inspect" /\ todo[p] # <<>>
  /\ LET f == Head(todo[p])
     IN  \/ lock[f] = Absent /\ todo' = [todo EXCEPT ![p] = Tail(@)] /\ UNCHANGED pc
         \/ /\ lock[f] # Absent
            /\ IF lock[f].written /\ Dead(lock[f].by)
               THEN Goto(p, "remove") /\ UNCHANGED todo
               ELSE Goto(p, "leave") /\ todo' = [todo EXCEPT ![p] = <<>>]
  /\ UNCHANGED <<lock, journal, held, failed, deaths, hist>>

\* The file under that name is a running process's by now.
Undercuts(p) == LET f == Head(todo[p]) IN lock[f] # Absent /\ Alive(lock[f].by)

\* path.unlink(), by name; it raises when the file has gone.
Remove(p) ==
  /\ pc[p] = "remove"
  /\ LET f == Head(todo[p])
     IN  IF lock[f] = Absent
         THEN Goto(p, "leave") /\ todo' = [todo EXCEPT ![p] = <<>>]
         ELSE Goto(p, "inspect") /\ todo' = [todo EXCEPT ![p] = Tail(@)]
  /\ lock' = [lock EXCEPT ![Head(todo[p])] = Absent]
  /\ undercut' = (undercut \/ Undercuts(p))
  /\ UNCHANGED <<journal, held, failed, deaths, raced>>

\* No journal: nothing to recover.
GateCheck(p) ==
  /\ pc[p] = "inspect" /\ todo[p] = <<>>
  /\ IF journal = NoOne
     THEN Goto(p, "leave") /\ UNCHANGED todo
     ELSE Goto(p, "acquire") /\ todo' = [todo EXCEPT ![p] = <<"shared", "capture">>]
  /\ UNCHANGED <<lock, journal, held, failed, deaths, hist>>

\* restore(), recover(), the health checks and confirm_recovery().
Recovered(p) ==
  /\ pc[p] = "restore" /\ journal # NoOne
  /\ journal' = NoOne
  /\ Goto(p, "leave")
  /\ UNCHANGED <<lock, todo, held, failed, deaths, hist>>

NotRecovered(p) ==
  /\ pc[p] = "restore"
  /\ Goto(p, "leave")
  /\ UNCHANGED <<lock, journal, todo, held, failed, deaths, hist>>

-----------------------------------------------------------------------------
\* A process is killed: no finally block runs.
Die(p) ==
  /\ Alive(p) /\ p \in Mortal /\ deaths < MaxDeaths
  /\ pc[p] = "write" => TornLocks
  /\ deaths' = deaths + 1
  /\ Goto(p, "gone")
  /\ todo' = [todo EXCEPT ![p] = <<>>]
  /\ held' = [held EXCEPT ![p] = <<>>]
  /\ failed' = [failed EXCEPT ![p] = FALSE]
  /\ UNCHANGED <<lock, journal, hist>>

Files(p)    == Create(p) \/ CreateRefused(p) \/ Write(p) \/ Acquired(p) \/ Release(p) \/ Exit(p)
Incident(p) == \/ Foreign(p) \/ Check(p) \/ Allowed(p) \/ Inject(p) \/ LabFailed(p) \/ Heal(p) \/ Stuck(p)
               \/ Unwound(p) \/ Served(p)
Recovery(p) == Inspect(p) \/ Remove(p) \/ GateCheck(p) \/ Recovered(p) \/ NotRecovered(p)
Step(p)     == Files(p) \/ Incident(p) \/ Recovery(p) \/ Stop(p)

Next == \E p \in Proc : Start(p) \/ Request(p) \/ Step(p) \/ Die(p)

Spec == Init /\ [][Next]_vars

\* Running processes take their steps; the operator stops idle controllers and
\* monitors and runs the recovery command again, and a recovery that is tried
\* again and again works in the end.
Fairness ==
  /\ \A p \in Proc : WF_vars(Step(p)) /\ SF_vars(Stop(p))
  /\ \A p \in Recoveries : WF_vars(Start(p)) /\ SF_vars(Recovered(p))
  /\ \A p \in Captures : SF_vars(Served(p) /\ pc'[p] = "leave")

FairSpec == Spec /\ Fairness

-----------------------------------------------------------------------------
(* Properties.                                                             *)

\* Processes that drive the lab: an incident or a recovery.
InLab(p) == pc[p] \in {"lab", "inject", "fault", "restore"}

\* "One v3 lab owner": two processes never drive the lab at once, whoever died
\* before them and however recovery commands and starts interleave.
OneLabOwner == \A p, q \in Proc : InLab(p) /\ InLab(q) => p = q

\* A process with a fault in the lab is the one the journal names, so that its
\* save() and unlink touch its own journal only.
FaultIsJournalled == \A p \in Proc : pc[p] = "fault" => journal = p

\* The locks that name a process p in order are p's while p works under them:
\* nobody removed them behind its back.
LocksAreHeld ==
  \A p \in Proc : \A k \in 1..Len(held[p]) :
    lock[held[p][k]] # Absent /\ lock[held[p][k]].by = p

\* The guard of the lab as a whole: one owner at a time, its fault under its own
\* name, and its locks where it left them, for as long as no recovery command has
\* removed the lock of a running process.
LabIsGuarded ==
  TypeOK /\ (undercut \/ (OneLabOwner /\ FaultIsJournalled /\ LocksAreHeld))

\* A lock file goes that neither its maker gives back nor a dead process left.
TakenFromTheLiving(f) ==
  /\ lock[f] # Absent /\ lock'[f] = Absent
  /\ LET p == lock[f].by IN Alive(p) /\ held'[p] = held[p]

\* "Remove only positively dead PID locks" (cli.py:35).  The only step that can be
\* the first to take a lock from a running process is the unlink of a recovery
\* command that ran beside another one: no finally block, death, start or single
\* recovery command does, in whatever order they come.
UndercutNeedsTwo ==
  [][\A f \in File : TakenFromTheLiving(f) =>
       undercut \/ \E r \in raced : pc[r] = "remove" /\ pc'[r] # pc[r]]_vars

\* "An existing transaction blocks injection": although capture_lease looks for
\* the journal before it locks, and inject() before it writes, no process replaces
\* a journal, and only the incident that wrote it or a recovery command removes it,
\* while the locks are their makers'.
BlockIsKept ==
  [][journal # NoOne /\ journal' # journal =>
       \/ undercut
       \/ /\ journal' = NoOne
          /\ pc[journal] = "fault" \/ \E r \in Recoveries : pc[r] = "restore"]_vars

\* The lab is blocked for ever by nobody: recovery commands lift the block, unless
\* a process died over a lock that recovery cannot remove, one without a pid or
\* its own (cli.py:36).
Wedged ==
  \E f \in File :
    lock[f] # Absent /\ ~Alive(lock[f].by) /\ (f = "shared" \/ ~lock[f].written)

BlockIsLifted == journal # NoOne ~> journal = NoOne \/ Wedged

\* "An interruption leaves the transaction ... After confirming the controller
\* has exited, use ... recover": once every process is gone, no lock is left
\* that the recovery command needs and would not remove.
RecoveryIsAdmitted ==
  (\A p \in Proc : ~Alive(p)) => lock["shared"] = Absent
=============================================================================
