# graph-rca: TLA+ models, checks and proofs

graph-rca diagnoses failures of a small microservice application.  A *live
controller* injects one fault into a Docker lab, collects short telemetry, asks
a diagnostic model which probes to buy, repairs the cause if its evidence is
sufficient, and always cleans the lab up behind itself.  A *capture schedule*
uses the same fault machinery to record a frozen cohort of incidents for
training and evaluation, and a *frozen experiment* fits, trains, seals and
compares methods on it.  Beside them stand an older knowledge-graph pipeline
with a chat, a browser control panel, and a research simulator of its own.

What is hard here is not the arithmetic.  It is that faults are injected into a
shared lab by processes that may be killed at any point, through commands that
may outlive their time limit, under lock files and a journal that other
processes read, write and unlink by name; and that a repair must rest on
evidence that is still fresh when the repair starts.  Half of the modules are
about that.  The other half are about results that nobody would notice to be
wrong: a belief fed twice with the same record, a reward leaked across episodes,
a run resumed not quite where it was, a planner that promises what no play
earns, a reserved split opened by another program than the one sealed.

## Inventory

Paths are relative to `src/`; `RI` is `src/rca_investigation`, `LV` is
`src/rca_live_v3`.

| component | state | operations | hard behaviour | correct when |
|---|---|---|---|---|
| Fault transaction, `RI/faults_v3.py` (drivers `faults*.py`) | the journal `recovery_required.json`: owner, rows with intent/active/cleanup, confirmation; the lab itself | inject, recover, confirm_recovery, save | death between journal and command; one of two cleanups fails; a command acts after its time limit | every fault in the lab is journalled until cleaned; nobody loses the journal; confirmation means clean |
| Ownership, `LV/bus.py`, `LV/cli.py`, `LV/ownership.py`, `RI/capture.py` | lock files that name a pid, the journal | server_lock, capture_lease, injection gate, recover | check-then-act on files; dead owners; recovery that dies | one owner of the lab; only dead locks are removed; recovery gets through |
| Live controller, `LV/controller.py` | request files, receipts, the current incident, journal, traffic threads | request, serve, run, `_run`, repair, finally block | exceptions at every step, death, threads that outlast their join | no request twice; honest receipts; no repair beside running traffic; the lab stays blocked until clean |
| Early session, `LV/early.py`, `LV/graph.py`, `LV/short_packets.py` | ledger of bought packets, history, current prefix and its clock | collect a prefix, publish, advance (refresh, guided probe, policy probe, terminal), repair gate | evidence ages while it is used; budget shared by refreshes; deadline | one exact ledger; diagnoses and repairs on fresh support; always ends |
| Capture schedule, `RI/raw_schedule_v3.py`, `capture_store.py`, `raw_dataset_v3.py` | state file, staged and published bundles, lease, journal, pause file | walk slots, capture, publish, accept, resume, seal | death between publish and accept; restart; pause; two collectors | a recorded slot has its own sound bundle; only an exact cohort is sealed |
| Replay environment, `RI/environment.py`, `ledger.py`, `backends/replay.py` | one episode: history, ledger, credits, decision | reset, step, finish | three ways to end; evidence that is missing or down | nothing bought twice or beyond the budget; a decision depends on what was bought |
| Inference and encoding, `RI/belief*.py`, `diagnosis_sets.py`, `encoding_v3.py`, `metrics/` | fitted prototypes and thresholds | fit, posterior, decode, project | smoothing over unseen symbols; medians against fractions | the encoder tells its training windows apart |
| Training and comparison, `RI/train*.py`, `policies/`, `comparison_v3.py`, `challenges_v3.py`, `evaluate_decisions.py` | tables, buffer, checkpoints, sealed files, reports | learn, validate, save, resume, seal, compare, challenge | death between two files; edits of sources between two commands; a report that fails | a resumed run is the run; reserved data is opened once, under the seal; scores agree |
| v1/v2 capture, `RI/capture.py`, `raw_schedule.py` | marker file, attempts | capture, recover | marker overwritten or unlinked without looking at its owner | as v3 |
| Contracts, configuration, workload | none | validation, plans | none | static |
| Knowledge-graph pipeline, `pipeline/`, copy in `LV/legacy_graph/` | Neo4j graph, alerts known to the chat | lease, build, poll cycle, expand, watch | a writer killed between two queries; readers between two transactions of a write; alerts lost | propagation edges match the flags after a cycle; an expansion is exact; the chat's message keeps up |
| Control UI, `rca_control_ui/` | SQLite runs, lab lease, basic injection, event cursors | create, inject, recover, sync, live bridge | deaths between two transactions; a log without request ids; a late stop | a run in progress holds the lease; a lease is given back |
| Simulator, `src/rca_sim/` | episode, belief and ledger; rollout batch, network version, two checkpoints; totals of an evaluation | step, collect, GAE, update, validate, save, resume; baselines, fixtures, checks | repeated records; deaths between two files; planners written twice | episodes and totals add up; advantages stop at episodes; resume is exact; planners promise what is paid |
| Lab helpers, `lab/` | a lease timer per helper | start, stop, expire | timers of earlier injections | leases end |
| Scripts, `scripts/` | none of their own | drivers, audits | order of commands over days | see training and comparison |

How they interact.  The controller and the capture schedule each take
`capture.lock` in the lab directory and run one fault transaction at a time;
the transaction's journal lies in the same directory and blocks every later
injection until a transaction, or the command `live_v3.py recover`, has cleaned
and confirmed it.  The controller also holds `output/server.lock` for its life
and `graph_writer.lock` while it publishes.  Requests reach it as files in a
queue directory, results leave as receipts and an append-only event file.  The
session is called by the controller in its own thread; the traffic and probe
threads write only files.  The control UI starts the controller as a child and
reads its events.

`PROJECT.json` lists every component with its status, and under "hazards" what
can go wrong at which line.

## Modules

| module | models | abstract view |
|---|---|---|
| `LabGate` | what any incident owes the lab: a fault appears only under a block, and a block is lifted only when the lab is clean | - |
| `FaultTransaction` | `FaultTransaction` of `faults_v3.py`: constructor, save, inject row by row (intent, command, active), recover row by row, confirm, unlink; the caller `_run`/`capture_raw_v3`/`cli.recover` around it; death; late commands; lease expiry | implements `LabGate` |
| `LabOwnership` | lock files and journal shared by controllers, capture schedules, graph monitors and recovery commands, one action per file operation, with death | transaction reduced to "journal then fault" |
| `LabOwnershipProofs` | its theorems | |
| `Controller` | `serve`, `run`, `_run` with every `except` and `finally`, the request bus, traffic threads, receipts, recovery | implements `LabGate` |
| `ControllerProofs` | its theorems | |
| `ProgressiveSession` | `_observe_early`, `ProgressiveSession.advance`, `VersionedLedger`, `GraphGuidedPolicy`, `repair_supported`, with a clock | - |
| `ProgressiveSessionProofs` | its theorems | |
| `CaptureSchedule` | `capture_raw_v3`, `write_raw`, `publish_staged`, resume, pause, `split_raw_v3` | lease and journal reduced to one owner each; any number of collectors |
| `CaptureScheduleProofs` | its theorems | |
| `ControlPlane` | `create_run`, `inject_fault`, `recover_fault`, `sync_controller_events` of `app.py` and `LiveV3Bridge` | controller reduced to the events it emits |
| `InjectionProofs` | the theorems of `FaultTransaction` and of `ControlPlane`, the two ways a fault gets into the lab | |
| `SimEpisode` | `InvestigationEnv` with its graph, worlds, tools, exact belief, ledger, mask, step, score, checkpoint state and replay | - |
| `SimPlanner` | `one_step_plan`, the full-information reference, `FixtureEnv` with its catalogue and its exact planner | - |
| `SimValidation` | the deterministic checks of `validate.py` as predicates; left out are those of probability tables and distance decay, the sampled frequencies and the replays through the Gymnasium wrapper | - |
| `Simulator` | the commands over them: `RolloutCollector`, `compute_gae`, `update_policy`, `run_training`, `CheckpointManager` with deaths, `evaluate_baselines`, fixtures, `run_validation` | - |
| `SimulatorProofs` | its theorems | |
| `RawEvidence` | `measurements_v3`, `metrics/*`, `fit_encoder`, `RawEvidenceBackend.execute` on one family of a window | - |
| `FrozenTask` | catalogue, prototype model, cause-set decoding, the replay environment, `BoundedDP`, rules, tabular and hybrid policies, challenges, scores | - |
| `Learning` | stratified sampling, expected and two-step SARSA, replay buffer and targets of the DQN, the training loop's episodes and validations | - |
| `Experiment` | composes the three and adds processes and files: training with checkpoints and deaths, and the chain encode, fit, train, validate, seal both, reserved test, challenge for two scopes over one source tree | - |
| `ExperimentProofs` | its theorems | |
| `KnowledgeGraph` | `writer_lease`, `poll_and_propagate` with `update_node_metrics`, `dynamic_expansion`, `build_context`, the chat's `run` and `_Watcher`, one action per query | telemetry any reading |
| `KnowledgeGraphProofs` | its theorems | |

A proof module that needs facts about numbers, finite sets, folds or sequences
begins with them, under "Facts about data".

`MC<Module>` modules hold the values of constants; each `.cfg` names one
question.

State and code correspond as follows.

* `FaultTransaction`: `doc` is the object's `self.doc`, `journal` the file,
  `fault` what is really wrong in the lab, `clean` the cursor of the recovery
  loop, `pending` commands whose client was killed.  A command that raises may
  still have acted, may act later (`Pending`), or not at all: that is what
  `subprocess.run(timeout=...)` promises about a Docker client.
* `LabOwnership`: `lock[f]` is the file with its pid, or empty between
  `os.open(O_EXCL)` and the write; `held[p]` the context managers a process has
  entered, left in reverse order; `todo[p]` what it still wants to take.  Every
  look and the act that rests on it are two actions: a recovery command reads a
  lock and unlinks it by name later, `inject()` looks for a journal and replaces
  the file later.  `raced` and `undercut` are history variables: recovery
  commands that ran beside another one, and whether one of them has removed the
  lock of a running process.
* `Controller`: `pc` follows the statements of `serve` and `_run`; `draft` is
  the receipt being built, `record` the receipts written, `tx` whether the
  transaction was constructed (the code distinguishes this), `threads` whether
  traffic runs.  Exceptions are told apart by whether `serve` catches them.
* `ProgressiveSession`: `clock` is `time.time()`, `end` the end of the current
  prefix, `view` the packets of that prefix, `packets` the ledger, `history`
  the posterior history whose emptiness matters, `result` the decision.
* `CaptureSchedule`: `saved` is the state file, `mem` the whole of it as a
  collector read it and will write it back, `bundle` the directory of an
  incident (none, staged, published), `sound` whether a collector's attempt has
  raised nothing.  `lease` is `capture.lock`, held from the baseline until the
  slot is recorded and given back on every way out of that block; a collector
  that dies under it leaves a `Dead` lock, which refuses every other until the
  recovery command removes it.  `beside` is a history variable: the collectors
  that ran beside another one after they had loaded the state.

* `ControlPlane`: `ui` is the handler at work, between its transactions;
  `lease`, `basic`, `status`, `inst`, `attempt` and `nextEvent` are the rows of the
  database; `events` the shared log, in which a run reads everything from its
  place on, whoever caused it.  `container` is the basic run that stopped the
  injector's container (one stands for its two), `late[r]` a `docker stop` of `r`
  that outlived the 15 seconds of its client and may land at any later time.
  `lost` is a history variable: the runs whose lease the code drops (a request
  refused at admission, a controller or server that dies at the wrong place, a
  handler that raises).  It makes the list of leaks explicit, and
  `LeaseHasKeeper` says that there are no others.
* `KnowledgeGraph`: `since` joins `anomaly_flag` and `anomaly_since` of a node
  (0 while the flag is false), `triggers` is the propagation edges; `cycle` and
  `ex` are the local variables of a poll and of an expansion, which other
  processes run between.  `missed` and `still` are history variables: an alert
  whose context could not be built, and a graph that nobody has changed since
  the expansion began.

* `SimEpisode` and `FrozenTask` compute with whole numbers: likelihoods are
  weights over a common `SCALE`, a posterior is its unnormalised mass, and a
  comparison of two values multiplies both by the same powers, so that a tie is
  a tie.  Where the code compares with a tolerance the models compare exactly.
  The simulator's network is its version number with a fixed critic, the DQN of
  the experiment chooses anything its mask allows.
* `Simulator`: `mode` is the command; `envs`, `draws`, `batch`, `adv`, `policy`,
  `update` the trainer's objects; `disk` the two files, `snap` what the process
  was when each was written (history), `lostBest` whether a death fell between
  the two files of one save (history).
* `Experiment`: `mode` is `encode`, `play`, `train` or `pipeline`.  In the first
  three `scene` is what the process holds and `disk` its checkpoints; in the
  last `disk` is each scope's files, `procs` the running command, `joint` the
  common seal and `source` the tree, which an operator may edit and put back.
  A file is the pair of what made it: source and checkpoint.  A process reads
  the tree and its hash in one step when it starts, a scope runs one command at
  a time, and one challenge cell stands for a method under a scenario; these
  are named here because the code does not promise the first two.

## Runs

| run | question | bounds | answer |
|---|---|---|---|
| `fault_transaction` | does the journal cover the lab through failing, timed-out and late commands, a death and repeated recovery, does the transaction implement `LabGate`, and is the block lifted by recovering again, unless a late command was overtaken? | one target of each mechanism, two transaction identities, one death | holds |
| `fault_late_stop` | can every blocked lab be recovered (docstring `faults_v3.py:95-96`)? | one stop target | violated |
| `lab_ownership` | does recovery get through the locks of the dead and lift the block? | a controller, a capture schedule, a monitor, a recovery command run again and again, one death, torn lock files | holds |
| `lab_recoveries` | does the lab have one owner, its journal and its locks, until a recovery command takes a running process's lock, and can only one do so that ran beside another? | the same beside two recovery commands at once, one death of any of them | holds |
| `lab_wedged` | can recovery always be run again (message `bus.py:46`)? | a recovery that is killed | violated |
| `controller` | one incident per request, quiet repair, honest receipt, lab blocked until clean, implements `LabGate`; is every request taken in the end? | a faulty and a healthy case, policy, stop and malformed requests, one death, early mode, threads that outlast their join | holds |
| `session` | exact ledger, grounded diagnosis and repair, anomalies confirmed first; does the deadline decide every session? | four tools, two causes, four credits, three probes, clock to 5 | holds |
| `capture_schedule` | recorded slots have sound bundles of their own; the seal is exact; is a slot lost only to a collector that ran beside another; does starting collectors again complete the cohort while none does? | two collectors, two slots, two mishaps | holds |
| `control_plane` | does a run in progress hold the lease, is a stopped container leased to the run that stopped it unless its stop came late, is somebody on the way to give each lease back? | two live runs, two basic ones, one death of server or controller, two controller starts, stops that land late | holds |
| `knowledge_graph` | does a whole cycle repair the edges a killed writer left, is an undisturbed expansion exact, does the chat's message keep up with its alerts and stop telling of an incident? | three services in a chain, two writers, expansions of two hops, three anomalies | holds |
| `simulator` | do episodes, totals, advantages and planners say what they should for every action, and is a torn or whole checkpoint resumed exactly? | three services, four worlds, two environments, rollouts of two steps, two updates, one death, the whole fixture catalogue under six budgets and utilities | holds |
| `experiment` | does the encoder separate its training windows; is every method's decision grounded, priced and scored alike; is training exact and resumable; is reserved data opened only under the seal, kept, and does the chain end? | three probes, 15 incidents, four training runs, two scopes with two methods, one death, two edits | holds |

The two violated runs are genuine disagreements with the quoted lines;
`PROJECT.json` "findings" explains each.

A passing run checks its module's type invariant as one conjunct of a larger
invariant (`LabIsGuarded`, `RequestsAreAnswered`, `DecisionsAreGrounded`,
`RecordIsSound`, `LabIsLeased`, `GraphIsExact`); the parts have names and
comments of their own.

Two more things the models do as the code does, and which are easy to see in
them although no run is about them.  In `Controller` a transaction that injected
nothing has no journal, so traffic threads that outlast their join
(`early.py:87`) leave the lab unblocked.  In `ProgressiveSession` a turn slower
than fifteen seconds makes a refresh identical to a packet already charged, and
the incident ends in an error (`pc = "refused"`, `early.py:291`) where it should
wait or defer.  And one in `Experiment`: when `compare --split test` fails before
its report exists, its failure is written in the report's place
(`cli.py:278-286`), and every later opening reads that file as a report and
raises; `HeldUp` names it among the reasons why `ExperimentSettles` may stop
short.

`BlockIsLifted` of `LabOwnership` is conditional on `Wedged`: a process that
dies after creating a lock file and before writing its pid, or under
`shared/server.lock`, leaves a file that `cli.recover` never removes; the
operator has to.  `lab_wedged` is the finding about it.

Three properties name what the code does not prevent, and say that nothing else
leads there:

* `UndercutNeedsTwo`.  Of two recovery commands that find the same dead lock one
  removes it, a controller starts and makes its own, and the other one unlinks
  that by name (`cli.py:38-40`; the command takes its own lock at line 47 only).
  After that two processes may drive the lab at once, and `LabIsGuarded` and
  `BlockIsKept` promise nothing.  Until then they promise everything, however
  many recovery commands run; and one that runs alone removes dead locks only.
* `LossNeedsTwo`.  Of two collectors that overlap, one writes back the state it
  read before the other recorded a slot (`raw_schedule_v3.py:65-69,174`); the
  slot is captured again.  No failure, death, pause or restart does that, and
  `RecordIsSound` holds with any number of collectors.  `CohortIsSealed` is about
  collectors that run one after another.
* `LabIsLeased`.  A `docker stop` that outlives its client (`app.py:908-911`) is
  reported as a failed injection, and the lease is given back.  When it lands
  the container is down without a lease, beside whoever was admitted since; no
  `basic_injection` row names it, so that `recover_fault` refuses.  It is the
  only stopped container without the lease of its run.

### Bounds, and why they suffice

* *Registry.* The code registers single faults and one pair (CPU and a stop);
  one target per mechanism, and the pair, exercise every branch of the loops
  over rows.  A third row adds no new order.
* *Deaths* (`MaxCrashes`, `MaxDeaths`, `MaxMishaps`). One death reaches every
  intermediate file state, and recoveries that fail beside it what a second one
  would: a recovery that dies leaves no other file than one that raises, but for
  its own lock, which `lab_wedged` is about and `lab_recoveries` includes.  The
  capture schedule has two mishaps, so that each of its slots can be hit, or the
  slot and the collector that repeats it.
* *Collectors, recovery commands.* Two of each are the least that overlap; they
  are alike, so that a third adds no new pair.  Whether recovery gets through is
  asked with one command at a time, started for ever: two may refuse each other.
* *Time in the session.* The real limits are seconds (first decision, healthy
  minimum, 120 second deadline, 15 second age); only their order matters, so
  they are 1, 2, 3 and an age of 1, with a horizon beyond the deadline so that
  evidence can age past it in the gate.
* *Budget.* Four credits and three probes over tools of cost 1 and 2: both
  limits bind, each before the other in some behaviour.
* *Runs of the control plane.* Two live runs are needed for one to read the
  other's events; two basic ones for a late stop of the first to land beside the
  second.  Runs of a kind are alike, which the symmetry of that run uses; its
  properties are invariants.
* *Knowledge graph.* Three services in a chain are the least with an expansion
  that is cut short by its cap; each may become anomalous, or one of them again
  after it recovered (`MaxFlags`).  The second writer meets the first one's lease.
* *Simulator.* Three services are the least with both a chain and a fork; two
  environments and rollouts of two steps let an episode end inside a rollout and
  another run over its end; three probes and five credits end episodes by each
  limit.  The first draw of an incident decides the rest, so four worlds are
  enough for causes at each place and both workloads.
* *Experiment.* Training windows are four or five samples in every arrangement
  of a small range, which covers even and odd windows on both sides of every
  threshold.  Incidents of both splits include unseen symbols, missing packets,
  errors and the pair.  A buffer of four with a warm-up of three wraps within six
  episodes, which end one past a save and on a validation.  One death and two edits
  are enough for the tree to change between any two commands and to return.
* *Requests.* One request of each kind that `serve` tells apart, and a healthy
  case beside a faulty one, in every order: an incident meets whatever another
  one left in the lab.  That two faulty ones do no more to each other, and the
  windowed mode, are covered by the proofs.

### Fairness

* `FaultTransaction`: weak fairness of the program's own steps, and strong
  fairness of the *good* outcome of cleanup, health and a re-run of recovery:
  an operator repeats the command until it works, and a lab that is never
  healthy again is not the program's promise.  Death is bounded.
* `LabOwnership`: weak fairness for each process's steps and for starting the
  recovery command again; strong fairness of the operator who stops an idle
  controller or a monitor, of a schedule that ends, and of a recovery that works
  when it is tried again and again.
* `Controller`: weak fairness of the loop, strong of starting a server and of a
  recovery that succeeds: the operator restarts a service that ended.
* `ProgressiveSession`: weak fairness of time and of the session's steps; model
  and policy are unconstrained.
* `CaptureSchedule`: weak fairness of each collector's steps and restarts, of the
  operator's recovery command and of lifting a pause, and of the seal; mishaps
  and pauses are bounded.
* `KnowledgeGraph`: weak fairness of the watcher's polls and of the queries of
  an expansion; none for the writers, which may stop for ever.
* `Experiment`: weak fairness of each scope's next command and of the seal: an
  operator who follows the driver's order starts again what has not finished.
  Deaths and edits are bounded; encoding, playing and training need none, their
  properties being safety.

## Proofs

`InjectionProofs` (part 1) proves, for every registry of targets, scenario set,
owner set and number of deaths, with only `FaultTransaction`'s named assumption
on the constants:

| theorem | states |
|---|---|
| `TypeCorrect` | `Spec => []TypeOK` |
| `JournalAlwaysCovers` | `Spec => []JournalCovers`: every fault in the lab has a journal row that still owes its cleanup, unless that cleanup passed while its command was in flight |
| `CleanupsAreAttempted` | `Spec => []EveryCleanupAttempted` |
| `ConfirmationIsClean` | `Spec => []ConfirmedMeansClean` |
| `JournalAdvances` | `Spec => JournalOnlyAdvances`, an action property |
| `ImplementsGate` | `Spec => GateSpec`, refinement of `LabGate` |

None of these is inductive.  `JournalCovers` speaks of the file; the program
works on its own copy, and between two saves they differ.  The invariant
`IInv` therefore adds how copy and file are related at each program location,
that rows name distinct targets of the chosen scenario, how far the row being
injected or cleaned may have come, and that what is late belongs to a row.  The proof that a step preserves
it has one lemma for each group of actions and one step per conjunct that the
group can disturb.

`CaptureScheduleProofs` proves, for every list of distinct slots, every number of
incidents and failures and any number of collectors beside one another, from
`ScheduleAssumption` alone:

| theorem | states |
|---|---|
| `AcceptedIsPublishedTheorem` | `Spec => []AcceptedIsPublished` |
| `OnlyRecoveredIsKeptTheorem` | `Spec => []OnlyRecoveredIsKept` |
| `RecordIsSoundTheorem` | `Spec => []RecordIsSound`, with `TypeOK` and `CompleteIsExact` |
| `LossNeedsTwoTheorem` | `Spec => LossNeedsTwo`, an action property: a recorded slot is lost only to a collector that ran beside another one |

The invariant `IInv` adds to the checked properties what a collector holds in
its hands: the incident of a working collector is numbered, its own, and made
for the slot it is at; its bundle is as far as its program counter says; the lab
carries nothing of it once it may be staged; and every collector's copy of the
record, not only the file, is backed by the disk and called complete only when
it is whole, which is the cardinality argument of `SlotCount` and `FullRecord`.
For the last theorem `RInv` says that collectors that run together are all in
`beside`, and that one which is not has the file in its hands and works for a
slot that is not on record.

`LabOwnershipProofs` proves, for every number of controllers, capture schedules,
monitors, recovery commands at once and deaths, with or without torn locks, from
`OwnershipAssumption` (a process runs one command only):

| theorem | states |
|---|---|
| `LabIsGuardedTheorem` | `Spec => []LabIsGuarded`: until a running process's lock is removed, one process drives the lab, the journal names the one with a fault in it, every process finds its locks where it left them |
| `BlockIsKeptTheorem` | `Spec => BlockIsKept`, an action property |
| `UndercutNeedsTwoTheorem` | `Spec => UndercutNeedsTwo`, an action property: the first to remove a running process's lock is a recovery command that ran beside another one |

That the lab has one owner is not inductive: it follows from who holds
`capture.lock`, and that a lock stays with its holder depends on every unlink by
name.  `IInv` therefore adds, for each kind of process and each program
location, exactly which files it holds and is still after (`ControllerAt`,
`CaptureAt`, `MonitorAt`, `RecoveryAt`).  Those hold whatever happens, since they
are about the process alone.  What ties them to the files is `Sound`, for as
long as nobody is `undercut`: a file being written is its writer's (`Pending`),
a journal that was looked for has not appeared since (`Gated`), and a file that
a recovery command which is not in `raced` is about to unlink is still the dead
process's it inspected (`Condemned`).  One in `raced` may find another file
there: if it unlinks a running process's, `undercut` becomes true in that step.

`ControllerProofs` proves, for every set of requests with any mix of commands
and healthy cases, every number of deaths, in both modes and with or without
threads that outlast their join, from `ControllerAssumption`:

| theorem | states |
|---|---|
| `ControllerInvariant` | `Spec => []IInv` |
| `ControllerRepairsQuietly` | `Spec => []QuietRepair` |
| `ControllerAnswersRequests` | `Spec => []RequestsAreAnswered`: one incident for a request at most, a receipt that is true |
| `ControllerReceiptsAreFinal` | `Spec => ReceiptsAreFinal`, an action property: a receipt's last word is never rewritten |
| `ControllerKeepsGate` | `Spec => GateSpec`, refinement of `LabGate` |
| `ControllerFaultsAreBlocked` | what the refinement is for: a lab with a fault is blocked |

That a request comes to one incident is not inductive: a request that waits has
not been served, one that is served has no file, and what the listing of the
directory still holds is among the files; `BusInv` and `RunsInv` say so.  A
receipt is written by the innermost finally block, long after what it claims, so
`DraftInv` follows the receipt in memory and `LabInv` the lab through each
program location, and `IncidentInv` says that no recovery command runs and no
other journal appears while an incident does.  `TrafficInv` relates the threads
to where the incident is, which `QuietRepair` follows from.  `LabGate` has the
same mapping as in the run.

`ProgressiveSessionProofs` proves, for every catalogue of tools and causes,
every price, every limit and whatever the diagnostic model and the policy
answer, from `SessionAssumption`:

| theorem | states |
|---|---|
| `SessionInvariant` | `Spec => []IInv` |
| `SessionDecisionsAreGrounded` | `Spec => []DecisionsAreGrounded`: fresh support for every cause that is diagnosed and repaired, anomalies confirmed first |
| `SessionHasOneLedger` | `Spec => []OneLedger`: the counts are those of the packets, within the budget, and the model reads the latest symbol of each tool |

The ledger is a sequence of packets, its credits a fold over it and a tool's
packet the last one with its name.  `LedgerInv` ties the credits to the fold
(`Paid`), `HistoryInv` the model's input, which a refresh edits in place, to the
last packets; that the edited entry is the only one of its tool is what makes
`RemoveFirstMatch` right.  `AnomaliesConfirmedFirst` is about a session that
gives up, which by then has nothing it could still pay for.

`InjectionProofs` (part 2) proves, for every set of live and basic runs and every
number of deaths and starts, from `ControlPlaneAssumption`:

| theorem | states |
|---|---|
| `ControlPlaneInvariant` | `PlaneSpec => []PlaneIInv` |
| `ControlPlaneLabIsLeased` | `PlaneSpec => []LabIsLeased`: a run in progress has the lease, and so has the run that stopped the container, unless its stop landed after it was reported as failed |
| `ControlPlaneLeaseHasKeeper` | `PlaneSpec => []LeaseHasKeeper` |

The log has no request ids, so a run gives back the lease at any result it
reads.  That this never frees the lab under a run in progress depends on how far
the log was read: while a request is on its way, no result lies beyond the place
its run reads from (`LogInv`), because only one request is (`QueueInv`), it is
sent after the log was measured, and only its end writes a result.  Conversely a
run that has the lease without a request has its result there (`KeeperInv`,
`KeptInv`), unless a torn line hides it or it was lost in a way the model names
in `lost`.  A late `docker stop` belongs to a run that no handler and no row names
any more, and which kept the lease or was reported as failed (`LateInv`).
`HandlerInv` and `RowInv` say what the handler in progress and the
database rows have to do with each other.  The lemmas about the log say what of
it can be read, that it only grows, and what folding its unread events does to
the rows (`AppliedFacts`).

`KnowledgeGraphProofs` proves, for every list of services, every CALLS relation,
every number of hops, writers and anomalies, from `GraphAssumption`:

| theorem | states |
|---|---|
| `GraphInvariant` | `Spec => []IInv` |
| `GraphIsExactTheorem` | `Spec => []GraphIsExact`: the edges after a cycle are those of its anomalies, whatever cycle was cut short before; an expansion of a graph that keeps still finds what is within its hops, names the oldest, and knows when the cap cut it short |
| `ContextIsCurrentTheorem` | `Spec => []ContextIsCurrent` |

`CycleInv` says at each place of a cycle what the poll knows: which of the
services it has passed are anomalous, and that no edge starts at another of them.
At its end that is every service, so stale edges are gone, and the links that are
made complete the rest.  `ExpandInv` compares the search with the balls around
its start.  The property speaks of paths, the search marks nodes as visited:
`BallNext` says that the ball of one hop more is the ball with its anomalous
neighbours, by extending and cutting paths, and `BallGrows` that a search that
has run dry has found everything; `ExpansionEnds` puts them together.

`ExperimentProofs` proves, for every catalogue and prices, every set of
incidents, every draw of behaviour and samples, every policy, buffer, lag and
interval, and every number of scopes, methods, deaths and edits, from
`TaskAssumption`, `CatalogueAssumption`, `LearningAssumption` and
`ExperimentAssumption`:

| theorem | states |
|---|---|
| `SealsHold` | `Spec => []SealsAreExact`: reserved data is read only under the common seal, by the source that was sealed |
| `ReservedResultsAreKept` | `Spec => ReservedIsKept`, an action property: nothing measured on reserved data is lost or measured again |
| `CheckpointsHold` | `Spec => []CheckpointsAreExact`: a run that died and was resumed is the uninterrupted run |
| `LearningHolds` | `Spec => []LearningIsExact`: each step of a trace is learned from once, with its own target; the buffer holds the latest transitions |
| `InvestigationsAreSound` | `Spec => []InvestigationIsSound`: a probe is bought once and within the budget; a method without lots tells apart only what it bought |
| `SummariesAgree` | `Spec => []ScoresAgree`: returns, causes and confusion of a summary add up to its sessions and counts |

Each mode of the module has an invariant of its own.  Seals are about files that
outlive their makers: `PipelineInv` says of each scope which files may exist
beside which (`InOrder`), that the command at work read the source its files are
made by (`DerivedByOne`, `MadeBySeal`), and that what is frozen carries the common
seal (`SealedTogether`); that nobody can edit the tree under a running command is
not needed, since a process keeps the source it started with.

Checkpoints: `TrainInv` compares a training process and both its files with the
uninterrupted run, a recursive function on the episodes (`Exact`).  It is not
inductive on the process alone.  Between an episode and its validation the
process is one episode ahead of a run that can be saved (`Unvalidated`), and
after a death the best file may be ahead of the latest one (`Stored`); the replay
then writes it again, and the proof is that it writes the same.

Learning: since the process is the uninterrupted run, it is enough to follow that
one, by induction on its episodes and on the steps of an episode.  `LearnOk` says
what of the trace has been learned when the next reward is not known yet, which
for two-step SARSA is all but the last row (`Owed`); for the DQN `Holds` says
that the ring buffer, read from its cursor on, is the end of the transitions,
also at the step at which it fills up, and `TargetsOk` that each gradient step
used the network of the last synchronisation (`SynchronisedSteps`, about whole
division).

Investigations: "decides by what it bought" speaks of two incidents, which an
invariant about one state does not reach.  `Trail` is the sequence of states that
a policy without lots walks through from the reset on; `PlayInv` says that an
investigation is on the trail of its incident, and `TrailsAgree` that two trails
whose incidents answer alike to what the first one bought are the same trail.
Sums over outcomes are recursions over a set in an order the definition leaves
open; `AddingUnordered` says that the order does not matter, and `TotalOfGroups`
that a sum may be taken by groups, which is what a summary by session and a
confusion matrix do.

`SimulatorProofs` proves, for every number of services, environments, cases,
baselines and deaths, every catalogue of worlds, every budget, price of a wrong
answer and score, from `SimulatorAssumption` and `ProbeAssumption`:

| theorem | states |
|---|---|
| `EpisodesAddUp` | `Spec => []EpisodesAreSound`: an episode's ledger, credits, return and belief are those of the actions it executed, an open one has a probe left, and the totals of a method add up |
| `AdvantagesAreReturns` | `Spec => []AdvantageIsReturnToBoundary`: no reward leaks across an episode or an environment |
| `CheckpointsHold` | `Spec => []CheckpointsAreSound`: the replay of a whole checkpoint is never refused, and the best score is on disk |
| `ResumesAreExact` | `Spec => ResumeIsExact`, an action property: the hidden worlds and every RNG's position come back |
| `EnvironmentsAgree` | `Spec => []StepsAgree`: the environment of `fixtures.py` allows what that of `environment.py` allows and does the same with it |
| `WalksAreClean` | `Spec => []WalkFindsNothing`: the validation command's random walk finds no violation, however long |

`SimulatorAssumption` gives the constants their types and says that the graphs
of the incidents are among those the hypotheses range over; `ProbeAssumption`
that some probe can be afforded at the start: the quick metrics probe costs one
credit (`tools.py:190`) and a budget is one at least (`config.py:106`).  Every
command of the repository leaves all tools available; an environment built by
hand with none would open on a mask of STOP alone, and is what the assumption
leaves out.

An episode is kept in five accounts by as many files.  `EpisodeOk` says that each
is what the executed actions make it, `Live` that replaying them from the reset
gives the episode again, step by step (`Retraces`).  Both are kept by any action
of the mask, for three reasons.  The belief is a product over the records, in an
order the definition leaves open, so that updating it with what is new is
updating it with everything (`FoldingExists`, `ProductParts`); a detailed probe
returns the quick one's records again, and only the unseen ones count
(`Covered`); and the credits and the return are sums over the actions.  An
episode whose mask holds nothing but STOP has been ended by
`ProbeTerminationReason`, so an open one has a probe left.  A resumed episode is
a replay of a history that was live when it was saved: the world it regenerates
is the same by the descriptor, everything else by the replay.

GAE runs backwards over the rows of one environment (`Chained`); `Advantage` is
the sum up to the episode's end or the batch's, and one row is taken off it at a
time.  The checkpoint files are compared with the history `snap`: `FilesOk` says
what a whole file holds, `SavesOk` that the best file goes with the manager's
score except in a death's window, `BestOk` by how much the best of the training
may trail, counted from each validation (`Slack`).

What the proofs asked for and the runs had not shown.  The first version of
`HandlerInv` said that no container is stopped when a lease is asked for; with
two basic runs the other's may be, and TLC has the counterexample.
`GraphAssumption` had not said that the services form a list, nor
`SessionAssumption` that no tool is called `STOP`, which the policy's answer may
be: the catalogue's names are `kind/service/version`, and `early.py:253,311`
tells the two apart by name.

### Only model-checked

Liveness (`BlockIsLifted`, `RequestsAreTaken`, `SessionEnds`, `CohortIsSealed`,
`ResolutionIsTold`, `ExperimentSettles`) is beyond TLAPS, which has neither fairness nor ENABLED.

Of `Experiment`, `EncoderSeparatesTraining` and `DpKeepsItsPromise` are checked
on the instances above only.  The encoder sorts its readings with an operator
that chooses among permutations and compares medians with fractions of samples;
the planner's promise compares two recursions over the tree of all answers, and
what it needs is that an expectation of a maximum is no less than the maximum of
expectations, level by level, of values that are multiplied by powers (`^`).

Of `Simulator`, `PlannersAreRight` and `ValidationPasses` are checked on the
instance.  Proved of the first is `StepsAgree`, of the second that the walk finds
nothing.  Not proved is what is about values: that a planner's promise is kept,
that the two planners agree one step ahead, and that each baseline stays within
the mask, which for the planning one needs its values to be numbers.  They are
multiplied by powers of the scale, and the provers know nothing of `^`.  The
other checks of the validation command that are modelled evaluate fixed examples.

Induction over data is out of reach in the form the library offers it, a theorem
with a predicate as its parameter.  The proof modules state what they need of it
with sets in place of predicates (`NumberInduction`, `LeastNumber`,
`FiniteSetInduction`, `IterationExists`), which is enough for folds over a ledger
or a log, for the balls of the graph and for recursive functions over episodes,
steps and finite sets.

## Not modelled, and why

* Network arithmetic (gradients, the values of the DQN and of the simulator's
  actor and critic) and random draws: floating point, left open as any answer.
* Evidence queries, log parsing, narration, rendering, asset hashing, figures,
  explanations and command-line formatting: I/O and presentation.
* The v1 and v2 capture lifecycle, derivation, encoders and comparisons: they
  precede the v3 flow and are kept for recorded datasets.
* Entropy-ranked fixed candidates, ablations, resource snapshots and one-off
  scripts.
* Docker, the kernel's process table and the lab's proxy are the environment:
  their actions are marked external in the map.

## Plan

1. `LabGate`, `FaultTransaction` and its proofs - done.
2. `LabOwnership` and its proofs - done.
3. `Controller` - done.
4. `ProgressiveSession` - done.
5. `CaptureSchedule` - done.
6. `ControlPlane` - done; liveness of the bridge is left.
7. `KnowledgeGraph` - done.
8. `SimEpisode`, `SimPlanner`, `SimValidation`, `Simulator` - done.
9. `RawEvidence`, `FrozenTask`, `Learning`, `Experiment` - done.
10. `CaptureLegacy` (the v1/v2 marker beside the v3 journal) - left.

Proofs: all safety properties of the modules 1 to 7 are proved, those of 8 but
for the planners' values and the fixed examples of the validation, and those of 9 but for
the encoder and the planner.
