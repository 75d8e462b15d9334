------------------------------ MODULE Experiment ------------------------------
(* The frozen experiment from sealed measurements to its reserved results.     *)
(* mode says which of its parts runs:                                          *)
(*   encode    an encoder is fitted on training windows;                       *)
(*   play      a method investigates every incident of a split, as it is or    *)
(*             under a declared challenge, and is scored;                      *)
(*   train     one training run, with its checkpoints and the deaths of its    *)
(*             process;                                                        *)
(*   pipeline  the commands of two scopes that share one source tree and one   *)
(*             seal: derivation, fitting, gate, training, validation, reserved *)
(*             test and challenge, each a process that writes its files one at *)
(*             a time, may die, and is started again by the operator.          *)
(* In the pipeline an artifact is what it depends on: the source that made it  *)
(* and the checkpoint it used.                                                 *)
EXTENDS Learning, RawEvidence

CONSTANTS
  Windows,      \* sets of training windows for the encoder
  Plays,        \* << task, << split, method >>, scenario >> that are played
  Runs,         \* << task, method >> that are trained
  Stops,        \* the boundaries an operator may ask a training run to stop at
  Scopes,
  Derived,      \* scope -> the incidents it derives, in order
  Methods,      \* the methods a scope compares, in order
  LearnedMethods,
  INTERVALS,    \* validation intervals of a training command
  Gates,        \* scope -> the verdicts its full-evidence reference may have
  MaxDeaths, MaxEdits,
  Nothing

ASSUME ExperimentAssumption ==
  /\ \A s \in Scopes : Derived[s] \in Seq(Nat \ {0})
  /\ Methods \in Seq(STRING) /\ Methods # << >>
  /\ \A p \in Plays : p[2][2].kind \in PolicyKinds

VARIABLES
  mode,
  scene,    \* encode, play, train: what the process holds
  disk,     \* train: [latest, best];  pipeline: scope -> its files
  procs,    \* scope -> the running command
  joint,    \* the seal over both scopes
  source,   \* the source tree
  deaths, edits

vars == << mode, scene, disk, procs, joint, source, deaths, edits >>
pipeline == << procs, joint, source, edits >>

-------------------------------------------------------------------------------
(* encode                                                                      *)

EncodeScene(training) == [training |-> training, encoder |-> Nothing, refused |-> FALSE]

(* An encoder is fitted once; overlapping bands are refused.                   *)
Fit ==
  /\ mode = "encode" /\ scene.encoder = Nothing /\ ~ scene.refused
  /\ scene' = IF Fitted(scene.training)
              THEN [scene EXCEPT !.encoder = FitEncoder(scene.training)]
              ELSE [scene EXCEPT !.refused = TRUE]
  /\ UNCHANGED << mode, disk, deaths, pipeline >>

-------------------------------------------------------------------------------
(* play                                                                        *)

NoEnv == [decision |-> [kind |-> "idle"]]

Split(task, role) ==
  Only(Numbers, {i \in DOMAIN Incidents :
                   Incidents[i].role = role /\ CauseSet(Incidents[i].causes, task)})

PlayScene(task, role, def, scenario) ==
  [task |-> task, model |-> FitModel(task), def |-> def, scenario |-> scenario, env |-> NoEnv,
   incident |-> Nothing, todo |-> Split(task, role), outcomes |-> << >>]

SceneSpecs == ChallengeSpecs(scene.scenario)
ScenePackets == ChallengePackets(Incidents[scene.incident].symbols, scene.scenario)

(* A network that would see prices beyond its feature scale is refused.        *)
PriceRefused == scene.def.kind = "dqn" /\ PricesRefused(SceneSpecs)

BeginIncident ==
  /\ mode = "play" /\ scene.env = NoEnv /\ scene.todo # << >> /\ ~ PriceRefused
  /\ scene' = [scene EXCEPT !.incident = Head(scene.todo), !.todo = Tail(@),
                            !.env = Reset(SceneSpecs)]
  /\ UNCHANGED << mode, disk, deaths, pipeline >>

Proposed == PolicyChoices(scene.model, scene.task, scene.env, scene.def)

(* A policy sees what is public, and the packets answer what it asks.          *)
Investigate ==
  /\ mode = "play" /\ scene.env.decision = NoDecision
  /\ \E a \in Proposed :
       /\ Accepts(scene.env, a)
       /\ scene' = [scene EXCEPT !.env = Step(scene.model, @, ScenePackets, a)]
  /\ UNCHANGED << mode, disk, deaths, pipeline >>

(* The label is read when the investigation has ended.                         *)
ScoreIncident ==
  /\ mode = "play" /\ scene.env.decision.kind \in {"DEFER", "DIAGNOSE"}
  /\ scene' = [scene EXCEPT !.env = NoEnv, !.incident = Nothing,
                            !.outcomes = Append(@, ScoreOutcome(scene.incident, scene.env))]
  /\ UNCHANGED << mode, disk, deaths, pipeline >>

-------------------------------------------------------------------------------
(* train.  A process holds its run and where it is in the loop.                *)

NoRun == [episode |-> -1]
TrainScene(task, method) ==
  [task |-> task, model |-> FitModel(task), method |-> method, run |-> NoRun, at |-> "idle", stop |-> EPISODES]
NoCheckpoints == [latest |-> NoRun, best |-> NoRun]

(* A new run when there is none, else the saved one; both refuse to go back.   *)
StartTraining ==
  /\ mode = "train" /\ scene.at = "idle"
  /\ \E stop \in Stops :
       LET run == IF disk.latest = NoRun THEN NewRun(scene.method) ELSE disk.latest
       IN /\ run.episode < stop
          /\ scene' = [scene EXCEPT !.run = run, !.at = "episode", !.stop = stop]
  /\ UNCHANGED << mode, disk, deaths, pipeline >>

TrainEpisode ==
  /\ mode = "train" /\ scene.at = "episode"
  /\ \E run \in {Episode(scene.model, scene.task, scene.method, scene.run)} :
       scene' = [scene EXCEPT !.run = run, !.at = IF ValidationDue(run) THEN "validate" ELSE "save"]
  /\ UNCHANGED << mode, disk, deaths, pipeline >>

(* The best checkpoint is written as soon as it is known.                      *)
ValidateRun ==
  /\ mode = "train" /\ scene.at = "validate"
  /\ LET run == Validated(scene.method, scene.run)
     IN /\ scene' = [scene EXCEPT !.run = run, !.at = "save"]
        /\ disk' = IF Selects(scene.method, scene.run) THEN [disk EXCEPT !.best = run] ELSE disk
  /\ UNCHANGED << mode, deaths, pipeline >>

SavedWithoutSampler(run) == [run EXCEPT !.sampler = 0]
SavedState(run) == run

(* The latest checkpoint is written every SAVE_EVERY episodes and at the stop. *)
SaveRun ==
  /\ mode = "train" /\ scene.at = "save"
  /\ disk' = IF scene.run.episode % SAVE_EVERY = 0 \/ scene.run.episode = scene.stop
             THEN [disk EXCEPT !.latest = SavedState(scene.run)] ELSE disk
  /\ scene' = IF scene.run.episode = scene.stop
              THEN [scene EXCEPT !.at = "idle", !.run = NoRun] ELSE [scene EXCEPT !.at = "episode"]
  /\ UNCHANGED << mode, deaths, pipeline >>

TrainerDies ==
  /\ mode = "train" /\ scene.at # "idle" /\ deaths < MaxDeaths
  /\ scene' = [scene EXCEPT !.at = "idle", !.run = NoRun]
  /\ deaths' = deaths + 1
  /\ UNCHANGED << mode, disk, pipeline >>

-------------------------------------------------------------------------------
(* pipeline: the files of a scope.                                             *)

NoTraining == [source |-> 0, latest |-> 0]
NoReport == [kind |-> "none"]
Failure == [kind |-> "failure"]
Begun == [kind |-> "report", results |-> << >>, passed |-> FALSE]
Report(x) == x.kind = "report"

NoFiles(s) ==
  [derivation |-> 0, bundles |-> [i \in Range(Derived[s]) |-> 0], pending |-> {}, sealed |-> FALSE,
   model |-> FALSE, reference |-> "none", training |-> NoTraining,
   validation |-> [source |-> 0, done |-> {}], frozen |-> 0,
   test |-> NoReport, challenge |-> NoReport]

Idle == [cmd |-> "idle"]

Put(s, field, value) == disk' = [disk EXCEPT ![s][field] = value]
Become(s, proc) == procs' = [procs EXCEPT ![s] = proc]
Running(s, cmd) == mode = "pipeline" /\ procs[s].cmd = cmd
End(s) == Become(s, Idle)
PipelineOnly == UNCHANGED << mode, scene, joint, source, deaths, edits >>

(* A started process has loaded the source tree; hashes of the tree are taken  *)
(* again each time they are needed.                                            *)
Start(s, cmd) ==
  mode = "pipeline" /\ procs[s] = Idle /\ Become(s, [cmd |-> cmd, source |-> source, at |-> 0])

Gated(s) == disk[s].sealed /\ disk[s].model /\ disk[s].reference = "passed"
Trained(s) == disk[s].training.latest = INTERVALS

-------------------------------------------------------------------------------
(* Derivation: an identity, one bundle after the other, a seal.                *)

DerivationOpens(s) == ~ disk[s].sealed /\ disk[s].derivation \in {0, source}

StartEncode(s) ==
  /\ Start(s, "encode") /\ DerivationOpens(s)
  /\ Put(s, "derivation", source)
  /\ PipelineOnly

Missing(s) == Only(Derived[s], {i \in Range(Derived[s]) : disk[s].bundles[i] = 0})

(* A bundle is written under its pending name, which must be new.              *)
WriteBundle(s) ==
  /\ Running(s, "encode") /\ procs[s].at = 0 /\ Missing(s) # << >>
  /\ LET i == Head(Missing(s))
     IN IF i \in disk[s].pending THEN End(s) /\ UNCHANGED disk
        ELSE /\ Put(s, "pending", disk[s].pending \union {i})
             /\ procs' = [procs EXCEPT ![s].at = i]
  /\ PipelineOnly

PublishBundle(s) ==
  /\ Running(s, "encode") /\ procs[s].at # 0
  /\ disk' = [disk EXCEPT ![s].pending = @ \ {procs[s].at}, ![s].bundles[procs[s].at] = procs[s].source]
  /\ procs' = [procs EXCEPT ![s].at = 0]
  /\ PipelineOnly

SealDerivation(s) ==
  /\ Running(s, "encode") /\ procs[s].at = 0 /\ Missing(s) = << >>
  /\ Put(s, "sealed", TRUE) /\ End(s)
  /\ PipelineOnly

-------------------------------------------------------------------------------
(* Commands that write one file.                                               *)

FitDataset(s) ==
  /\ mode = "pipeline" /\ procs[s] = Idle /\ disk[s].sealed /\ ~ disk[s].model
  /\ Put(s, "model", TRUE)
  /\ UNCHANGED procs /\ PipelineOnly

(* Its verdict is a function of the sealed data, which the instance leaves open.*)
Reference(s) ==
  /\ mode = "pipeline" /\ procs[s] = Idle /\ disk[s].model /\ disk[s].reference = "none"
  /\ \E verdict \in Gates[s] : Put(s, "reference", verdict)
  /\ UNCHANGED procs /\ PipelineOnly

-------------------------------------------------------------------------------
(* Training: the latest checkpoint of every interval, under one identity.      *)

TrainingOpens(s) ==
  /\ Gated(s) /\ ~ Trained(s)
  /\ disk[s].training.source \in {0, source}

StartTrain(s) ==
  /\ Start(s, "train") /\ TrainingOpens(s)
  /\ UNCHANGED disk /\ PipelineOnly

TrainInterval(s) ==
  /\ Running(s, "train")
  /\ Put(s, "training", [source |-> procs[s].source, latest |-> disk[s].training.latest + 1])
  /\ IF disk[s].training.latest + 1 = INTERVALS THEN End(s) ELSE UNCHANGED procs
  /\ PipelineOnly

-------------------------------------------------------------------------------
(* Comparison on validation, then the seal of the scope's methods.             *)

Awaiting(done) == Only(Methods, Range(Methods) \ done)

(* A learned method loads a checkpoint, which the tree as it now is must have  *)
(* made.                                                                       *)
Loads(s, name) == name \in LearnedMethods => disk[s].training.source = source

ValidationOpensFresh(s) ==
  Gated(s) /\ Trained(s) /\ disk[s].frozen = 0 /\ disk[s].validation.source = 0

ValidationOpens(s) ==
  /\ Gated(s) /\ Trained(s) /\ disk[s].frozen = 0
  /\ disk[s].validation.source \in {0, source}

StartValidation(s) ==
  /\ Start(s, "validate") /\ ValidationOpens(s)
  /\ UNCHANGED disk /\ PipelineOnly

EvaluateValidation(s) ==
  /\ Running(s, "validate") /\ Awaiting(disk[s].validation.done) # << >>
  /\ LET name == Head(Awaiting(disk[s].validation.done))
     IN IF Loads(s, name)
        THEN /\ Put(s, "validation", [source |-> procs[s].source,
                                      done |-> disk[s].validation.done \union {name}])
             /\ UNCHANGED procs
        ELSE End(s) /\ UNCHANGED disk
  /\ PipelineOnly

(* The seal takes the hash of the tree as it is at the end.                    *)
Freeze(s) ==
  /\ Running(s, "validate") /\ Awaiting(disk[s].validation.done) = << >>
  /\ Put(s, "frozen", source) /\ End(s)
  /\ PipelineOnly

(* Both scopes are sealed together, once.                                      *)
SealBoth ==
  /\ mode = "pipeline" /\ joint = 0 /\ \A s \in Scopes : disk[s].frozen = source
  /\ joint' = source
  /\ UNCHANGED << mode, scene, disk, procs, source, deaths, edits >>

-------------------------------------------------------------------------------
(* The reserved test and the challenge.  A report is resumed under the same    *)
(* seal; a cell of a challenge is one method under one scenario.               *)

ReportOverwritten(s, field) == Put(s, field, Failure)

(* What a command that raised leaves: its report is never replaced.            *)
FailureReport(s, field) ==
  IF disk[s][field] = NoReport THEN Put(s, field, Failure) ELSE UNCHANGED disk

Entered(report, name, made) ==
  [report EXCEPT !.results =
     [n \in (DOMAIN @) \union {name} |-> IF n = name THEN made ELSE @[n]]]

Recorded(s, field, name) ==
  LET report == IF Report(disk[s][field]) THEN disk[s][field] ELSE Begun
  IN Entered(report, name, procs[s].source)

Unfinished(report) == IF Report(report) THEN ~ report.passed ELSE report = NoReport
Results(report) == IF Report(report) THEN DOMAIN report.results ELSE {}
Passed(report) == Report(report) /\ report.passed

TestOpensUnsealed(s) == disk[s].frozen = source /\ Unfinished(disk[s].test)

TestOpens(s) == disk[s].frozen = source /\ joint = source /\ Unfinished(disk[s].test)

StartTest(s) ==
  /\ Start(s, "test") /\ TestOpens(s)
  /\ IF disk[s].test = NoReport THEN Put(s, "test", Begun) ELSE UNCHANGED disk
  /\ PipelineOnly

(* The driver asks for the test as soon as its own scope is sealed.            *)
RefuseTest(s) ==
  /\ mode = "pipeline" /\ procs[s] = Idle /\ disk[s].frozen # 0 /\ ~ TestOpens(s)
  /\ FailureReport(s, "test")
  /\ UNCHANGED procs /\ PipelineOnly

ChallengeOpens(s) ==
  disk[s].frozen = source /\ Passed(disk[s].test) /\ Unfinished(disk[s].challenge)

(* The challenge's report is first written with its first result.              *)
StartChallenge(s) ==
  /\ Start(s, "challenge") /\ ChallengeOpens(s)
  /\ UNCHANGED disk /\ PipelineOnly

RefuseChallenge(s) ==
  /\ mode = "pipeline" /\ procs[s] = Idle /\ Passed(disk[s].test) /\ ~ ChallengeOpens(s)
  /\ FailureReport(s, "challenge")
  /\ UNCHANGED procs /\ PipelineOnly

Evaluate(s, field) ==
  /\ Running(s, field) /\ Awaiting(Results(disk[s][field])) # << >>
  /\ LET name == Head(Awaiting(Results(disk[s][field])))
     IN IF Loads(s, name) THEN Put(s, field, Recorded(s, field, name)) /\ UNCHANGED procs
        ELSE FailureReport(s, field) /\ End(s)
  /\ PipelineOnly

Complete(s, field) ==
  /\ Running(s, field) /\ Awaiting(Results(disk[s][field])) = << >>
  /\ Put(s, field, [disk[s][field] EXCEPT !.passed = TRUE]) /\ End(s)
  /\ PipelineOnly

-------------------------------------------------------------------------------
(* Deaths, edits of the source tree, and the whole.                            *)

Die(s) ==
  /\ mode = "pipeline" /\ procs[s] # Idle /\ deaths < MaxDeaths
  /\ End(s) /\ deaths' = deaths + 1
  /\ UNCHANGED << mode, scene, disk, joint, source, edits >>

(* An edit makes another tree, or brings the first one back.                   *)
Edit ==
  /\ mode = "pipeline" /\ edits < MaxEdits
  /\ source' = 3 - source /\ edits' = edits + 1
  /\ UNCHANGED << mode, scene, disk, procs, joint, deaths >>

Init ==
  /\ procs = [s \in Scopes |-> Idle] /\ joint = 0 /\ source = 1 /\ deaths = 0 /\ edits = 0
  /\ \/ /\ mode = "encode" /\ disk = Nothing
        /\ \E w \in Windows : scene = EncodeScene(w)
     \/ /\ mode = "play" /\ disk = Nothing
        /\ \E p \in Plays : scene = PlayScene(p[1], p[2][1], p[2][2], p[3])
     \/ /\ mode = "train" /\ disk = NoCheckpoints
        /\ \E r \in Runs : scene = TrainScene(r[1], r[2])
     \/ /\ mode = "pipeline" /\ scene = Nothing
        /\ disk = [s \in Scopes |-> NoFiles(s)]

Session == Fit \/ BeginIncident \/ Investigate \/ ScoreIncident

Training == StartTraining \/ TrainEpisode \/ ValidateRun \/ SaveRun

Command(s) ==
  \/ StartEncode(s) \/ WriteBundle(s) \/ PublishBundle(s) \/ SealDerivation(s)
  \/ FitDataset(s) \/ Reference(s) \/ StartTrain(s) \/ TrainInterval(s)
  \/ StartValidation(s) \/ EvaluateValidation(s) \/ Freeze(s)
  \/ StartTest(s) \/ StartChallenge(s)
  \/ \E field \in {"test", "challenge"} : Evaluate(s, field) \/ Complete(s, field)

Next ==
  \/ Session \/ Training \/ TrainerDies \/ SealBoth \/ Edit
  \/ \E s \in Scopes : Command(s) \/ RefuseTest(s) \/ RefuseChallenge(s) \/ Die(s)

(* In the pipeline a process that runs goes on, and the operator gives every   *)
(* next command.                                                               *)
Spec ==
  /\ Init /\ [][Next]_vars
  /\ WF_vars(SealBoth)
  /\ \A s \in Scopes : WF_vars(Command(s))

-------------------------------------------------------------------------------
(* Properties.                                                                 *)

(* Encoding: on the windows it was fitted on an encoder raises the alarm for   *)
(* every covered fault, never for a healthy latency or error count, and never  *)
(* calls a healthy memory pressed: the fitted threshold lies between the bands *)
(* under the very statistic the projection uses.                               *)
EncoderSeparatesTraining ==
  mode = "encode" /\ scene.encoder # Nothing =>
    \A r \in scene.training :
      LET symbol == Project(r.family, r.data, scene.encoder)
      IN IF r.faulty THEN symbol \in Alarm \union {UNAVAILABLE}
         ELSE IF r.family = "cpu" THEN symbol \in {"NORMAL", "HIGH", UNAVAILABLE}
         ELSE symbol \in {"NORMAL", UNAVAILABLE}

Playing(decisions) == mode = "play" /\ scene.env.decision.kind \in decisions

(* Investigation: a ledger holds no action twice and never more than the       *)
(* budget, and a method that draws no lots decides alike on any two incidents  *)
(* that agree on what it bought: labels and packets it has not paid for never  *)
(* reach it.                                                                   *)
Agree(o, p) ==
  \A i \in DOMAIN o.decision.evidence :
    LET a == o.decision.evidence[i]
    IN Incidents[o.incident].symbols[a] = Incidents[p.incident].symbols[a]

InvestigationIsSound ==
  /\ Playing({"none", "DEFER", "DIAGNOSE"}) =>
       /\ Cardinality(Acquired(scene.env)) = Len(scene.env.ledger)
       /\ scene.env.spent <= BUDGET
  /\ mode = "play" /\ scene.def.kind \notin Lots =>
       \A o, p \in Range(scene.outcomes) : Agree(o, p) => o.decision = p.decision

(* What replanning after every packet is worth under the model: exactly, times *)
(* the mass of the belief and SCALE to the power of the horizon.               *)
EarnedAt(model, e) ==
  (IF e.decision.kind = "DEFER" THEN DeferValue(model, e.history) ELSE StopValue(model, e.history))
  * SCALE^Horizon(e)

Expectation(model, env, depth) ==
  LET worth[path \in Seq(Packets)] ==
        LET e == FoldLeft(LAMBDA f, p : StepWith(model, f, p[1], p[2]), env, path)
            a == PlannerChoice(model, e, depth)
        IN IF Terminated(e) THEN EarnedAt(model, e)
           ELSE IF Terminal(a) THEN EarnedAt(model, Finish(model, e, a, "voluntary"))
           ELSE Total([s \in Vocabulary(a) |-> worth[Append(path, << a, s >>)]])
                - Cost(model, e.specs, e.history, Horizon(e), a)
  IN worth[<< >>]

(* Planning: no method ever chooses what the environment refuses, and what the *)
(* receding-horizon policy really earns under the model is at least the value  *)
(* its search promised, and never less than deciding now: also where a search  *)
(* falls back, a budget ends or the last probe is bought.                      *)
DpKeepsItsPromise ==
  Playing({"none"}) =>
    LET env == scene.env
        model == scene.model
        d == SearchDepth(env, scene.def.depth)
    IN /\ \A a \in Proposed : Accepts(env, a)
       /\ scene.def.kind = "dp" =>
            Expectation(model, env, scene.def.depth) >=
              BestValue(model, env.specs, env.history, Remaining(env), d) * SCALE^(Horizon(env) - d)

(* Scoring: what a summary adds up is what its outcomes earned: the returns    *)
(* are the utilities of the counted decisions less the credits, by session and *)
(* in all, and no cause is found more often than it was there.                 *)
ScoresAgree ==
  mode = "play" =>
    LET outcomes == scene.outcomes
        sum == Summarize(outcomes)
    IN /\ sum.returns = CORRECT * sum.correct + INCORRECT * (sum.covered - sum.correct)
                        + DEFERRED * (sum.count - sum.covered) - LAMBDA_COST * sum.credits
       /\ sum.returns = Total(sum.sessions)
       /\ \A c \in DOMAIN sum.roots :
            sum.roots[c].tp + sum.roots[c].fn = Count(outcomes, LAMBDA o : c \in o.truth)
       /\ sum.covered = Total([t \in DOMAIN sum.confusion |-> Total(sum.confusion[t])])

(* Learning: a tabular learner applies to each step of its last episode exactly*)
(* the update its method names, with the end of the episode settled; a DQN's   *)
(* buffer is its last transitions, and each gradient step took its targets     *)
(* from the network of the last synchronisation.                               *)
LearningIsExact ==
  mode = "train" /\ scene.run # NoRun =>
    LET run == scene.run
        t == run.learner
        exact == ExactUpdates(scene.method, run.trace)
        rows == t.buffer.rows
    IN IF scene.method # "dqn" THEN LastOf(t.updates, Len(exact)) = exact
       ELSE /\ (IF Len(rows) < CAPACITY THEN rows
                ELSE SubSeq(rows, t.buffer.cursor + 1, CAPACITY) \o SubSeq(rows, 1, t.buffer.cursor))
               = LastOf(t.transitions, CAPACITY)
            /\ \A k \in DOMAIN t.learned : \A j \in 1 .. BATCH :
                 t.learned[k][j].boot # << >> =>
                   t.learned[k][j].boot[3] = ((k - 1) \div TARGET_SYNC) * TARGET_SYNC

(* What an uninterrupted run holds after one episode more, and after k.        *)
Judged(method, run) == IF ValidationDue(run) THEN Validated(method, run) ELSE run
Continued(model, task, method, run) == Judged(method, Episode(model, task, method, run))

ReferenceRun(model, task, method, k) ==
  LET run[n \in Nat] ==
        IF n = 0 THEN NewRun(method) ELSE Continued(model, task, method, run[n - 1])
  IN run[k]

(* Checkpoints: wherever the process died and was resumed, the saved run is the*)
(* uninterrupted one, and the best checkpoint is never behind the latest.      *)
CheckpointsAreExact ==
  mode = "train" =>
    LET reference(k) == ReferenceRun(scene.model, scene.task, scene.method, k)
        latest == disk.latest
        best == disk.best
    IN /\ latest # NoRun => /\ latest = reference(latest.episode)
                            /\ latest.selection.episode # 0 => best # NoRun
                            /\ best # NoRun => best.episode >= latest.selection.episode
       /\ best # NoRun => best = reference(best.episode) /\ best.selection.episode = best.episode

(* Seals: a sealed dataset was derived whole by one source; a reserved result  *)
(* exists only when every scope's methods were sealed together, and the code   *)
(* that made it is the sealed code.                                            *)
SealsAreExact ==
  mode = "pipeline" => \A s \in Scopes :
    LET files == disk[s]
        reserved == {files[f] : f \in {g \in {"test", "challenge"} : Report(files[g])}}
    IN /\ files.sealed => \A i \in DOMAIN files.bundles : files.bundles[i] = files.derivation
       /\ reserved # {} => joint # 0 /\ \A t \in Scopes : disk[t].frozen = joint
       /\ \A r \in reserved : Range(r.results) \subseteq {joint}
       /\ Report(files.challenge) => Passed(files.test)

(* Reserved results: a death, an edit, a refused command or a resumption never *)
(* loses or changes one that was written.                                      *)
ReservedKept ==
  mode = "pipeline" => \A s \in Scopes, f \in {"test", "challenge"} :
    Report(disk[s][f]) =>
      /\ Report(disk'[s][f])
      /\ Restrict(disk'[s][f].results, DOMAIN disk[s][f].results) = disk[s][f].results
      /\ disk[s][f].passed => disk'[s][f] = disk[s][f]
ReservedIsKept == [][ReservedKept]_vars

(* What can hold a scope up for good: a bundle left pending, files that another*)
(* source made, a failed gate, a failure where the report should be, or the    *)
(* other scope.                                                                *)
HeldUp(s) ==
  LET files == disk[s]
  IN \/ files.pending # {}
     \/ (~ files.sealed /\ files.derivation \notin {0, source})
     \/ files.reference = "failed"
     \/ \E made \in {files.training.source, files.validation.source, files.frozen, joint} :
          made \notin {0, source}
     \/ Failure \in {files.test, files.challenge}
Done(s) == Passed(disk[s].challenge)

(* Progress: whatever dies and whatever is edited, every scope ends its        *)
(* challenge unless it, or the scope it must be sealed with, is held up.       *)
Settled ==
  mode = "pipeline" =>
    \A s \in Scopes : Done(s) \/ HeldUp(s) \/ (joint = 0 /\ \E t \in Scopes : HeldUp(t))
ExperimentSettles == <>[]Settled
================================================================================
