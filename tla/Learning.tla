------------------------------- MODULE Learning -------------------------------
(* The learners of the frozen task: one episode of tabular SARSA, one episode  *)
(* of the DQN trainer with its replay buffer, the sampler of incidents, and    *)
(* the state a checkpoint holds.                                               *)
(* Learned numbers are symbolic: a table is the log of its updates and a       *)
(* network the number of its gradient steps, so that equal logs mean equal     *)
(* tables.  A generator is its position in a declared stream of draws.         *)
EXTENDS FrozenTask

CONSTANTS
  Draw(_, _),     \* stream and position -> a natural number
  CAPACITY, WARMUP, BATCH, TARGET_SYNC,
  SAVE_EVERY, VALIDATION_INTERVAL, EPISODES,
  Validation(_, _) \* method, episode -> << return, credits >> on held-out incidents

ASSUME LearningAssumption == {CAPACITY, TARGET_SYNC} \subseteq Nat \ {0}

Pick(s, n) == s[1 + (n % Len(s))]

-------------------------------------------------------------------------------
(* Sampling: a diagnosis, then a mechanism stratum, then an incident.          *)

Group(task, causes) == SelectSeq(TrainingRows(task), LAMBDA i : Incidents[i].causes = causes)
Strata(ids) == SetToSortSeq({Incidents[i].stratum : i \in Range(ids)}, <)

SampleIncident(task, n) ==
  LET ids == Group(task, Pick(Classes[task], Draw("sampler", n)))
      stratum == Pick(Strata(ids), Draw("sampler", n + 1))
  IN Pick(SelectSeq(ids, LAMBDA i : Incidents[i].stratum = stratum), Draw("sampler", n + 2))
DRAWS_PER_EPISODE == 3

-------------------------------------------------------------------------------
(* Tabular learning.  A policy is [updates, rng]; an update is [state, action, *)
(* rewards, boot], boot the state, and for SARSA the action, whose value is    *)
(* added, or << >> after the last reward.                                      *)

StateKey(incident, env) == << incident, Range(env.history), Remaining(env), Horizon(env) >>

(* A behaviour choice: one draw, whatever the table holds.                     *)
Behave(env, n) == Pick(Mask(env), Draw("policy", n))

StepReward(incident, before, after) ==
  IF ~ Terminated(after) THEN after.paid - before.paid
  ELSE after.paid - before.paid + Score(after.decision, Incidents[incident].causes)

LearningUpdate(row, rewards, boot) ==
  [state |-> row.state, action |-> row.action, rewards |-> rewards, boot |-> boot]

(* key: of the state after the row.                                            *)
ExpectedUpdates(row, key, done) ==
  << LearningUpdate(row, << row.reward >>, IF done THEN << >> ELSE << key >>) >>

TwoStepForgetful(row, key, pending, choice, done) ==
  IF pending = << >> THEN << >>
  ELSE << LearningUpdate(pending[1], << pending[1].reward, row.reward >>,
                         IF done THEN << >> ELSE << key, choice >>) >>

(* The oldest of two pending rewards is settled; the end settles the rest.     *)
TwoStepUpdates(row, key, pending, choice, done) ==
  (IF pending = << >> THEN << >>
   ELSE << LearningUpdate(pending[1], << pending[1].reward, row.reward >>,
                          IF done THEN << >> ELSE << key, choice >>) >>)
  \o IF done THEN << LearningUpdate(row, << row.reward >>, << >>) >> ELSE << >>

(* run: [env, action, pending, policy, trace]; the next action is drawn before *)
(* the update.                                                                 *)
Learnt(method, incident, run, next) ==
  LET done == Terminated(next)
      key  == StateKey(incident, next)
      row  == [state |-> StateKey(incident, run.env), action |-> run.action,
               reward |-> StepReward(incident, run.env, next)]
      choice == IF done THEN STOP ELSE Behave(next, run.policy.rng)
      updates == IF method = "expected-sarsa" THEN ExpectedUpdates(row, key, done)
                 ELSE TwoStepUpdates(row, key, run.pending, choice, done)
  IN [env |-> next, action |-> choice, pending |-> << row >>,
      policy |-> [updates |-> run.policy.updates \o updates,
                  rng |-> IF done THEN run.policy.rng ELSE run.policy.rng + 1],
      trace |-> Append(run.trace, row)]

(* A step of the environment and what is learnt from it.                      *)
LearnStep(model, method, incident, run) ==
  Learnt(method, incident, run, Step(model, run.env, Incidents[incident].symbols, run.action))

(* Until the investigation has ended, which takes MAX_PROBES steps at most.    *)
LearnEpisode(model, method, incident, policy) ==
  LET env == Reset(Specs)
      run[n \in 0 .. MAX_PROBES] ==
        IF n = 0
        THEN [env |-> env, action |-> Behave(env, policy.rng), pending |-> << >>,
              trace |-> << >>, policy |-> [policy EXCEPT !.rng = @ + 1]]
        ELSE LET before == run[n - 1]
             IN IF Terminated(before.env) THEN before
                ELSE LearnStep(model, method, incident, before)
  IN run[MAX_PROBES]

-------------------------------------------------------------------------------
(* The DQN trainer: [rows, cursor, replay_rng, rng, transitions, gradient,     *)
(* target, learned].  learned logs each gradient step: the rows it used and    *)
(* the network its targets came from.                                          *)

NewBuffer == [rows |-> << >>, cursor |-> 0]

(* The cursor runs while the buffer fills, and is at its start when it is full.*)
Add(buffer, row) ==
  [rows |-> IF Len(buffer.rows) < CAPACITY THEN Append(buffer.rows, row)
            ELSE [buffer.rows EXCEPT ![buffer.cursor + 1] = row],
   cursor |-> (buffer.cursor + 1) % CAPACITY]

(* Rows without replacement, from one draw.                                    *)
Sample(rows, n) ==
  [k \in 1 .. BATCH |-> rows[1 + ((Draw("replay", n) + k) % Len(rows))]]

(* The Bellman target of a row: what the target network gives the best legal   *)
(* next action, and nothing after the end.                                     *)
BellmanTarget(row, target) ==
  [reward |-> row.reward, boot |-> IF row.terminal THEN << >> ELSE << row.next, row.legal, target >>]

GradientStep(t) ==
  IF Len(t.buffer.rows) < Max({WARMUP, BATCH}) THEN t
  ELSE LET rows == Sample(t.buffer.rows, t.replay_rng)
           gradient == t.gradient + 1
       IN [t EXCEPT !.replay_rng = @ + 1, !.gradient = gradient,
             !.target = IF gradient % TARGET_SYNC = 0 THEN gradient ELSE @,
             !.learned = Append(@, [k \in 1 .. BATCH |-> BellmanTarget(rows[k], t.target)])]

(* run: [env, trainer].                                                        *)
Remembered(incident, run, a, next) ==
  LET t == run.trainer
      row == [state |-> StateKey(incident, run.env), action |-> a,
              reward |-> StepReward(incident, run.env, next), next |-> StateKey(incident, next),
              legal |-> Mask(next), terminal |-> Terminated(next)]
  IN [env |-> next,
      trainer |-> GradientStep([t EXCEPT !.rng = @ + 1, !.transitions = Append(@, row),
                                         !.buffer = Add(@, row)])]

(* A step chosen by the network, and what becomes of it.                       *)
NeuralStep(model, incident, run) ==
  LET a == Behave(run.env, run.trainer.rng)
  IN Remembered(incident, run, a, Step(model, run.env, Incidents[incident].symbols, a))

NeuralEpisode(model, incident, trainer) ==
  LET run[n \in 0 .. MAX_PROBES] ==
        IF n = 0 THEN [env |-> Reset(Specs), trainer |-> trainer]
        ELSE LET before == run[n - 1]
             IN IF Terminated(before.env) THEN before ELSE NeuralStep(model, incident, before)
  IN run[MAX_PROBES].trainer

NewTrainer ==
  [buffer |-> NewBuffer, replay_rng |-> 0, rng |-> 0, transitions |-> << >>,
   gradient |-> 0, target |-> 0, learned |-> << >>]

-------------------------------------------------------------------------------
(* A training run: [episode, sampler, learner, metrics, selection, counts].    *)

NoSelection == [episode |-> 0, value |-> << >>]
NewRun(method) ==
  [episode |-> 0, sampler |-> 0, metrics |-> << >>, selection |-> NoSelection, trace |-> << >>,
   counts |-> [i \in DOMAIN Incidents |-> 0],
   learner |-> IF method = "dqn" THEN NewTrainer ELSE [updates |-> << >>, rng |-> 0]]

EpisodeOn(model, method, i, run) ==
  LET counted == [run EXCEPT !.episode = @ + 1, !.sampler = @ + DRAWS_PER_EPISODE,
                             !.counts[i] = @ + 1]
      learnt == LearnEpisode(model, method, i, run.learner)
  IN IF method = "dqn" THEN [counted EXCEPT !.learner = NeuralEpisode(model, i, @)]
     ELSE [counted EXCEPT !.learner = learnt.policy, !.trace = learnt.trace]

Episode(model, task, method, run) == EpisodeOn(model, method, SampleIncident(task, run.sampler), run)

Better(v, w) == v[1] > w[1] \/ (v[1] = w[1] /\ v[2] < w[2])

ValidationDue(run) == run.episode % VALIDATION_INTERVAL = 0 \/ run.episode = EPISODES

(* More return is better, fewer credits on a tie; the first of equals stays.   *)
Selects(method, run) ==
  \/ run.selection = NoSelection
  \/ Better(Validation(method, run.episode), run.selection.value)

Validated(method, run) ==
  LET value == Validation(method, run.episode)
  IN [run EXCEPT !.metrics = Append(@, << run.episode, value >>),
                 !.selection = IF Selects(method, run)
                               THEN [episode |-> run.episode, value |-> value] ELSE @]

-------------------------------------------------------------------------------
(* What the learners must compute, stated over a whole trace.                  *)

TargetOf(method, trace, k) ==
  LET last == k = Len(trace)
      boot(n) == IF k + n > Len(trace) THEN << >>
                 ELSE IF method = "expected-sarsa" THEN << trace[k + n].state >>
                 ELSE << trace[k + n].state, trace[k + n].action >>
  IN IF method = "expected-sarsa" \/ last
     THEN LearningUpdate(trace[k], << trace[k].reward >>, boot(1))
     ELSE LearningUpdate(trace[k], << trace[k].reward, trace[k + 1].reward >>, boot(2))

ExactUpdates(method, trace) == [k \in DOMAIN trace |-> TargetOf(method, trace, k)]

LastOf(s, n) == SubSeq(s, Max({1, Len(s) - n + 1}), Len(s))
================================================================================
