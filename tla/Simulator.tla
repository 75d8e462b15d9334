------------------------------- MODULE Simulator -------------------------------
(* The long-running commands of rca_sim over the episodes of SimEpisode.       *)
(*                                                                             *)
(* "train": a RolloutCollector steps NUM_ENVS environments under one policy,   *)
(* GAE and PPO consume the rollout, the policy is validated, and best.pt is    *)
(* kept by run_training's rule.                                                *)
(*                                                                             *)
(* "managed": the same loop under a trainer that saves with CheckpointManager  *)
(* at the boundary, may die at any point, and is resumed from what is on disk. *)
(*                                                                             *)
(* "evaluate": every baseline method runs every frozen case to its end.        *)
(*                                                                             *)
(* "fixture": a fixture's optimal action is played in each of its worlds.      *)
(*                                                                             *)
(* "validate": the checks of rca_sim.validate, then its random walk.           *)
(*                                                                             *)
(* gamma and gae_lambda are one, so that advantages are whole numbers; the     *)
(* network is a version number whose critic is a fixed function; what a        *)
(* policy samples, a KL, a validation score are arbitrary.                     *)
EXTENDS SimValidation

CONSTANTS
  NUM_ENVS, ROLLOUT_STEPS, TOTAL_UPDATES, EVALUATE_EVERY, UPDATE_EPOCHS,
  Tools,            \* available_tools: service -> set of tools
  Draws,            \* environment -> the descriptors its own RNG gives, in turn
  Sampled,          \* bound: the actions the policy tries, environment -> set
  Scores, Costs,    \* possible validation returns and mean credits
  TIE_TOLERANCE,
  MaxDeaths,
  Suites,           \* the evaluations: sequences of baselines, in order
  Cases,            \* the frozen cases: descriptors
  Fixtures,         \* the fixtures that are played
  WalkSteps         \* bound: transitions of the random walk

VARIABLES
  mode,       \* which command runs
  phase,      \* where it is
  envs,       \* the collector's episodes
  draws,      \* how far each episode RNG has been read (= episode_numbers)
  batch,      \* rollout records so far: step -> environment -> record
  adv,        \* the batch's advantages, environment -> step
  policy,     \* version of the network's parameters
  update,     \* completed updates
  epoch,      \* PPO epochs of the current update
  best,       \* run_training's best: [score, cost, policy], also best.pt
  validated,  \* history: every validation result, by policy
  disk,       \* CheckpointManager's files, "latest" and "best"
  manager,    \* its best_validation_score
  saving,     \* the validation score given to the save under way
  snap,       \* history: the whole collector when a file was written
  deaths,
  lostBest,   \* history: a death between latest.pt and best-validation.pt
  ev          \* what evaluate, fixture and validate are at: an episode and its tally

train == << envs, draws, batch, adv, policy, update, epoch, best, validated,
            disk, manager, saving, snap, deaths, lostBest >>
vars == << mode, phase, train, ev >>

Envs == 1 .. NUM_ENVS

(* The baseline methods: when the random one stops, how sure the script is.    *)
Methods == [kind : {"stop", "random_stop", "voi1", "full_information"}]
             \union [kind : {"random"}, probes : Nat]
             \union [kind : {"script"}, threshold : Nat]

ASSUME SimulatorAssumption ==
  /\ {N, INITIAL_BUDGET, MAX_PROBES} \subseteq Nat \ {0} /\ MAX_SERVICE_SLOTS \in Nat
  /\ N <= MAX_SERVICE_SLOTS
  /\ UTILITY \in Int
  /\ \A seed \in DOMAIN Incidents : Incidents[seed].edges \in HiddenGraphs
  /\ \A i \in Envs : Draws[i] \in Seq(Descriptors) /\ Draws[i] # << >>
  /\ Cases \in Seq(Descriptors) /\ Cases # << >>
  /\ Suites \subseteq Seq(Methods)
  /\ Scores \subseteq Int /\ Costs \subseteq Int /\ TIE_TOLERANCE \in Nat

(* Some probe can be afforded at the start, with all the tools and with those  *)
(* that are available: an episode does not begin with nothing left but STOP.   *)
ASSUME ProbeAssumption ==
  \A tools \in {Tools, AllTools} : \E s \in Services, t \in DOMAIN Template :
    Template[t].tool \in tools[s] /\ Template[t].cost <= INITIAL_BUDGET

NoScore == -1
NoPayload == [state |-> "none"]
Torn == [state |-> "torn"]

-------------------------------------------------------------------------------
(* Collection.                                                                 *)

CaseId(i, k) == << i, k >>

(* The k-th descriptor; a sequence as long as the training never repeats.      *)
Draw(i, k) == Draws[i][1 + ((k - 1) % Len(Draws[i]))]
FreshEnv(i, k) == Reset(Draw(i, k), CaseId(i, k))

(* The critic: any function of the policy and the observation would do.        *)
Critic(p, e) == p + e.credits

(* The masked distribution gives no weight to an action outside the mask.      *)
Act(i) == Mask(Tools, envs[i]) \intersect Sampled[i]

Row(e, a, next) ==
  [action |-> a, case |-> e.case, reward |-> next.return - e.return, value |-> Critic(policy, e),
   next |-> IF Terminated(next) THEN 0 ELSE Critic(policy, next),
   termination |-> Terminated(next)]

Collect ==
  /\ phase = "collect" /\ Len(batch) < ROLLOUT_STEPS
  /\ \E acts \in [Envs -> 0 .. STOP] :
       /\ \A i \in Envs : acts[i] \in Act(i)
       /\ LET next == [i \in Envs |-> Step(Tools, envs[i], acts[i])]
          IN /\ batch' = Append(batch, [i \in Envs |-> Row(envs[i], acts[i], next[i])])
             /\ draws' = [i \in Envs |-> draws[i] + IF Terminated(next[i]) THEN 1 ELSE 0]
             /\ envs' = [i \in Envs |-> IF Terminated(next[i])
                                        THEN FreshEnv(i, draws'[i]) ELSE next[i]]
  /\ UNCHANGED << mode, phase, adv, policy, update, epoch, best, validated, disk, manager,
                  saving, snap, deaths, lostBest, ev >>

(* Mutant: the recursion runs on across the end of an episode.                *)
GaeLeaking(rows, i) ==
  LET a[t \in 1 .. Len(rows) + 1] ==
        IF t > Len(rows) THEN 0
        ELSE rows[t][i].reward + rows[t][i].next - rows[t][i].value + a[t + 1]
  IN [t \in 1 .. Len(rows) |-> a[t]]

Gae(rows, i) ==
  LET a[t \in 1 .. Len(rows) + 1] ==
        IF t > Len(rows) THEN 0
        ELSE rows[t][i].reward + rows[t][i].next - rows[t][i].value
               + IF rows[t][i].termination THEN 0 ELSE a[t + 1]
  IN [t \in 1 .. Len(rows) |-> a[t]]

ComputeAdvantages ==
  /\ phase = "collect" /\ Len(batch) = ROLLOUT_STEPS
  /\ adv' = [i \in Envs |-> Gae(batch, i)]
  /\ phase' = "learn" /\ epoch' = 0
  /\ UNCHANGED << mode, envs, draws, batch, policy, update, best, validated, disk, manager,
                  saving, snap, deaths, lostBest, ev >>

(* One epoch over all minibatches; the KL over the whole rollout is looked at  *)
(* after it.  A loss or gradient that is not finite raises.                    *)
PpoEpoch ==
  /\ phase = "learn"
  /\ epoch' = epoch + 1
  /\ \E kl \in {"within", "over", "not_finite"} :
       phase' = CASE kl = "not_finite" -> "failed"
                  [] kl = "over" -> "updated"
                  [] kl = "within" -> IF epoch' = UPDATE_EPOCHS THEN "updated" ELSE "learn"
  /\ UNCHANGED << mode, envs, draws, batch, adv, policy, update, best, validated, disk,
                  manager, saving, snap, deaths, lostBest, ev >>

(* The rollout is disposable: the next update starts from an empty one.        *)
FinishUpdate ==
  /\ phase = "updated"
  /\ policy' = policy + 1 /\ update' = update + 1
  /\ batch' = << >> /\ adv' = << >> /\ epoch' = 0
  /\ phase' = IF update' % EVALUATE_EVERY = 0 \/ update' = TOTAL_UPDATES
              THEN "validating" ELSE "boundary"
  /\ UNCHANGED << mode, envs, draws, best, validated, disk, manager, saving, snap, deaths,
                  lostBest, ev >>

-------------------------------------------------------------------------------
(* Validation and best.pt.                                                     *)

Gap(x, y) == IF x < y THEN y - x ELSE x - y

IsBetter(score, cost) ==
  \/ score > best.score + TIE_TOLERANCE
  \/ Gap(score, best.score) <= TIE_TOLERANCE /\ cost < best.cost

Validate ==
  /\ phase = "validating"
  /\ \E score \in Scores, cost \in Costs :
       LET result == [score |-> score, cost |-> cost, policy |-> policy]
       IN /\ validated' = IF mode = "train" THEN validated \union {result} ELSE validated
          /\ best' = IF mode = "train" /\ IsBetter(score, cost) THEN result ELSE best
          /\ \E given \in {NoScore, score} : saving' = IF mode = "managed" THEN given ELSE NoScore
  /\ phase' = "boundary"
  /\ UNCHANGED << mode, envs, draws, batch, adv, policy, update, epoch, disk, manager, snap,
                  deaths, lostBest, ev >>

Continue ==
  /\ mode = "train" /\ phase = "boundary"
  /\ phase' = IF update = TOTAL_UPDATES THEN "done" ELSE "collect"
  /\ UNCHANGED << mode, envs, draws, batch, adv, policy, update, epoch, best, validated, disk,
                  manager, saving, snap, deaths, lostBest, ev >>

-------------------------------------------------------------------------------
(* CheckpointManager.  torch.save writes in place, so a file is torn while it  *)
(* is written.                                                                 *)

IsBest == saving # NoScore /\ (manager = NoScore \/ saving > manager)

(* Mutant: the positions of the RNGs are left out.                            *)
PayloadWithoutRng ==
  [state |-> "whole", policy |-> policy, update |-> update,
   score |-> IF IsBest THEN saving ELSE manager,
   rng |-> [i \in Envs |-> 1], envs |-> [i \in Envs |-> CheckpointState(Tools, envs[i])]]

Payload ==
  [state |-> "whole", policy |-> policy, update |-> update,
   score |-> IF IsBest THEN saving ELSE manager,
   rng |-> draws, envs |-> [i \in Envs |-> CheckpointState(Tools, envs[i])]]

Snapshot == [envs |-> envs, draws |-> draws, policy |-> policy, update |-> update]

WriteLatest ==
  /\ mode = "managed" /\ phase \in {"boundary", "save_latest"}
  /\ IF phase = "boundary"
     THEN phase' = "save_latest" /\ disk' = [disk EXCEPT !["latest"] = Torn] /\ snap' = snap
     ELSE /\ disk' = [disk EXCEPT !["latest"] = Payload]
          /\ snap' = [snap EXCEPT !["latest"] = Snapshot]
          /\ phase' = IF IsBest THEN "save_best" ELSE "saved"
  /\ UNCHANGED << mode, envs, draws, batch, adv, policy, update, epoch, best, validated,
                  manager, saving, deaths, lostBest, ev >>

WriteBest ==
  /\ phase \in {"save_best", "write_best"}
  /\ IF phase = "save_best"
     THEN /\ disk' = [disk EXCEPT !["best"] = Torn] /\ phase' = "write_best"
          /\ UNCHANGED << snap, manager >>
     ELSE /\ disk' = [disk EXCEPT !["best"] = Payload]
          /\ snap' = [snap EXCEPT !["best"] = Snapshot]
          /\ manager' = saving /\ phase' = "saved"
  /\ UNCHANGED << mode, envs, draws, batch, adv, policy, update, epoch, best, validated,
                  saving, deaths, lostBest, ev >>

Saved ==
  /\ phase = "saved"
  /\ phase' = IF update = TOTAL_UPDATES THEN "done" ELSE "collect"
  /\ saving' = NoScore
  /\ UNCHANGED << mode, envs, draws, batch, adv, policy, update, epoch, best, validated, disk,
                  manager, snap, deaths, lostBest, ev >>

Die ==
  /\ mode = "managed" /\ phase \notin {"dead", "done"} /\ deaths < MaxDeaths
  /\ deaths' = deaths + 1 /\ phase' = "dead"
  /\ lostBest' = (lostBest \/ phase \in {"save_best", "write_best"})
  /\ batch' = << >> /\ adv' = << >> /\ epoch' = 0 /\ saving' = NoScore /\ manager' = NoScore
  /\ envs' = << >> /\ draws' = << >> /\ policy' = 0 /\ update' = 0
  /\ UNCHANGED << mode, best, validated, disk, snap, ev >>

(* load_checkpoint: the parameters, and for an exact resume the collector by   *)
(* replay; the caller keeps the best score that ResumeResult returns.  After a *)
(* declared inexact resume the collector is a new one.                         *)
Resume(file, exact) ==
  /\ phase = "dead" /\ disk[file].state = "whole"
  /\ LET p == disk[file]
     IN /\ policy' = p.policy /\ update' = p.update /\ manager' = p.score
        /\ exact => \A i \in Envs : ~ RestoreRefused(Tools, p.envs[i])
        /\ draws' = IF exact THEN p.rng ELSE [i \in Envs |-> 1]
        /\ envs' = [i \in Envs |-> IF exact THEN Replay(Tools, p.envs[i]) ELSE FreshEnv(i, 1)]
        /\ phase' = IF p.update = TOTAL_UPDATES THEN "done" ELSE "collect"
  /\ UNCHANGED << mode, batch, adv, epoch, best, validated, disk, saving, snap, deaths,
                  lostBest, ev >>

-------------------------------------------------------------------------------
(* Evaluation: one decision of the method at work on the case at work.         *)

Neighbours(w, s) == Callees(w.graph.edges, {s})

BreadthFirst(w) ==
  LET Visit(order, frontier) == order \o SetToSortSeq(frontier, <)
      Expand(order) ==
        FoldLeft(LAMBDA o, s : Visit(o, Neighbours(w, s) \ ToSet(o)), order, order)
  IN FoldLeft(LAMBDA o, k : Expand(o), << w.graph.entry >>, [k \in 1 .. N |-> k])

(* Entry first; then stop once confident, else the next service in order.      *)
ScriptChoice(threshold, e, mask) ==
  LET order == BreadthFirst(e.world)
      open  == SelectSeq(order, LAMBDA s : /\ Quick(s) \in mask
                                           /\ Quick(s) \notin ToSet(e.executed))
      probed == \E s \in Services : Quick(s) \in ToSet(e.executed)
      confident == 100 * Confidence(GameOf(e), e.belief) >= threshold * Total(e.belief)
  IN IF open # << >> /\ Head(open) = e.world.graph.entry THEN Quick(Head(open))
     ELSE IF (probed /\ confident) \/ open = << >> THEN STOP
     ELSE Quick(Head(open))

SelectAction(m, e, picked) ==
  LET mask == Mask(Tools, e)
  IN CASE m.kind = "stop"        -> {STOP}
       [] m.kind = "random"      -> IF picked >= m.probes \/ mask = {STOP} THEN {STOP}
                                    ELSE mask \ {STOP}
       [] m.kind = "random_stop" -> mask
       [] m.kind = "script"      -> {ScriptChoice(m.threshold, e, mask)}
       [] m.kind = "voi1"        -> {BestAction(OneStepPlan(Tools, e))}

NoTotals == [episodes |-> 0, correct |-> 0, return |-> 0, credits |-> 0]

Tally(t, correct, return, credits) ==
  [episodes |-> t.episodes + 1, correct |-> t.correct + IF correct THEN 1 ELSE 0,
   return |-> t.return + return, credits |-> t.credits + credits]

(* The next case starts in the same environment, the next method in a new one. *)
NextCase(totals) ==
  LET last == ev.c = Len(Cases)
      c == IF last THEN 1 ELSE ev.c + 1
  IN [ev EXCEPT !.m = IF last THEN @ + 1 ELSE @, !.c = c, !.picked = 0, !.totals = totals,
                !.e = Reset(Cases[c], CaseId(0, c))]

(* evaluate_episode: select_action and step until true termination.            *)
Decide ==
  /\ phase = "evaluate" /\ ev.m <= Len(ev.suite) /\ ev.suite[ev.m].kind # "full_information"
  /\ \E a \in SelectAction(ev.suite[ev.m], ev.e, ev.picked) :
       /\ ~ Refused(Tools, ev.e, a)
       /\ LET e == Step(Tools, ev.e, a)
          IN ev' = IF Terminated(e)
                   THEN NextCase([ev.totals EXCEPT ![ev.m] =
                          Tally(@, Predicted(GameOf(e), e.belief) = e.world.cause, e.return,
                                INITIAL_BUDGET - e.credits)])
                   ELSE [ev EXCEPT !.e = e, !.picked = @ + 1]
  /\ UNCHANGED << mode, phase, train >>

(* The reference: inference after every record of the case is revealed.        *)
Reference ==
  /\ phase = "evaluate" /\ ev.m <= Len(ev.suite) /\ ev.suite[ev.m].kind = "full_information"
  /\ LET w == LoadCase(Cases[ev.c])
     IN ev' = NextCase([ev.totals EXCEPT ![ev.m] = Tally(@, FullInformation(w) = w.cause, 0, 0)])
  /\ UNCHANGED << mode, phase, train >>

Report ==
  /\ phase = "evaluate" /\ ev.m > Len(ev.suite)
  /\ phase' = "done"
  /\ UNCHANGED << mode, train, ev >>

-------------------------------------------------------------------------------
(* A fixture's planner at work in its environment: each hidden world in turn.  *)

Lookahead(f) == f.max_probes

StartWorld ==
  /\ phase = "fixture" /\ ~ ev.playing
  /\ IF ev.todo = {} THEN phase' = "done" /\ ev' = ev
     ELSE LET w == CHOOSE w \in ev.todo : TRUE
          IN /\ ev' = [ev EXCEPT !.playing = TRUE, !.w = w, !.todo = @ \ {w},
                                 !.e = FixtureReset(ev.f, w)]
             /\ phase' = phase
  /\ UNCHANGED << mode, train >>

PlayOptimal ==
  /\ phase = "fixture" /\ ev.playing
  /\ LET e == FixtureStep(ev.f, ev.e, OptimalAction(ev.f, ev.e, Lookahead(ev.f)))
     IN ev' = [ev EXCEPT !.e = e, !.playing = ~ Terminated(e),
                         !.earned = @ + IF Terminated(e) THEN FixtureWeight(ev.f, ev.w) * e.return
                                        ELSE 0]
  /\ UNCHANGED << mode, phase, train >>

-------------------------------------------------------------------------------
(* run_validation: the checks in their order, then the random walk over the    *)
(* episodes of the frozen cases.                                               *)

RunCheck ==
  /\ phase = "validate" /\ Len(ev.report) < CHECKS
  /\ ev' = [ev EXCEPT !.report = Append(@, Checks(ev.d)[Len(ev.report) + 1])]
  /\ UNCHANGED << mode, phase, train >>

WalkStep ==
  /\ phase = "validate" /\ Len(ev.report) = CHECKS /\ ev.steps < WalkSteps
  /\ \E a \in Mask(AllTools, ev.e) :
       LET after == Step(AllTools, ev.e, a)
       IN ev' = [ev EXCEPT !.bad = @ \union Violations(ev.e, a, after), !.steps = @ + 1,
                           !.e = IF Terminated(after) THEN Reset(ev.d, << 0, 0 >>) ELSE after]
  /\ UNCHANGED << mode, phase, train >>

EndValidation ==
  /\ phase = "validate" /\ ev.steps = WalkSteps
  /\ phase' = "done"
  /\ UNCHANGED << mode, train, ev >>

-------------------------------------------------------------------------------

Init ==
  /\ mode \in {"train", "managed", "evaluate", "fixture", "validate"}
  /\ phase = IF mode \in {"train", "managed"} THEN "collect" ELSE mode
  /\ draws = [i \in Envs |-> 1] /\ envs = [i \in Envs |-> FreshEnv(i, 1)]
  /\ batch = << >> /\ adv = << >> /\ policy = 0 /\ update = 0 /\ epoch = 0
  /\ \E score \in Scores, cost \in Costs :
       /\ mode # "train" => score = Min(Scores) /\ cost = Min(Costs)
       /\ best = [score |-> score, cost |-> cost, policy |-> 0]
       /\ validated = {best}
  /\ disk = [file \in {"latest", "best"} |-> NoPayload]
  /\ snap = [file \in {"latest", "best"} |-> NoPayload]
  /\ manager = NoScore /\ saving = NoScore /\ deaths = 0 /\ lostBest = FALSE
  /\ ev \in CASE mode = "evaluate" ->
                    {[suite |-> suite, m |-> 1, c |-> 1, picked |-> 0,
                      e |-> Reset(Cases[1], CaseId(0, 1)),
                      totals |-> [m \in DOMAIN suite |-> NoTotals]] : suite \in Suites}
               [] mode = "fixture" ->
                    {[f |-> f, todo |-> FixtureWorlds(f), playing |-> FALSE, w |-> "none",
                      e |-> "none", earned |-> 0] : f \in {f \in Fixtures : WellFormed(f)}}
               [] mode = "validate" ->
                    {[d |-> Cases[c], report |-> << >>, e |-> Reset(Cases[c], << 0, 0 >>),
                      steps |-> 0, bad |-> {}] : c \in DOMAIN Cases}
               [] OTHER -> {"none"}

Next ==
  \/ Collect \/ ComputeAdvantages \/ PpoEpoch \/ FinishUpdate \/ Validate \/ Continue
  \/ WriteLatest \/ WriteBest \/ Saved \/ Die
  \/ \E file \in {"latest", "best"}, exact \in BOOLEAN : Resume(file, exact)
  \/ Decide \/ Reference \/ Report
  \/ StartWorld \/ PlayOptimal
  \/ RunCheck \/ WalkStep \/ EndValidation

Spec == Init /\ [][Next]_vars

-------------------------------------------------------------------------------
(* Properties.                                                                 *)

Running == {envs[i] : i \in DOMAIN envs} \union
           IF mode \in {"evaluate", "validate"} THEN {ev.e} ELSE {}
Available == IF mode = "validate" THEN AllTools ELSE Tools

(* Every episode of the collector, of an evaluation and of the random walk     *)
(* adds up (Sound), an open one has a probe left to choose, and so do the      *)
(* totals of a method over its cases: the mask, the ledger, the belief, the    *)
(* credits and the return are kept by different files and must agree.          *)
EpisodesAreSound ==
  /\ \A e \in Running : Sound(e) /\ (Terminated(e) \/ Mask(Available, e) # {STOP})
  /\ mode = "evaluate" =>
       \A m \in DOMAIN ev.suite : LET t == ev.totals[m] IN
         ev.suite[m].kind # "full_information" => t.return = UTILITY * t.correct - t.credits

(* GAE over a batch of several environments is the return to the end of        *)
(* the episode, or the bootstrapped return to the end of the rollout, less the *)
(* critic's value: it never leaks across an episode or an environment.         *)
RewardsTo(i, t, end) == SumFunction([k \in t .. end |-> batch[k][i].reward])
AdvantageIsReturnToBoundary ==
  phase \in {"learn", "updated"} =>
    \A i \in Envs, t \in 1 .. Len(batch) :
      LET ends == {k \in t .. Len(batch) : batch[k][i].termination}
          end  == IF ends = {} THEN Len(batch) ELSE Min(ends)
          tail == IF ends = {} THEN Critic(policy, envs[i]) ELSE 0
      IN adv[i][t] = RewardsTo(i, t, end) + tail - batch[t][i].value

(* An exact resume gives back the collector that was saved: hidden worlds too, *)
(* which the code's own check of the public observation cannot see, and the    *)
(* position of every RNG, so that later incidents are the same.                *)
ResumeIsExact ==
  [][\A file \in {"latest", "best"} :
       Resume(file, TRUE) => [envs |-> envs', draws |-> draws',
                              policy |-> policy', update |-> update'] = snap[file]]_vars

(* A checkpoint that was written whole can be resumed from: the replay of its  *)
(* history is never refused.                                                   *)
CheckpointsResume ==
  \A file \in {"latest", "best"} :
    disk[file].state = "whole" =>
      \A i \in Envs : ~ RestoreRefused(Tools, disk[file].envs[i])

(* best-validation.pt holds the best score the manager knows of, across deaths *)
(* and resumes, unless a death fell between the two files of one save.  The    *)
(* best of run_training ignores a better tie and gives way to a cheaper one, so *)
(* it may trail by the tolerance, once more at each validation, and no more.   *)
BestIsOnDisk ==
  /\ manager # NoScore /\ ~ lostBest =>
       disk["best"].state # "none" /\ (disk["best"].state = "whole" => disk["best"].score = manager)
  /\ mode = "train" =>
       \A v \in validated : v.score <= best.score + TIE_TOLERANCE * (1 + policy - v.policy)

(* Whenever the process may die, what is on disk can be gone on from and is    *)
(* what the manager says it is.                                                *)
CheckpointsAreSound == CheckpointsResume /\ BestIsOnDisk

(* The planner keeps its promise: over all hidden worlds of a fixture, playing *)
(* the optimal action earns in the environment exactly what the planner said   *)
(* at reset, and so no mask, cost, horizon or update differs between the two.  *)
Promise(f) ==
  LET Value(o) ==
        LET values == DecisionValues(f, Update(f, f.prior, o), f.initial, f.budget, f.max_probes,
                                     Lookahead(f), Cardinality(FixtureIds(f) \ f.initial))
        IN Max({values[a] : a \in DOMAIN values})
  IN MapThenSumSet(Value, Outcomes(f.initial))
PlannerKeepsItsPromise ==
  mode = "fixture" /\ phase = "done" => ev.earned = Promise(ev.f)

(* The checks of the validation command that SimValidation has pass on every   *)
(* case, and no walk of its mask stress finds a violation.                     *)
ValidationPasses ==
  mode = "validate" => (\A k \in DOMAIN ev.report : ev.report[k]) /\ ev.bad = {}

(* An evaluation is in the middle of an episode.                               *)
Open == mode = "evaluate" /\ ~ Terminated(ev.e)
(* No method chooses an action that the environment refuses.                   *)
ChoicesAreAccepted ==
  Open /\ ev.m <= Len(ev.suite) /\ ev.suite[ev.m].kind # "full_information" =>
    SelectAction(ev.suite[ev.m], ev.e, ev.picked) \subseteq Mask(Tools, ev.e)
(* One step ahead, the planners of fixtures.py and of oracle.py value every    *)
(* action alike.                                                               *)
ValuesAgree ==
  Open => FixtureValues(AsFixture(Tools, ev.e), ev.e, 1, OneStepDepth) = OneStepPlan(Tools, ev.e)
(* The environment of fixtures.py allows what that of environment.py allows    *)
(* and does the same with it: reward, end, belief, ledger and credits.         *)
StepsAgree ==
  Open =>
    LET f == AsFixture(Tools, ev.e) IN
    /\ Mask(Tools, ev.e) = {STOP} \union ProbeMask(f, ev.e)
    /\ \A a \in Mask(Tools, ev.e) :
         LET after == FixtureStep(f, ev.e, a)
             same  == Step(Tools, ev.e, a)
         IN /\ Terminated(after) = Terminated(same)
            /\ after.return = same.return /\ after.ledger = same.ledger
            /\ after.belief = same.belief /\ after.credits = same.credits
(* So the two programs agree wherever an evaluated episode can be.             *)
PlannersAgree == ChoicesAreAccepted /\ ValuesAgree /\ StepsAgree

(* What a planner says is what the environment does, in a fixture and in an    *)
(* episode.                                                                    *)
PlannersAreRight == PlannerKeepsItsPromise /\ PlannersAgree
===============================================================================
