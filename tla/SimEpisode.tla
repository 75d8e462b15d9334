------------------------------ MODULE SimEpisode ------------------------------
(* One incident of the simulator rca_sim as its operations: the dependency     *)
(* graph, the hidden world, the likelihoods, the probe templates and their     *)
(* mask, the evidence ledger, the exact belief, a step of InvestigationEnv and *)
(* its checkpoint.  Everything here is a value: an episode is a record and a   *)
(* step maps an episode to the next one.                                       *)
(* Probabilities are whole numbers out of a scale and beliefs are unnormalised *)
(* weights, so that every comparison is exact.  A record reads high or not (a  *)
(* log's categories and a metric's names are left out), a fault's type is left *)
(* out.  Rewards are in units of lambda: a credit costs one, a correct         *)
(* diagnosis is worth UTILITY.                                                 *)
EXTENDS Integers, Sequences, FiniteSets, FiniteSetsExt, SequencesExt, TLC

CONSTANTS
  N,                  \* services are 0 .. N-1
  MAX_SERVICE_SLOTS,  \* slots of the action space
  Incidents,          \* incident seed -> [edges, cause, busy, high] before relabelling
  INITIAL_BUDGET,
  MAX_PROBES,
  UTILITY

Services == 0 .. N-1
NoPath == -1

-------------------------------------------------------------------------------
(* Dependency graphs.                                                          *)

Callees(edges, S) == {e[2] : e \in {e \in edges : e[1] \in S}}

Distance(edges, s, t) ==
  LET within[d \in 0 .. N] ==
        IF d = 0 THEN {s} ELSE within[d-1] \union Callees(edges, within[d-1])
  IN IF t \in within[N] THEN Min({d \in 0 .. N : t \in within[d]}) ELSE NoPath

(* Kahn's algorithm: services without a remaining caller are peeled off.       *)
Acyclic(edges) ==
  LET rest[k \in 0 .. N] ==
        IF k = 0 THEN Services ELSE rest[k-1] \intersect Callees(edges, rest[k-1])
  IN rest[N] = {}

FromEdges(edges, entry) ==
  /\ \A e \in edges : e[1] # e[2]
  /\ Acyclic(edges)
  /\ \A s \in Services : Distance(edges, entry, s) # NoPath

(* A parent among the earlier services for each but the first, any forward     *)
(* edge besides; a graph that FromEdges refuses is never generated.            *)
HiddenGraphs ==
  {edges \in SUBSET {e \in Services \X Services : e[1] < e[2]} :
     (\A d \in Services \ {0} : \E e \in edges : e[2] = d) /\ FromEdges(edges, 0)}

Relabellings == Permutations(Services)

PublicGraph(edges, perm) ==
  [entry |-> perm[0], edges |-> {<< perm[e[1]], perm[e[2]] >> : e \in edges}]

-------------------------------------------------------------------------------
(* Likelihoods: the chance, out of SCALE, that a record reads high.            *)

SCALE == 4
Hypotheses == [cause : Services, busy : BOOLEAN]

(* distance is that of the observed service to the cause: the cause itself, an *)
(* affected caller whose symptoms fade with the distance, or unrelated.        *)
Chance(distance, busy, tool) ==
  LET quiet == CASE distance = 0 -> 3
                 [] distance > 0 -> 1 + 1 \div distance
                 [] distance = NoPath -> 1
  IN IF ~ busy THEN quiet
     ELSE IF tool = "metrics" THEN Min({quiet + 1, SCALE - 1}) ELSE Max({quiet, 2})

-------------------------------------------------------------------------------
(* Probe templates and actions.                                                *)

Template == << [tool |-> "metrics", readings |-> {0},       cost |-> 1],
               [tool |-> "metrics", readings |-> {0, 1},    cost |-> 2],
               [tool |-> "logs",    readings |-> {0},       cost |-> 2],
               [tool |-> "logs",    readings |-> {0, 1, 2}, cost |-> 4] >>

EvidenceIds(s, t) == {s} \X {Template[t].tool} \X Template[t].readings

RecordIds == UNION {EvidenceIds(s, t) : s \in Services, t \in DOMAIN Template}

STOP == Len(Template) * MAX_SERVICE_SLOTS
ProbeAction(s, t) == Len(Template) * s + t - 1
DecodeProbe(a) == << a \div Len(Template), (a % Len(Template)) + 1 >>

Covers(a) == EvidenceIds(DecodeProbe(a)[1], DecodeProbe(a)[2])
CostOf(a) == Template[DecodeProbe(a)[2]].cost

ActionMask(tools, credits, seen, terminated) ==
  IF terminated THEN {}
  ELSE {STOP} \union
       {a \in {ProbeAction(s, t) : s \in Services, t \in DOMAIN Template} :
          /\ Template[DecodeProbe(a)[2]].tool \in tools[DecodeProbe(a)[1]]
          /\ CostOf(a) <= credits
          /\ ~ (Covers(a) \subseteq seen)}

-------------------------------------------------------------------------------
(* Hidden worlds.  A descriptor [seed, perm] is what a case file and a         *)
(* checkpoint hold; generating from it again gives the same world.             *)

Relabel(perm, r) == << perm[r[1]], r[2], r[3] >>

Permute(w, perm) ==
  [graph |-> [entry |-> perm[w.graph.entry],
              edges |-> {<< perm[e[1]], perm[e[2]] >> : e \in w.graph.edges}],
   cause |-> perm[w.cause], busy |-> w.busy,
   high  |-> {Relabel(perm, r) : r \in w.high}]

Descriptors == [seed : DOMAIN Incidents, perm : Relabellings]

GenerateWorld(seed) ==
  LET i == Incidents[seed]
  IN [graph |-> PublicGraph(i.edges, [s \in Services |-> s]),
      cause |-> i.cause, busy |-> i.busy, high |-> i.high]

LoadCase(d) == Permute(GenerateWorld(d.seed), d.perm)

Reading(w, r) == r \in w.high

-------------------------------------------------------------------------------
(* Diagnosis.  A game is what inference and planning know before an episode:   *)
(* the hypotheses with their prior weights and the chance of each record.      *)

Game(graph) ==
  [services |-> Services, scale |-> SCALE, utility |-> UTILITY,
   prior |-> [h \in Hypotheses |-> 1],
   chance |-> [h \in Hypotheses |-> [r \in RecordIds |->
                 Chance(Distance(graph.edges, r[1], h.cause), h.busy, r[2])]]]

GameTable == [graph \in {PublicGraph(edges, p) : edges \in HiddenGraphs, p \in Relabellings} |->
                Game(graph)]

Likelihood(g, h, records) ==
  FoldFunction(LAMBDA x, y : x * y, 1,
               [r \in DOMAIN records |->
                  IF records[r] THEN g.chance[h][r] ELSE g.scale - g.chance[h][r]])

Update(g, belief, records) ==
  [h \in DOMAIN belief |-> belief[h] * Likelihood(g, h, records)]

Mass(belief, s) == MapThenSumSet(LAMBDA h : belief[h], {h \in DOMAIN belief : h.cause = s})
Total(belief) == MapThenSumSet(LAMBDA h : belief[h], DOMAIN belief)
Confidence(g, belief) == Max({Mass(belief, s) : s \in g.services})
Predicted(g, belief) == Min({s \in g.services : Mass(belief, s) = Confidence(g, belief)})

LedgerAdd(ledger, records) ==
  [r \in DOMAIN ledger \union DOMAIN records |->
     IF r \in DOMAIN ledger THEN ledger[r] ELSE records[r]]
(* Mutant: a repeated record is counted again.                                 *)
UnseenAgain(ledger, records) == records

Unseen(ledger, records) ==
  [r \in DOMAIN records \ DOMAIN ledger |-> records[r]]

-------------------------------------------------------------------------------
(* An episode of InvestigationEnv.                                             *)

Reset(d, caseId) ==
  [desc |-> d, case |-> caseId, world |-> LoadCase(d), ledger |-> << >>,
   belief |-> GameTable[LoadCase(d).graph].prior, executed |-> << >>,
   credits |-> INITIAL_BUDGET, reason |-> "none", return |-> 0]

GameOf(e) == GameTable[e.world.graph]

Terminated(e) == e.reason # "none"

Probes(e) == Len(e.executed)

Mask(tools, e) == ActionMask(tools, e.credits, DOMAIN e.ledger, Terminated(e))

(* Everything the policy may see; a world's cause and unread records are not.  *)
Observation(tools, e) ==
  [graph |-> e.world.graph, posterior |-> [s \in Services |-> Mass(e.belief, s)],
   ledger |-> e.ledger, flags |-> ToSet(e.executed), credits |-> e.credits,
   probes |-> Probes(e), mask |-> Mask(tools, e)]

ProbeTerminationReason(tools, credits, probes, seen) ==
  CASE credits = 0 -> "budget"
    [] credits # 0 /\ probes >= MAX_PROBES -> "horizon"
    [] credits # 0 /\ probes < MAX_PROBES ->
         IF ActionMask(tools, credits, seen, FALSE) = {STOP} THEN "no_probe" ELSE "none"

Score(g, e, cost, terminal) ==
  (IF terminal /\ Predicted(g, e.belief) = e.world.cause THEN g.utility ELSE 0) - cost

StepStop(e) ==
  [e EXCEPT !.reason = "stop", !.return = @ + Score(GameOf(e), e, 0, TRUE)]

StepProbe(tools, e, a) ==
  LET records == [r \in Covers(a) |-> Reading(e.world, r)]
      ledger  == LedgerAdd(e.ledger, records)
      probed  == [e EXCEPT !.ledger = ledger,
                           !.belief = Update(GameOf(e), @, Unseen(e.ledger, records)),
                           !.credits = @ - CostOf(a),
                           !.executed = Append(@, a)]
      reason  == ProbeTerminationReason(tools, probed.credits, Probes(probed), DOMAIN ledger)
  IN [probed EXCEPT !.reason = reason,
                    !.return = @ + Score(GameOf(e), probed, CostOf(a), reason # "none")]

(* An action outside the mask raises before anything changes.                  *)
Refused(tools, e, a) == a \notin Mask(tools, e)

Step(tools, e, a) == IF a = STOP THEN StepStop(e) ELSE StepProbe(tools, e, a)

-------------------------------------------------------------------------------
(* Checkpoints of one active episode: its descriptor, its history and the      *)
(* observation that a replay must give again.                                  *)

CheckpointState(tools, e) ==
  [desc |-> e.desc, case |-> e.case, executed |-> e.executed,
   observation |-> Observation(tools, e)]

(* Mutant: the replay generates the world without relabelling it.             *)
ReplayUnpermuted(tools, s) ==
  FoldLeft(LAMBDA e, a : Step(tools, e, a),
           Reset([s.desc EXCEPT !.perm = [t \in Services |-> t]], s.case), s.executed)

Replay(tools, s) ==
  FoldLeft(LAMBDA e, a : Step(tools, e, a), Reset(s.desc, s.case), s.executed)

RestoreRefused(tools, s) ==
  \/ Terminated(Replay(tools, s))
  \/ Observation(tools, Replay(tools, s)) # s.observation

-------------------------------------------------------------------------------
(* What every episode owes, whatever the policy does.                          *)

CreditsSpent(e) == SumFunction([k \in DOMAIN e.executed |-> CostOf(e.executed[k])])

Informed(e) ==
  \A k \in DOMAIN e.executed :
    ~ (Covers(e.executed[k]) \subseteq UNION {Covers(e.executed[j]) : j \in 1 .. k-1})

(* The ledger holds the records of the executed probes, as the world has them, *)
(* the belief is the prior conditioned once on the whole ledger, however it    *)
(* arrived, every probe was affordable and brought something new, and the      *)
(* rewards add up to the diagnosis less the credits.                           *)
Sound(e) ==
  /\ e.ledger = [r \in UNION {Covers(e.executed[k]) : k \in DOMAIN e.executed} |->
                   Reading(e.world, r)]
  /\ e.belief = Update(GameOf(e), GameOf(e).prior, e.ledger)
  /\ Informed(e)
  /\ e.credits = INITIAL_BUDGET - CreditsSpent(e) /\ e.credits >= 0
  /\ Probes(e) <= MAX_PROBES
  /\ e.return = Score(GameOf(e), e, CreditsSpent(e), Terminated(e))
===============================================================================
