------------------------------ MODULE SimPlanner -------------------------------
(* The exact planners of the simulator.  oracle.py plans one step on the       *)
(* environment's mask; fixtures.py has finite games of its own, each with a    *)
(* table of probes, an environment and a planner that looks ahead.  A value is *)
(* an expectation times the weight of the belief it starts from, times the     *)
(* scale of the records still to be read (depth), so that it is whole.         *)
EXTENDS SimEpisode

Outcomes(records) == [records -> BOOLEAN]

StopValue(g, belief, depth) == g.utility * Confidence(g, belief) * g.scale ^ depth

OneStepDepth == Max({Cardinality(Template[t].readings) : t \in DOMAIN Template})

OneStepValue(g, e, a) ==
  LET new == Covers(a) \ DOMAIN e.ledger
      After(o) == StopValue(g, Update(g, e.belief, o), OneStepDepth - Cardinality(new))
  IN MapThenSumSet(After, Outcomes(new)) - CostOf(a) * Total(e.belief) * g.scale ^ OneStepDepth

OneStepPlan(tools, e) ==
  [a \in Mask(tools, e) |-> IF a = STOP THEN StopValue(GameOf(e), e.belief, OneStepDepth)
                            ELSE OneStepValue(GameOf(e), e, a)]

(* Mutant: the lowest index wins every tie.                                   *)
BestActionLowest(values) ==
  Min({a \in DOMAIN values : values[a] = Max({values[b] : b \in DOMAIN values})})

(* STOP wins a tie; among probes the lowest index does.                        *)
BestAction(values) ==
  LET best == Max({values[a] : a \in DOMAIN values})
  IN IF values[STOP] = best THEN STOP ELSE Min({a \in DOMAIN values : values[a] = best})

(* Every record of the incident revealed, the budget aside.                    *)
FullInformation(w) ==
  Predicted(GameTable[w.graph],
            Update(GameTable[w.graph], GameTable[w.graph].prior,
                   [r \in RecordIds |-> Reading(w, r)]))

-------------------------------------------------------------------------------
(* Fixtures: a game with its probes, an action -> [cost, ids], its limits and  *)
(* the records that are revealed at reset.  A world is a hidden hypothesis     *)
(* with the records that read high.                                            *)

FixtureIds(f) == DOMAIN f.chance[CHOOSE h \in DOMAIN f.prior : TRUE]

WellFormed(f) ==
  /\ DOMAIN f.prior # {}
  /\ \A h \in DOMAIN f.prior : /\ h.cause \in f.services /\ f.prior[h] >= 0
                               /\ DOMAIN f.chance[h] = FixtureIds(f)
                               /\ \A r \in FixtureIds(f) : f.chance[h][r] \in 0 .. f.scale
  /\ Total(f.prior) > 0
  /\ f.initial \subseteq FixtureIds(f)
  /\ \A r \in FixtureIds(f) : r[1] \in f.services
  /\ \A a \in DOMAIN f.probes : /\ f.probes[a].cost > 0 /\ f.probes[a].ids # {}
                                /\ f.probes[a].ids \subseteq FixtureIds(f)
                                /\ a # STOP /\ DecodeProbe(a)[1] \in f.services

FixtureWeight(f, w) ==
  f.prior[w.hyp] * Likelihood(f, w.hyp, [r \in FixtureIds(f) |-> r \in w.high])

FixtureWorlds(f) ==
  {w \in [hyp : DOMAIN f.prior, high : SUBSET FixtureIds(f)] : FixtureWeight(f, w) > 0}

RecordsFor(w, ids) == [r \in ids |-> r \in w.high]

(* Mutant: the records revealed at reset do not reach the belief.             *)
FixtureResetUninformed(f, w) ==
  [world |-> [cause |-> w.hyp.cause, high |-> w.high],
   ledger |-> RecordsFor(w, f.initial), belief |-> f.prior, executed |-> << >>,
   credits |-> f.budget, reason |-> "none", return |-> 0]

FixtureReset(f, w) ==
  LET records == RecordsFor(w, f.initial)
  IN [world |-> [cause |-> w.hyp.cause, high |-> w.high],
      ledger |-> records, belief |-> Update(f, f.prior, records), executed |-> << >>,
      credits |-> f.budget, reason |-> "none", return |-> 0]

FeasibleProbes(f, seen, credits, left) ==
  {a \in DOMAIN f.probes : /\ left > 0
                           /\ f.probes[a].cost <= credits
                           /\ ~ (f.probes[a].ids \subseteq seen)}

ProbeMask(f, e) ==
  IF Terminated(e) THEN {}
  ELSE FeasibleProbes(f, DOMAIN e.ledger, e.credits, f.max_probes - Probes(e))

FixtureStop(f, e) ==
  [e EXCEPT !.reason = "stop", !.return = @ + Score(f, e, 0, TRUE)]

FixtureProbe(f, e, a) ==
  LET records == RecordsFor(e.world, f.probes[a].ids)
      probed  == [e EXCEPT !.ledger = LedgerAdd(@, records),
                           !.belief = Update(f, @, Unseen(e.ledger, records)),
                           !.credits = @ - f.probes[a].cost,
                           !.executed = Append(@, a)]
      terminal == \/ probed.credits = 0
                  \/ Probes(probed) >= f.max_probes
                  \/ ProbeMask(f, probed) = {}
  IN [probed EXCEPT !.reason = IF terminal THEN "terminal" ELSE "none",
                    !.return = @ + Score(f, probed, f.probes[a].cost, terminal)]

FixtureStep(f, e, a) == IF a = STOP THEN FixtureStop(f, e) ELSE FixtureProbe(f, e, a)

DecisionValues(f, belief, seen, credits, left, lookahead, depth) ==
  LET values[b \in [DOMAIN f.prior -> Nat], s \in SUBSET FixtureIds(f), c \in Int, l \in Int,
             k \in Nat, d \in Int] ==
        LET After(a, o) ==
              LET post  == Update(f, b, o)
                  seen2 == s \union DOMAIN o
                  rest  == c - f.probes[a].cost
                  d2    == d - Cardinality(DOMAIN o)
              IN IF k = 1 \/ FeasibleProbes(f, seen2, rest, l - 1) = {}
                 THEN StopValue(f, post, d2)
                 ELSE LET next == values[post, seen2, rest, l - 1, k - 1, d2]
                      IN Max({next[x] : x \in DOMAIN next})
            Expected(a) == MapThenSumSet(LAMBDA o : After(a, o), Outcomes(f.probes[a].ids \ s))
        IN [a \in {STOP} \union FeasibleProbes(f, s, c, l) |->
              IF a = STOP THEN StopValue(f, b, d)
              ELSE Expected(a) - f.probes[a].cost * Total(b) * f.scale ^ d]
  IN values[belief, seen, credits, left, lookahead, depth]

FixtureValues(f, e, lookahead, depth) ==
  DecisionValues(f, e.belief, DOMAIN e.ledger, e.credits, f.max_probes - Probes(e),
                 lookahead, depth)

UnreadIds(f, e) == UNION {f.probes[a].ids : a \in DOMAIN f.probes} \ DOMAIN e.ledger

OptimalAction(f, e, lookahead) ==
  BestAction(FixtureValues(f, e, lookahead, Cardinality(UnreadIds(f, e))))

OptimalValue(f, e, lookahead, depth) ==
  LET values == FixtureValues(f, e, lookahead, depth)
  IN Max({values[a] : a \in DOMAIN values})

(* The incident's own game as a fixture.                                       *)
AsFixture(tools, e) ==
  [services |-> Services, scale |-> SCALE, utility |-> UTILITY,
   prior |-> GameOf(e).prior, chance |-> GameOf(e).chance,
   budget |-> INITIAL_BUDGET, max_probes |-> MAX_PROBES, initial |-> {},
   probes |-> [a \in {a \in {ProbeAction(s, t) : s \in Services, t \in DOMAIN Template} :
                        Template[DecodeProbe(a)[2]].tool \in tools[DecodeProbe(a)[1]]} |->
                 [cost |-> CostOf(a), ids |-> Covers(a)]]]

-------------------------------------------------------------------------------
(* The catalogue, in twentieths.                                               *)

E0 == << 0, "metrics", 0 >>
E1 == << 0, "metrics", 1 >>
Other == << 1, "metrics", 0 >>

Probe(cost, ids) == [cost |-> cost, ids |-> ids]
Quick(s) == ProbeAction(s, 1)
Detailed(s) == ProbeAction(s, 2)

(* rows: record -> its chance under each hypothesis, in their order.           *)
Fixture(causes, prior, rows, probes, initial) ==
  LET hyps == {[state |-> k, cause |-> causes[k]] : k \in DOMAIN causes}
  IN [services |-> 0 .. 1, scale |-> 20, utility |-> 20, budget |-> 8, max_probes |-> 6,
      prior |-> [h \in hyps |-> prior[h.state]],
      chance |-> [h \in hyps |-> [r \in DOMAIN rows |-> rows[r][h.state]]],
      probes |-> probes, initial |-> initial]

TwoCause(prior, rows, probes, initial) == Fixture(<< 0, 1 >>, prior, rows, probes, initial)
Even == << 1, 1 >>

KnownAnswer == TwoCause(Even, E0 :> << 20, 0 >>, << >>, {E0})
OnePerfectProbe ==
  TwoCause(Even, E0 :> << 20, 0 >> @@ Other :> << 10, 10 >>,
           Quick(0) :> Probe(1, {E0}) @@ Quick(1) :> Probe(1, {Other}), {})
UselessEvidence == TwoCause(Even, E0 :> << 10, 10 >>, Quick(0) :> Probe(1, {E0}), {})
DuplicateEvidence ==
  TwoCause(Even, E0 :> << 16, 4 >>, Quick(0) :> Probe(1, {E0}) @@ Detailed(0) :> Probe(2, {E0}), {})
ExpensiveDiscriminator(cost) ==
  TwoCause(Even, E0 :> << 20, 0 >>, Quick(0) :> Probe(cost, {E0}), {})
ScopeChoice(prior) ==
  TwoCause(prior, E0 :> << 15, 5 >> @@ E1 :> << 18, 2 >>,
           Quick(0) :> Probe(1, {E0}) @@ Detailed(0) :> Probe(2, {E0, E1}), {})
LastCreditEvidence == TwoCause(Even, E0 :> << 20, 0 >>, Quick(0) :> Probe(1, {E0}), {})
NoAffordableProbe == TwoCause(Even, E0 :> << 20, 0 >>, Detailed(0) :> Probe(2, {E0}), {})
Complementarity ==
  Fixture(<< 0, 0, 1, 1 >>, << 1, 1, 1, 1 >>,
          E0 :> << 0, 20, 0, 20 >> @@ Other :> << 0, 20, 20, 0 >>,
          Quick(0) :> Probe(1, {E0}) @@ Quick(1) :> Probe(1, {Other}), {})

Catalogue ==
  {KnownAnswer, OnePerfectProbe, UselessEvidence, DuplicateEvidence, ExpensiveDiscriminator(5),
   ScopeChoice(Even), LastCreditEvidence, NoAffordableProbe, Complementarity}

WithBudget(f, budget) == [f EXCEPT !.budget = budget]
Cheaper(f, utility) == [f EXCEPT !.utility = utility]
===============================================================================
