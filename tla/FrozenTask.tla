------------------------------ MODULE FrozenTask ------------------------------
(* One frozen incident as its operations: the prototype belief, the            *)
(* environment that answers paid probes from sealed packets, the policies, the *)
(* scores and the declared challenges.  Everything is a value: an environment  *)
(* is a record of what is public of an investigation, and a step maps it and   *)
(* the packets to the next one.                                                *)
(* An action is a tuple << template, resource, version >>, or << "STOP" >> or  *)
(* << "DEFER" >>; a symbol is a response code or a failure; a diagnosis is a   *)
(* set of causes.  Probabilities are whole, unnormalised weights and utilities *)
(* whole numbers, so that ties are exact; hashes and wording are left out.     *)
EXTENDS Integers, Sequences, FiniteSets, FiniteSetsExt, SequencesExt

CONSTANTS
  Specs,       \* the catalogue: a sequence of [id, price, codes]
  Failures,    \* the unavailable symbols every probe may show
  Classes,     \* task -> its diagnoses, in order
  Incidents,   \* incident -> [role, session, stratum, causes, symbols]
  SMOOTHING,   \* << p, q >>: the share of a response that is spread evenly
  SPREAD,      \* what it is spread in: every vocabulary divides it
  BUDGET, MAX_PROBES,
  CORRECT, INCORRECT, DEFERRED, LAMBDA_COST,
  MAX_EXPANDED,  \* states a search may expand
  MIN_VISITS,
  Learned      \* what tabular training left: evidence -> [visits, action]

ASSUME TaskAssumption ==
  /\ {BUDGET, MAX_PROBES, MAX_EXPANDED} \subseteq Nat \ {0}
  /\ {CORRECT, INCORRECT, DEFERRED, LAMBDA_COST} \subseteq Int
  /\ SMOOTHING[1] \in 1 .. SMOOTHING[2] - 1

STOP == << "STOP" >>
DEFER == << "DEFER" >>
NoDecision == [kind |-> "none"]

Ids(specs) == [i \in DOMAIN specs |-> specs[i].id]
Tools == Range(Ids(Specs))
SpecOf(specs, a) == specs[CHOOSE i \in DOMAIN specs : specs[i].id = a]
Price(specs, a) == SpecOf(specs, a).price
Vocabulary(a) == SpecOf(Specs, a).codes \union Failures

(* The catalogue is a list of typed probes, and a bundle of sealed packets has *)
(* one for each of them.                                                       *)
ASSUME CatalogueAssumption ==
  /\ Specs \in Seq([id : STRING \X STRING \X Nat, price : Nat, codes : SUBSET STRING])
  /\ Incidents \in Seq(Range(Incidents))
  /\ \A i \in DOMAIN Incidents : DOMAIN Incidents[i].symbols = Tools

ASSUME SpreadAssumption == \A a \in Tools : SPREAD % Cardinality(Vocabulary(a)) = 0

FirstMax(s, value) == s[Min({i \in DOMAIN s : \A j \in DOMAIN s : value[s[j]] <= value[s[i]]})]
Total(f) ==
  LET total[T \in SUBSET DOMAIN f] ==
        IF T = {} THEN 0 ELSE LET x == CHOOSE y \in T : TRUE IN f[x] + total[T \ {x}]
  IN total[DOMAIN f]
Terminal(a) == Len(a) = 1

(* The elements of s that are in S, in their order.                            *)
Only(s, S) ==
  LET only[n \in 0 .. Len(s)] ==
        IF n = 0 THEN << >>
        ELSE only[n - 1] \o (IF s[n] \in S THEN << s[n] >> ELSE << >>)
  IN only[Len(s)]

-------------------------------------------------------------------------------
(* The belief: one prototype per training incident.                            *)

CauseSet(causes, task) == causes \in Range(Classes[task])

Numbers == [i \in DOMAIN Incidents |-> i]

TrainingRows(task) ==
  Only(Numbers, {i \in DOMAIN Incidents :
                   Incidents[i].role = "train" /\ CauseSet(Incidents[i].causes, task)})

FitRefused(task) ==
  {Incidents[i].causes : i \in Range(TrainingRows(task))} # Range(Classes[task])

Share(rows, causes) == Cardinality({i \in Range(rows) : Incidents[i].causes = causes})

(* Every class weighs the same, whatever its number of prototypes.             *)
FitModel(task) ==
  LET rows == TrainingRows(task)
      common == FoldSet(LAMBDA c, n : Share(rows, c) * n, 1, Range(Classes[task]))
  IN [classes |-> Classes[task],
      rows    |-> Range(rows),
      prior   |-> [i \in Range(rows) |-> common \div Share(rows, Incidents[i].causes)]]

SCALE == SMOOTHING[2] * SPREAD

Likelihood(row, a, symbol) ==
  (IF Incidents[row].symbols[a] = symbol THEN (SMOOTHING[2] - SMOOTHING[1]) * SPREAD ELSE 0)
  + SMOOTHING[1] * (SPREAD \div Cardinality(Vocabulary(a)))

Weight(model, row, history) ==
  LET weight[n \in 0 .. Len(history)] ==
        IF n = 0 THEN model.prior[row]
        ELSE weight[n - 1] * Likelihood(row, history[n][1], history[n][2])
  IN weight[Len(history)]

Diagnosis(model, history) ==
  [c \in Range(model.classes) |->
     Total([r \in {q \in model.rows : Incidents[q].causes = c} |-> Weight(model, r, history)])]

Mass(model, history) == Total([r \in model.rows |-> Weight(model, r, history)])
Prediction(model, history) == FirstMax(model.classes, Diagnosis(model, history))
Confidence(model, history) == Max(Range(Diagnosis(model, history)))

(* The utility of stopping, and of deferring, times the mass of the belief.    *)
StopValue(model, history) ==
  INCORRECT * Mass(model, history) + Confidence(model, history) * (CORRECT - INCORRECT)
DeferValue(model, history) == DEFERRED * Mass(model, history)

-------------------------------------------------------------------------------
(* The environment.                                                            *)

Reset(specs) ==
  [specs |-> specs, history |-> << >>, ledger |-> << >>, spent |-> 0, probes |-> 0,
   decision |-> NoDecision, paid |-> 0]

Terminated(env) == env.decision.kind # "none"
Acquired(env) == {p.action : p \in Range(env.ledger)}

PermittedAgain(env) ==
  Only(Ids(env.specs), {a \in Tools : Price(env.specs, a) <= BUDGET - env.spent})

Permitted(env) ==
  Only(Ids(env.specs),
       {a \in Tools : Price(env.specs, a) <= BUDGET - env.spent} \ Acquired(env))

(* In catalogue order, the terminals last; a replay can answer every probe.    *)
Mask(env) ==
  IF Terminated(env) THEN << >>
  ELSE (IF env.probes < MAX_PROBES THEN Permitted(env) ELSE << >>) \o << STOP, DEFER >>

TerminalAlwaysStop(model, env) == STOP

(* Deferring wins a tie.                                                       *)
TerminalAction(model, env) ==
  IF DeferValue(model, env.history) >= StopValue(model, env.history) THEN DEFER ELSE STOP

Finish(model, env, a, reason) ==
  [env EXCEPT !.decision =
     [kind   |-> IF a = DEFER THEN "DEFER" ELSE "DIAGNOSE",
      causes |-> IF a = DEFER THEN {} ELSE Prediction(model, env.history),
      evidence |-> [i \in DOMAIN env.ledger |-> env.ledger[i].action],
      reason |-> reason]]

(* The ledger refuses a second packet of an action or of an identity.          *)
Acquire(env, a, symbol) ==
  [env EXCEPT !.ledger = Append(@, [action |-> a, symbol |-> symbol]),
              !.spent = @ + Price(env.specs, a)]

Bought(env, a, symbol) ==
  [Acquire(env, a, symbol) EXCEPT
     !.probes = @ + 1,
     !.history = Append(@, << a, symbol >>),
     !.paid = @ - LAMBDA_COST * Price(env.specs, a)]

(* A probe that leaves no other probe ends the investigation.                  *)
StepWith(model, env, a, symbol) ==
  LET after == Bought(env, a, symbol)
      reason == IF after.spent = BUDGET THEN "budget"
                ELSE IF after.probes = MAX_PROBES THEN "horizon" ELSE "no_probe_available"
  IN IF Len(Mask(after)) > 2 THEN after
     ELSE Finish(model, after, TerminalAction(model, after), reason)

(* An action outside the mask raises before anything changes.                  *)
Accepts(env, a) == a \in Range(Mask(env))

Step(model, env, packets, a) ==
  IF Terminal(a) THEN Finish(model, env, a, "voluntary")
  ELSE StepWith(model, env, a, packets[a])

Score(decision, causes) ==
  IF decision.kind = "DEFER" THEN DEFERRED
  ELSE IF decision.causes = causes THEN CORRECT ELSE INCORRECT

Return(env, causes) == env.paid + Score(env.decision, causes)

-------------------------------------------------------------------------------
(* The bounded planner.  Values are times the mass of the belief and SCALE to  *)
(* the power of the depth that is left.                                        *)

Affordable(specs, history, budget) ==
  {a \in Range(Ids(specs)) : /\ Price(specs, a) <= budget
                             /\ \A i \in DOMAIN history : history[i][1] # a}

After(history, a) == {Append(history, << a, s >>) : s \in Vocabulary(a)}

Packets == UNION {{a} \X Vocabulary(a) : a \in Tools}
Cost(model, specs, history, depth, a) ==
  LAMBDA_COST * Price(specs, a) * Mass(model, history) * SCALE^depth

BestValue(model, specs, history, budget, depth) ==
  LET best[h \in Seq(Packets), credits \in Int, d \in Nat] ==
        LET stop == Max({StopValue(model, h), DeferValue(model, h)}) * SCALE^d
            probes == IF d = 0 THEN {} ELSE Affordable(specs, h, credits)
            probe(a) == Total([g \in After(h, a) |-> best[g, credits - Price(specs, a), d - 1]])
                        - Cost(model, specs, h, d, a)
        IN Max({stop} \union {probe(a) : a \in probes})
  IN best[history, budget, depth]

ProbeValue(model, specs, history, budget, depth, a) ==
  Total([h \in After(history, a) |->
           BestValue(model, specs, h, budget - Price(specs, a), depth - 1)])
  - Cost(model, specs, history, depth, a)

(* The bodies of evidence a search visits, whatever the order they came in: by *)
(* every depth the evidence and the credits that are left.                     *)
Visited(specs, evidence, budget, depth) ==
  LET Wider(node) == {<< node[1] \union {p}, node[2] - Price(specs, p[1]) >> :
                       p \in {p \in Packets : /\ Price(specs, p[1]) <= node[2]
                                                /\ \A e \in node[1] : e[1] # p[1]}}
      visited[d \in 0 .. depth] ==
        IF d = 0 THEN {<< evidence, budget >>}
        ELSE LET before == visited[d - 1] IN before \union UNION {Wider(node) : node \in before}
  IN {node[1] : node \in visited[depth]}

Horizon(env) == MAX_PROBES - env.probes
Remaining(env) == BUDGET - env.spent

(* A search past its limit starts again one probe deep.                        *)
SearchDepth(env, depth) ==
  LET within == Min({depth, Horizon(env)})
  IN IF Cardinality(Visited(env.specs, Range(env.history), Remaining(env), within)) > MAX_EXPANDED
     THEN Min({1, Horizon(env)}) ELSE within

PlannedValue(model, env, depth, a) ==
  CASE a = STOP  -> StopValue(model, env.history) * SCALE^depth
    [] a = DEFER -> DeferValue(model, env.history) * SCALE^depth
    [] OTHER     -> ProbeValue(model, env.specs, env.history, Remaining(env), depth, a)

(* Deferring wins a tie, then stopping, then the order of the catalogue.       *)
PlannerChoice(model, env, depth) ==
  LET d == SearchDepth(env, depth)
      order == << DEFER, STOP >> \o SelectSeq(Mask(env), LAMBDA a : ~ Terminal(a))
  IN FirstMax(order, [a \in Range(order) |-> PlannedValue(model, env, d, a)])

-------------------------------------------------------------------------------
(* Rules.                                                                      *)

OldName(a) == IF a[1] = "status" /\ a[3] = 2 THEN [a EXCEPT ![3] = 1] ELSE a

(* The first rule asks two services for their status and stops on the first    *)
(* that is down; name is how it calls today's actions.                         *)
DependencyRule(model, env, name) ==
  LET asked == [r \in {"catalogue-db", "orders"} |-> << "status", r, 1 >>]
      down == \E i \in DOMAIN env.history :
                name[env.history[i][1]] \in Range(asked) /\ env.history[i][2] = "STOPPED"
      open == SelectSeq(Mask(env), LAMBDA a : ~ Terminal(a) /\ name[a] \in Range(asked))
      first == SelectSeq(open, LAMBDA a : name[a] = asked["catalogue-db"])
  IN IF down \/ open = << >> THEN TerminalAction(model, env)
     ELSE IF first # << >> THEN first[1] ELSE open[1]

(* confidence is a percentage.                                                 *)
FixedSequence(model, env, sequence, confidence) ==
  LET open == SelectSeq(sequence, LAMBDA a : a \in Range(Mask(env)))
  IN IF \/ Confidence(model, env.history) * 100 >= confidence * Mass(model, env.history)
        \/ open = << >>
     THEN TerminalAction(model, env) ELSE open[1]

Cheapest == SortSeq(Specs, LAMBDA s, t : s.price < t.price)
FixedCandidates ==
  {Ids(Specs), Ids(Cheapest)} \union
  {Ids(SubSeq(Specs, i, Len(Specs)) \o SubSeq(Specs, 1, i - 1)) : i \in DOMAIN Specs}

(* The status of every cause first, then the rest of the catalogue.            *)
GeneralizedSequence(task) ==
  LET roots == UNION Range(Classes[task])
      asked(a) == a[1] = "status" /\ a[2] \in roots
  IN SelectSeq(Ids(Specs), LAMBDA a : asked(a)) \o SelectSeq(Ids(Specs), LAMBDA a : ~ asked(a))

PREFERRED == << << "status", "catalogue-db", 2 >>, << "status", "orders", 2 >>, << "cpu", "payment", 2 >> >>
CONFIDENT == 95

(* With a second cause possible behind a stopped database, its CPU is bought.  *)
ExpandedRule(model, task, env) ==
  LET sequence == SelectSeq(PREFERRED, LAMBDA a : a \in Tools)
                  \o SelectSeq(Ids(Specs), LAMBDA a : a \notin Range(PREFERRED))
      second == << "cpu", "payment", 2 >>
  IN IF /\ task = "multi" /\ << PREFERRED[1], "STOPPED" >> \in Range(env.history)
        /\ second \in Range(Mask(env))
     THEN second ELSE FixedSequence(model, env, sequence, CONFIDENT)

-------------------------------------------------------------------------------
(* Learned policies.  A table's keys hold the prices: under changed prices     *)
(* every state is unseen, and an unseen action is hoped to end correctly.      *)

Visits(env) ==
  IF env.specs = Specs /\ Range(env.history) \in DOMAIN Learned
  THEN Learned[Range(env.history)].visits ELSE 0

InitialValue(model, env, a) ==
  CASE a = STOP  -> StopValue(model, env.history)
    [] a = DEFER -> DeferValue(model, env.history)
    [] OTHER     -> (CORRECT - LAMBDA_COST * Price(env.specs, a)) * Mass(model, env.history)

TabularChoice(model, env) ==
  IF Visits(env) > 0 /\ Learned[Range(env.history)].action \in Range(Mask(env))
  THEN Learned[Range(env.history)].action
  ELSE FirstMax(Mask(env), [a \in Range(Mask(env)) |-> InitialValue(model, env, a)])

(* A network's features are scaled by what it was built with.                  *)
PriceScale == Max({BUDGET} \union {s.price : s \in Range(Specs)})
PricesRefused(specs) == \E s \in Range(specs) : s.price > PriceScale

HybridChoice(model, env) ==
  IF Visits(env) < MIN_VISITS THEN PlannerChoice(model, env, 2) ELSE TabularChoice(model, env)

Lots == {"random", "dqn"}
PolicyKinds == Lots \union {"stop", "defer", "rule", "transfer", "fixed", "generalized",
                            "expanded", "dp", "tabular", "hybrid"}

(* What a definition may choose: a random rule and a network, whose weights    *)
(* are arbitrary here, anything in the mask.                                   *)
PolicyChoices(model, task, env, def) ==
  CASE def.kind = "stop"        -> {STOP}
    [] def.kind = "defer"       -> {DEFER}
    [] def.kind \in Lots -> Range(Mask(env))
    [] def.kind = "rule"        -> {DependencyRule(model, env, [a \in Tools |-> a])}
    [] def.kind = "transfer"    -> {DependencyRule(model, env, [a \in Tools |-> OldName(a)])}
    [] def.kind = "fixed"       -> {FixedSequence(model, env, def.sequence, def.confidence)}
    [] def.kind = "generalized" -> {FixedSequence(model, env, GeneralizedSequence(task), CONFIDENT)}
    [] def.kind = "expanded"    -> {ExpandedRule(model, task, env)}
    [] def.kind = "dp"          -> {PlannerChoice(model, env, def.depth)}
    [] def.kind = "tabular"     -> {TabularChoice(model, env)}
    [] def.kind = "hybrid"      -> {HybridChoice(model, env)}

-------------------------------------------------------------------------------
(* Challenges: packets of a source that is down, or other prices.              *)

Outage == [logs            |-> {"logs"},
           request_metrics |-> {"request_errors", "latency"},
           container_stats |-> {"cpu", "memory"},
           all_telemetry   |-> {"logs", "request_errors", "latency", "cpu", "memory"}]
Scenarios == (DOMAIN Outage) \union {"half-prices", "double-prices"}

ChallengePackets(packets, scenario) ==
  IF scenario \notin DOMAIN Outage THEN packets
  ELSE [a \in DOMAIN packets |-> IF a[1] \in Outage[scenario] THEN "ERROR" ELSE packets[a]]

ChallengeSpecs(scenario) ==
  [i \in DOMAIN Specs |-> [Specs[i] EXCEPT !.price =
     CASE scenario = "half-prices"   -> Max({1, @ \div 2})
       [] scenario = "double-prices" -> 2 * @
       [] OTHER -> @]]

-------------------------------------------------------------------------------
(* Scores.  An outcome is [incident, session, decision, truth, credits,        *)
(* return].                                                                    *)

ScoreOutcome(incident, env) ==
  LET i == Incidents[incident]
  IN [incident |-> incident, session |-> i.session, decision |-> env.decision,
      truth |-> i.causes, credits |-> env.spent, return |-> Return(env, i.causes)]

Diagnosed(o) == o.decision.kind = "DIAGNOSE"
Named(o) == IF Diagnosed(o) THEN o.decision.causes ELSE {}
RootMetricsNamed(o) ==
  [tp |-> Cardinality(Named(o) \intersect o.truth), fp |-> Cardinality(Named(o) \ o.truth),
   fn |-> Cardinality(o.truth \ Named(o)), exact |-> Named(o) = o.truth]

RootMetrics(o) ==
  [tp |-> Cardinality(Named(o) \intersect o.truth), fp |-> Cardinality(Named(o) \ o.truth),
   fn |-> Cardinality(o.truth \ Named(o)), exact |-> Diagnosed(o) /\ o.decision.causes = o.truth]

SumOver(outcomes, Value(_)) == Total([i \in DOMAIN outcomes |-> Value(outcomes[i])])
Count(outcomes, P(_)) == Cardinality({i \in DOMAIN outcomes : P(outcomes[i])})

Summarize(outcomes) ==
  [count   |-> Len(outcomes),
   correct |-> Count(outcomes, LAMBDA o : RootMetrics(o).exact),
   covered |-> Count(outcomes, Diagnosed),
   credits |-> SumOver(outcomes, LAMBDA o : o.credits),
   returns |-> SumOver(outcomes, LAMBDA o : o.return),
   roots   |-> [c \in UNION {o.truth : o \in Range(outcomes)} |->
     [tp |-> Count(outcomes, LAMBDA o : c \in Named(o) \intersect o.truth),
      fp |-> Count(outcomes, LAMBDA o : c \in Named(o) \ o.truth),
      fn |-> Count(outcomes, LAMBDA o : c \in o.truth \ Named(o))]],
   sessions |-> [s \in {o.session : o \in Range(outcomes)} |->
     Total([i \in {j \in DOMAIN outcomes : outcomes[j].session = s} |-> outcomes[i].return])],
   missing |-> Count(outcomes, LAMBDA o : Cardinality(o.truth) = 2 /\ RootMetrics(o).tp = 1),
   confusion |-> [t \in {o.truth : o \in Range(outcomes)} |->
     [d \in {Named(o) : o \in Range(outcomes)} |->
       Count(outcomes, LAMBDA o : o.truth = t /\ Diagnosed(o) /\ Named(o) = d)]]]
================================================================================
