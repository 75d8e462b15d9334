----------------------------- MODULE MCExperiment -----------------------------
(* Three probes, two tasks, fifteen incidents; five training windows of each  *)
(* family in every arrangement of a small range; two scopes with three methods.*)
EXTENDS Experiment

Db == << "status", "catalogue-db", 2 >>
Orders == << "status", "orders", 2 >>
Payment == << "cpu", "payment", 2 >>
MCSpecs == << [id |-> Db, price |-> 1, codes |-> {"RUNNING", "STOPPED"}],
              [id |-> Orders, price |-> 1, codes |-> {"RUNNING", "STOPPED"}],
              [id |-> Payment, price |-> 2, codes |-> {"NORMAL", "HIGH"}] >>
MCFailures == {"ERROR", "NO_DATA"}

Single == << {}, {"catalogue-db"}, {"orders"}, {"payment"} >>
MCClasses == [single |-> Single, multi |-> Append(Single, {"catalogue-db", "payment"})]

Observed(db, orders, cpu) ==
  [a \in {Db, Orders, Payment} |-> CASE a = Db -> db [] a = Orders -> orders [] OTHER -> cpu]
Incident(role, session, stratum, causes, symbols) ==
  [role |-> role, session |-> session, stratum |-> stratum, causes |-> causes, symbols |-> symbols]
UP == "RUNNING"
DOWN == "STOPPED"
MCIncidents ==
  << Incident("train", 1, 1, {}, Observed(UP, UP, "NORMAL")),
     Incident("train", 2, 2, {}, Observed(UP, UP, "NO_DATA")),
     Incident("train", 1, 1, {"catalogue-db"}, Observed(DOWN, UP, "NORMAL")),
     Incident("train", 2, 1, {"orders"}, Observed(UP, DOWN, "NORMAL")),
     Incident("train", 2, 2, {"payment"}, Observed(UP, UP, "HIGH")),
     Incident("train", 2, 1, {"payment"}, Observed("ERROR", UP, "HIGH")),
     Incident("train", 1, 1, {"catalogue-db", "payment"}, Observed(DOWN, UP, "HIGH")),
     Incident("validation", 5, 1, {"orders"}, Observed(UP, DOWN, "NO_DATA")),
     Incident("validation", 5, 1, {"payment"}, Observed("ERROR", UP, "HIGH")),
     Incident("test", 3, 1, {}, Observed(UP, UP, "NORMAL")),
     Incident("test", 3, 1, {"catalogue-db"}, Observed(DOWN, UP, "NO_DATA")),
     Incident("test", 4, 1, {"orders"}, Observed("ERROR", DOWN, "NORMAL")),
     Incident("test", 4, 2, {"payment"}, Observed(UP, UP, "NO_DATA")),
     Incident("test", 4, 1, {"payment"}, Observed(UP, "NO_DATA", "HIGH")),
     Incident("test", 3, 1, {"catalogue-db", "payment"}, Observed(DOWN, UP, "HIGH")) >>

MCSmoothing == << 1, 4 >>
MCLearned ==
  {} :> [visits |-> 6, action |-> Db]
  @@ {<< Db, DOWN >>} :> [visits |-> 6, action |-> STOP]
  @@ {<< Db, UP >>} :> [visits |-> 1, action |-> Orders]
  @@ {<< Db, UP >>, << Orders, UP >>} :> [visits |-> 5, action |-> Payment]

MCDraw(stream, n) ==
  ((n * n * 7 + n * 5 + (IF stream = "sampler" THEN 3 ELSE IF stream = "policy" THEN 8 ELSE 1)) \div 3) % 23
MCValidation(method, k) == << (k * 5) % 7, (k * 3) % 4 >>

Kinds == {"stop", "defer", "random", "dqn", "rule", "transfer", "generalized", "expanded", "tabular", "hybrid"}
MCDefinitions ==
  {[kind |-> k] : k \in Kinds} \union {[kind |-> "dp", depth |-> d] : d \in {1, 2}}
  \union {[kind |-> "fixed", sequence |-> q, confidence |-> c] : q \in FixedCandidates, c \in {60, 95}}
MCPlays ==
  {"single", "multi"}
  \X ({<< "test", def >> : def \in {d \in MCDefinitions : d.kind \notin Lots}}
      \union {<< "validation", [kind |-> k] >> : k \in Lots})
  \X {"none", "container_stats", "half-prices", "double-prices"}
MCRuns == {<< "single", "expected-sarsa" >>, << "single", "two-step-sarsa" >>,
           << "multi", "two-step-sarsa" >>, << "multi", "dqn" >>}
MCStops == {3, 6}

Ordered(n) == {q \in [1 .. n -> {1, 2, 4}] : \A i \in 1 .. n - 1 : q[i] <= q[i + 1]}
Sampled == UNION {Ordered(n) : n \in {4, 5}}
Window(session, faulty, family, data) ==
  [session |-> session, faulty |-> faulty, family |-> family, data |-> data]
Steady(family, v) == [t \in IF family = "latency" THEN 1 .. 4 ELSE {1, 2, 4, 5} |-> v]
Counted(completed, errors, transport) ==
  [completed |-> completed, errors |-> errors, transport |-> transport]
Plain(family) ==
  {Window(s, FALSE, family, Steady(family, 1)) : s \in {1, 2}} \union
  {Window(s, TRUE, family, Steady(family, 4)) : s \in {1, 2}}
Varied(family) ==
  {{Window(1, FALSE, family, Steady(family, 1)), Window(2, FALSE, family, h),
    Window(1, TRUE, family, Steady(family, 4)), Window(2, TRUE, family, f)} : h \in Sampled, f \in Sampled}
Families == {"cpu", "memory", "latency"}
MCWindows ==
  {v \union UNION {Plain(g) : g \in Families \ {f}}
     \union {Window(1, FALSE, "requests", Counted(8, 1, 1)),
             Window(2, FALSE, "requests", Counted(6, 0, 2))} :
   << f, v >> \in UNION {{f} \X Varied(f) : f \in Families}}

MCScopes == {"single", "multi"}
MCDerived == [single |-> << 1 >>, multi |-> << 1, 2 >>]
MCMethods == << "dp", "tabular" >>
MCLearnedMethods == {"tabular"}
MCGates == [single |-> {"passed", "failed"}, multi |-> {"passed"}]
================================================================================
