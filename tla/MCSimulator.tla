------------------------------ MODULE MCSimulator ------------------------------
EXTENDS Simulator

Chain == {<< 0, 1 >>, << 1, 2 >>}
Fork == {<< 0, 1 >>, << 0, 2 >>}
M(s, k) == << s, "metrics", k >>
L(s, k) == << s, "logs", k >>

MCIncidents ==
  << [edges |-> Chain, cause |-> 0, busy |-> FALSE, high |-> {M(0, 0), L(1, 0)}],
     [edges |-> Chain, cause |-> 1, busy |-> TRUE, high |-> {M(0, 0), M(1, 0), M(1, 1), L(1, 1), L(1, 2)}],
     [edges |-> Fork, cause |-> 2, busy |-> FALSE, high |-> {M(0, 0), M(2, 0), M(2, 1), L(2, 0)}],
     [edges |-> Fork, cause |-> 1, busy |-> TRUE, high |-> {M(1, 0), L(1, 0), L(1, 1)}] >>

Identity == [s \in 0 .. 2 |-> s]
Turned == [s \in 0 .. 2 |-> (s + 1) % 3]

MCTools == [s \in 0 .. 2 |-> IF s = 1 THEN {"logs"} ELSE {"metrics"}]

MCDraws ==
  [i \in 1 .. 2 |-> [k \in 1 .. 4 |-> [seed |-> 1 + ((2 * i + 3 * k) % 4),
                                      perm |-> IF k % 2 = 1 THEN Turned ELSE Identity]]]

(* Detailed metrics of 0 or STOP; quick metrics of 0 or STOP.                  *)
MCSampled == << {1, 16}, {0, 16} >>

MCCases == [s \in 1 .. 4 |-> [seed |-> s, perm |-> IF s % 2 = 0 THEN Turned ELSE Identity]]

MCSuites == {<< [kind |-> "stop"], [kind |-> "script", threshold |-> 75], [kind |-> "voi1"],
                [kind |-> "full_information"] >>,
             << [kind |-> "random", probes |-> 1] >>,
             << [kind |-> "random_stop"] >>}

MCFixtures == {Cheaper(WithBudget(f, budget), utility) :
                 f \in Catalogue, budget \in {1, 2, 8}, utility \in {10, 20}}
================================================================================
