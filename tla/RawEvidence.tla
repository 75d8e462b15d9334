----------------------------- MODULE RawEvidence -----------------------------
(* From the measurements of one sealed capture window to the symbols a paid    *)
(* probe shows: the coverage of a window, the summaries of each family, the    *)
(* encoder fitted on the training windows, and its projection.                 *)
(* A window of stats is a function from sample times, whole sampling           *)
(* intervals, to readings.  Requests are counted by outcome.  Fractions are    *)
(* compared by cross-multiplication, medians and percentiles are in twentieths. *)
(* Identities, units, timestamps and the log parser's categories are left out. *)
EXTENDS Integers, Sequences, FiniteSets, FiniteSetsExt, SequencesExt

CONSTANTS
  WINDOW,        \* length of a window in sampling intervals
  MIN_REQUESTS,  \* requests that a summary needs
  MIN_SESSIONS   \* sessions that each training band needs

ASSUME EvidenceAssumption ==
  /\ {WINDOW, MIN_REQUESTS, MIN_SESSIONS} \subseteq Nat \ {0}

TWENTY == 20
UNAVAILABLE == "UNAVAILABLE"

-------------------------------------------------------------------------------
(* Samples.                                                                    *)

Times(w) == SetToSortSeq(DOMAIN w, <)
Readings(w) == SortSeq([i \in DOMAIN Times(w) |-> w[Times(w)[i]]], <)

(* At least 80% of the intervals sampled and no gap above three intervals, the *)
(* edges of the window included.                                               *)
Covered(w) ==
  LET marks == << 0 >> \o Times(w) \o << WINDOW >>
  IN /\ Cardinality(DOMAIN w) >= 2
     /\ 5 * Cardinality(DOMAIN w) >= 4 * WINDOW
     /\ \A i \in 1 .. Len(marks) - 1 : marks[i + 1] - marks[i] <= 3

Median(s) == ((s[(Len(s) + 1) \div 2] + s[Len(s) \div 2 + 1]) * TWENTY) \div 2

(* The 95th percentile, interpolated between its neighbours.                   *)
Percentile(s) ==
  LET index == (Len(s) - 1) * 19
      lo == index \div TWENTY
      hi == Min({lo + 1, Len(s) - 1})
  IN s[lo + 1] * TWENTY + (s[hi + 1] - s[lo + 1]) * (index % TWENTY)

(* The median slope of the pairs at least half the span apart, never negative. *)
LONG == 2
Growth(w) ==
  LET span == Max(DOMAIN w) - Min(DOMAIN w)
      apart == {p \in (DOMAIN w) \X (DOMAIN w) : p[2] - p[1] >= Max({LONG, (span + 1) \div 2})}
      slopes == SortSeq([i \in 1 .. Cardinality(apart) |->
                  LET p == SetToSeq(apart)[i]
                  IN ((w[p[2]] - w[p[1]]) * 12) \div (p[2] - p[1])], <)
  IN IF apart = {} THEN 0 ELSE Max({0, Median(slopes)})

-------------------------------------------------------------------------------
(* Summaries.  A threshold is in twentieths of a reading.                       *)

Cpu(w, threshold) ==
  LET high == {t \in DOMAIN w : w[t] * TWENTY > threshold}
  IN IF ~ Covered(w) THEN UNAVAILABLE
     ELSE IF 2 * Cardinality(high) >= Cardinality(DOMAIN w) THEN "HIGH" ELSE "NORMAL"

SPAN == 3
Memory(w, pressure, growth) ==
  LET pressed == Median(Readings(w)) > pressure
      growing == Max(DOMAIN w) - Min(DOMAIN w) >= SPAN /\ Growth(w) > growth
  IN IF ~ Covered(w) THEN UNAVAILABLE
     ELSE IF pressed /\ growing THEN "PRESSURE_AND_GROWTH"
     ELSE IF pressed THEN "PRESSURE"
     ELSE IF growing THEN "GROWTH" ELSE "NORMAL"

(* requests: the durations of those that succeeded; failures and time-outs are *)
(* not instantaneous successes, they are left out.                             *)
Latency(requests, threshold) ==
  IF Len(requests) < MIN_REQUESTS THEN UNAVAILABLE
  ELSE IF Percentile(SortSeq(requests, <)) > threshold THEN "SLOW" ELSE "NORMAL"

(* counts: requests the server completed, those it failed, transport failures. *)
(* A threshold is << numerator, denominator >>.                                *)
Above(part, whole, threshold) == part * threshold[2] > threshold[1] * whole

Requests(counts, http, transport) ==
  LET attempts == counts.completed + counts.transport
      http_valid == counts.completed >= MIN_REQUESTS
      high_http == http_valid /\ Above(counts.errors, counts.completed, http)
      high_transport == /\ attempts >= MIN_REQUESTS
                        /\ Above(counts.transport, attempts, transport)
  IN IF ~ (high_http \/ high_transport) /\ ~ http_valid THEN UNAVAILABLE
     ELSE IF high_http /\ high_transport THEN "MIXED_FAILURES"
     ELSE IF high_http THEN "HIGH_HTTP_ERRORS"
     ELSE IF high_transport THEN "HIGH_TRANSPORT_FAILURES" ELSE "NORMAL"

Status(state) ==
  CASE state = "missing" -> UNAVAILABLE
    [] state = "running" -> "RUNNING"
    [] state \in {"exited", "dead"} -> "STOPPED"
    [] OTHER -> "OTHER_STATE"

-------------------------------------------------------------------------------
(* Fitting.  A training window is [session, faulty, family, data].             *)

Statistic(family, data) ==
  CASE family \in {"cpu", "memory"} -> Median(Readings(data))
    [] family = "latency" -> Percentile(SortSeq(data, <))

Sufficient(family, data) ==
  CASE family = "latency"  -> Len(data) >= MIN_REQUESTS
    [] family = "requests" -> data.completed >= MIN_REQUESTS
    [] OTHER -> Covered(data)

Band(training, family, faulty) ==
  {<< r.session, Statistic(family, r.data) >> :
     r \in {r \in training : r.family = family /\ r.faulty = faulty
                             /\ Sufficient(family, r.data)}}

(* Disjoint bands of enough sessions each, or the fit is refused.              *)
Separated(negative, positive) ==
  /\ \A band \in {negative, positive} :
       band # {} /\ Cardinality({v[1] : v \in band}) >= MIN_SESSIONS
  /\ \A n \in negative, p \in positive : n[2] < p[2]

ThresholdAtFault(negative, positive) == Min({v[2] : v \in positive})

Threshold(negative, positive) ==
  (Max({v[2] : v \in negative}) + Min({v[2] : v \in positive})) \div 2

MIN_GROWTH == TWENTY
MIN_ERRORS == << 1, 20 >>

(* The largest fraction a healthy operation shows, at least 5%.                *)
Worst(fractions) ==
  CHOOSE f \in fractions \union {MIN_ERRORS} :
    \A g \in fractions \union {MIN_ERRORS} : g[1] * f[2] <= f[1] * g[2]

Fitted(training) ==
  /\ \A f \in {"cpu", "memory", "latency"} :
       Separated(Band(training, f, FALSE), Band(training, f, TRUE))
  /\ \A r \in training : r.faulty \/ r.family \in {"latency", "requests"} => Sufficient(r.family, r.data)

Healthy(training, family) == {r.data : r \in {r \in training : ~ r.faulty /\ r.family = family}}

FitEncoder(training) ==
  LET errors == Healthy(training, "requests")
  IN [cpu     |-> Threshold(Band(training, "cpu", FALSE), Band(training, "cpu", TRUE)),
      memory  |-> Threshold(Band(training, "memory", FALSE), Band(training, "memory", TRUE)),
      latency |-> Threshold(Band(training, "latency", FALSE), Band(training, "latency", TRUE)),
      growth  |-> Max({MIN_GROWTH} \union
                      {Growth(w) : w \in {w \in Healthy(training, "memory") :
                         Covered(w) /\ Max(DOMAIN w) - Min(DOMAIN w) >= SPAN}}),
      errors  |-> Worst({<< c.errors, c.completed >> : c \in errors}),
      transport |-> Worst({<< c.transport, c.completed + c.transport >> : c \in errors})]

-------------------------------------------------------------------------------
(* Projection: one probe's family of one window.                               *)

Project(family, data, encoder) ==
  CASE family = "cpu"      -> Cpu(data, encoder.cpu)
    [] family = "memory"   -> Memory(data, encoder.memory, encoder.growth)
    [] family = "latency"  -> Latency(data, encoder.latency)
    [] family = "requests" -> Requests(data, encoder.errors, encoder.transport)
    [] family = "status"   -> Status(data)

Alarm == {"HIGH", "PRESSURE", "PRESSURE_AND_GROWTH", "SLOW"}
================================================================================
