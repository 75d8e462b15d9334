-------------------------- MODULE ProgressiveSession --------------------------
(***************************************************************************)
(* Early diagnosis: _observe_early of rca_live_v3/controller.py drives the *)
(* ProgressiveSession of rca_live_v3/early.py over growing prefixes of one *)
(* observation, and the controller's repair gate reads the result.         *)
(*                                                                         *)
(* Each snapshot turns the prefix into one packet per tool, publishes them *)
(* to the graph and advances the session, which buys packets from the      *)
(* graph under one budget until it can diagnose, must defer, or waits for  *)
(* the next prefix.  Time passes between and inside those steps.  The      *)
(* diagnostic model and the policy are any functions whatever: where they  *)
(* are asked, every answer is possible.                                    *)
(***************************************************************************)
EXTENDS Integers, Sequences, FiniteSets, FiniteSetsExt, SequencesExt

CONSTANTS
  Tools,        \* probes of the catalogue
  StatusTools,  \* ... of a container's state
  MemoryTools,  \* ... of memory, whose normal reading needs a long span
  DirectTools,  \* ... whose anomaly is direct evidence of its cause
  Causes,
  NoCause,
  CauseOf,      \* CauseOf[t]: the cause an anomaly seen by t supports
  Cost,         \* Cost[t]: credits of a probe
  Owned,        \* Owned[c]: the tool whose anomaly the repair of the injected
                \* cause c must have seen; its domain is the injected causes
  MaxCredits, MaxProbes,   \* 10 and 5
  MinDecision,  \* 15 seconds of observation before any decision
  MinHealthy,   \* 90 seconds before a healthy one
  Limit,        \* 120 seconds of observation
  MaxAge,       \* 15 seconds: the age of evidence a decision may rest on
  Horizon       \* bound on the clock

ASSUME SessionAssumption ==
  /\ StatusTools \subseteq Tools /\ MemoryTools \subseteq Tools /\ DirectTools \subseteq Tools
  /\ NoCause \notin Causes /\ "STOP" \notin Tools
  /\ CauseOf \in [Tools -> Causes \cup {NoCause}]
  /\ Cost \in [Tools -> Nat \ {0}]
  /\ DOMAIN Owned \subseteq Causes
  /\ \A c \in DOMAIN Owned : Owned[c] \in Tools
  /\ {MaxCredits, MaxProbes, MinDecision, MinHealthy, Limit, MaxAge, Horizon} \subseteq Nat
  /\ 0 < MinDecision /\ MinDecision <= MinHealthy /\ MinHealthy <= Limit /\ Limit < Horizon

VARIABLES
  clock,    \* time since the observation began
  pc,       \* "collect", "advance", "decided", "repair", "cleanup", "raised", "refused"
  end,      \* end of the prefix last snapshot
  view,     \* view[t]: what the prefix says, published to the graph
  packets,  \* VersionedLedger.packets: every purchase, refreshes included
  credits,  \* VersionedLedger.credits
  history,  \* symbols the model and the policy see
  result    \* the decision, or Undecided

vars == <<clock, pc, end, view, packets, credits, history, result>>
session == <<packets, credits, history>>

Reading == {"unavailable", "normal", "anomalous"}
Packet  == [tool : Tools, code : Reading \ {"unavailable"}, time : Nat]
Ended   == {"repair", "cleanup", "raised", "refused"}
Undecided == [kind |-> "none", causes |-> {}, reason |-> "none", at |-> 0]
Decision == [kind : {"none", "DIAGNOSE", "DEFER"}, causes : SUBSET Causes,
             reason : {"none", "early_confident", "deadline_or_budget", "insufficient_support"},
             at : 0..Horizon]

TypeOK ==
  /\ clock \in 0..Horizon
  /\ pc \in {"collect", "advance", "decided"} \cup Ended
  /\ end \in 0..Limit
  /\ view \in [Tools -> Reading]
  /\ packets \in Seq(Packet) /\ credits \in Nat
  /\ history \in Seq(Tools \X Reading)
  /\ result \in Decision

Init ==
  /\ clock = 0 /\ pc = "collect" /\ end = 0
  /\ view = [t \in Tools |-> "unavailable"]
  /\ packets = <<>> /\ credits = 0 /\ history = <<>>
  /\ result = Undecided

-----------------------------------------------------------------------------
(* What the session reads.                                                 *)

Deadline == end >= Limit
Ready    == {t \in Tools : view[t] # "unavailable"}
Visible  == {t \in Tools : view[t] = "anomalous"}

Bought   == {packets[i].tool : i \in DOMAIN packets}

\* The ledger's latest packet of a tool it has bought.
Latest(t) == packets[CHOOSE i \in DOMAIN packets :
                       packets[i].tool = t /\ \A j \in DOMAIN packets : packets[j].tool = t => j <= i]

Stale  == {t \in Bought : clock - Latest(t).time > MaxAge}

Affordable(t) == credits + Cost[t] <= MaxCredits /\ Len(packets) < MaxProbes

\* direct_roots(): causes that stand in plain sight in the public graph.
DirectRoots == {CauseOf[t] : t \in DirectTools \cap Visible}

\* supported(): a latest packet shows an anomaly of each cause.
Supported(causes) ==
  causes # {} /\ \A c \in causes : \E t \in Bought : CauseOf[t] = c /\ Latest(t).code = "anomalous"

Sufficient(causes) ==
  IF causes # {} THEN Supported(causes) /\ DirectRoots \subseteq causes
  ELSE end >= MinHealthy /\ Visible = {} /\ packets # <<>>

\* Unbought probes; a container's state is probed only when its stop is visible.
Remaining ==
  {t \in Ready \ Bought : Affordable(t) /\ (t \in StatusTools => t \in Visible)}

Refreshable == {t \in Stale \cap Ready : Affordable(t)}

\* The ledger keeps a tool at the place of its first purchase.
FirstBought(S) ==
  CHOOSE t \in S : \E i \in DOMAIN packets :
    packets[i].tool = t /\ \A j \in DOMAIN packets : packets[j].tool \in S => i <= j

\* GraphGuidedPolicy: visible anomalies not yet bought come before anything the
\* policy would choose, its terminal proposals included.
Unconfirmed == Visible \cap Remaining

Preferred ==
  LET status == Unconfirmed \cap StatusTools
      other  == Unconfirmed \cap (DirectTools \ StatusTools)
  IN  IF status # {} THEN status ELSE IF other # {} THEN other ELSE Unconfirmed

Options == IF Unconfirmed # {} THEN Preferred ELSE Remaining \cup {"STOP"}

-----------------------------------------------------------------------------
(* The loop of _observe_early.                                             *)

Tick ==
  /\ clock < Horizon /\ pc \notin Ended
  /\ clock' = clock + 1
  /\ UNCHANGED <<pc, end, view, session, result>>

\* A normal memory reading needs the growth span.
Readable(v, duration) ==
  \A t \in MemoryTools : v[t] = "normal" => duration >= MinHealthy

\* Collect the prefix, compute its packets and publish them.
Snapshot ==
  /\ pc = "collect" /\ clock > 0
  /\ end' = Min({clock, Limit})
  /\ view' \in {v \in [Tools -> Reading] : Readable(v, end')}
  /\ pc' = "advance"
  /\ UNCHANGED <<clock, session, result>>

\* The collector failed, or publication raised.
SnapshotFailed ==
  /\ pc = "collect"
  /\ pc' = "raised"
  /\ UNCHANGED <<clock, end, view, session, result>>

-----------------------------------------------------------------------------
(* advance().                                                              *)

TooEarly ==
  \/ end < MinDecision
  \/ Visible = {} /\ history = <<>> /\ end < MinHealthy /\ ~Deadline

Wait ==
  /\ pc' = "collect"
  /\ UNCHANGED <<clock, end, view, session, result>>

AdvanceEarly == pc = "advance" /\ TooEarly /\ Wait

Finish(kind, causes, reason) ==
  /\ result' = [kind |-> kind, causes |-> causes, reason |-> reason, at |-> clock]
  /\ pc' = "decided"
  /\ UNCHANGED <<clock, end, view, session>>

\* VersionedLedger.acquire: one packet of the current prefix.  The identity of a
\* packet is that of its tool and prefix.
Identical(t) == \E i \in DOMAIN packets : packets[i].tool = t /\ packets[i].time = end

ChargeNew(t) == IF t \in Bought THEN 0 ELSE Cost[t]
Charge(t) == Cost[t]

\* A refresh moves the tool's symbol, of which there is one, to the end.
Remember(t) ==
  Append(RemoveFirstMatch(history, LAMBDA h : h[1] = t), <<t, view[t]>>)

Buy(t) ==
  /\ ~Identical(t) /\ Affordable(t)
  /\ packets' = Append(packets, [tool |-> t, code |-> view[t], time |-> end])
  /\ credits' = credits + Charge(t)
  /\ history' = Remember(t)
  /\ UNCHANGED <<clock, pc, end, view, result>>

\* The ledger refuses: the session raises and the incident has failed.
BuyRefused(t) ==
  /\ Identical(t) \/ ~Affordable(t)
  /\ pc' = "refused"
  /\ UNCHANGED <<clock, end, view, session, result>>

\* One turn of advance()'s loop under the model's answer: the most probable
\* causes, and whether its confidence reaches 90%.
Accept(causes, confident) ==
  /\ confident /\ Sufficient(causes) /\ Stale = {}
  /\ Finish("DIAGNOSE", causes, "early_confident")

Undecidable(causes, confident) == ~(confident /\ Sufficient(causes) /\ Stale = {})
Refreshing(causes, confident) ==
  confident /\ Sufficient(causes) /\ Stale # {} /\ Refreshable # {}

\* A supported answer whose evidence has aged buys the evidence again.
Refresh(causes, confident) ==
  /\ Refreshing(causes, confident)
  /\ LET t == FirstBought(Refreshable) IN Buy(t) \/ BuyRefused(t)

Exhausted(causes, confident) ==
  /\ Undecidable(causes, confident) /\ ~Refreshing(causes, confident)
  /\ Remaining = {}
  /\ \/ /\ Deadline \/ Len(packets) >= MaxProbes \/ credits >= MaxCredits
        /\ Finish("DEFER", {}, "deadline_or_budget")
     \/ /\ ~Deadline /\ Len(packets) < MaxProbes /\ credits < MaxCredits
        /\ Wait

\* The policy buys, or proposes to stop: that waits until the deadline defers.
Probe(causes, confident) ==
  /\ Undecidable(causes, confident) /\ ~Refreshing(causes, confident)
  /\ Remaining # {}
  /\ \E t \in Options \ {"STOP"} : Buy(t) \/ BuyRefused(t)

TerminalWaits(causes, confident) ==
  /\ Undecidable(causes, confident) /\ ~Refreshing(causes, confident)
  /\ Remaining # {} /\ "STOP" \in Options
  /\ Wait

Terminal(causes, confident) ==
  /\ Undecidable(causes, confident) /\ ~Refreshing(causes, confident)
  /\ Remaining # {} /\ "STOP" \in Options
  /\ IF Deadline THEN Finish("DEFER", {}, "insufficient_support") ELSE Wait

Turn ==
  /\ pc = "advance" /\ ~TooEarly
  /\ \E causes \in SUBSET Causes, confident \in BOOLEAN :
       \/ Accept(causes, confident) \/ Refresh(causes, confident)
       \/ Exhausted(causes, confident) \/ Probe(causes, confident)
       \/ Terminal(causes, confident)

\* A policy or a graph query raises.
TurnFailed ==
  /\ pc = "advance"
  /\ pc' = "raised"
  /\ UNCHANGED <<clock, end, view, session, result>>

-----------------------------------------------------------------------------
(* repair_supported(), after the collector has been joined.                *)

SupportedUndated ==
  /\ result.kind = "DIAGNOSE" /\ DOMAIN Owned # {} /\ result.causes = DOMAIN Owned
  /\ \A c \in DOMAIN Owned : Owned[c] \in Bought /\ Latest(Owned[c]).code = "anomalous"

RepairSupported ==
  /\ result.kind = "DIAGNOSE" /\ DOMAIN Owned # {} /\ result.causes = DOMAIN Owned
  /\ Stale = {}
  /\ \A c \in DOMAIN Owned : Owned[c] \in Bought /\ Latest(Owned[c]).code = "anomalous"

Gate ==
  /\ pc = "decided"
  /\ pc' = IF RepairSupported THEN "repair" ELSE "cleanup"
  /\ UNCHANGED <<clock, end, view, session, result>>

Over == pc \in Ended /\ UNCHANGED vars

Next ==
  \/ Tick \/ Snapshot \/ SnapshotFailed \/ AdvanceEarly \/ Turn \/ TurnFailed \/ Gate \/ Over

Spec == Init /\ [][Next]_vars

Advance == AdvanceEarly \/ Turn

\* Calls return and time passes.
Fairness == WF_vars(Tick) /\ WF_vars(Snapshot) /\ WF_vars(Advance) /\ WF_vars(Gate)

FairSpec == Spec /\ Fairness

-----------------------------------------------------------------------------
(* Properties.                                                             *)

\* "One budget for the entire incident. Refresh replaces a symbol, not its
\* cost": the ledger charges every purchase, never beyond ten credits and five
\* probes, and the model sees exactly the latest symbol of each tool bought.
OneLedger ==
  /\ credits = FoldLeft(LAMBDA sum, p : sum + Cost[p.tool], 0, packets)
  /\ credits <= MaxCredits /\ Len(packets) <= MaxProbes
  /\ ToSet(history) = {<<t, Latest(t).code>> : t \in Bought}
  /\ Len(history) = Cardinality(Bought)

\* "fresh purchased evidence and direct support for every predicted cause", no
\* direct alert ignored, no healthy verdict before ninety seconds: what must be
\* true of a diagnosis when it is made.
GroundedDiagnosis ==
  pc = "decided" /\ result.kind = "DIAGNOSE" =>
    /\ end >= MinDecision
    /\ \A t \in Bought : result.at - Latest(t).time <= MaxAge
    /\ \A c \in result.causes : \E t \in Bought :
         CauseOf[t] = c /\ Latest(t).code = "anomalous" /\ result.at - Latest(t).time <= MaxAge
    /\ \A t \in DirectTools : view[t] = "anomalous" => CauseOf[t] \in result.causes
    /\ result.causes = {} => end >= MinHealthy /\ Visible = {} /\ Bought # {}

\* However long joining the collector takes, components are repaired only on
\* evidence that is fresh then, exactly for the injected causes, and bought from
\* the tool that shows each one's mechanism.
RepairIsGrounded ==
  pc = "repair" =>
    /\ result.causes = DOMAIN Owned
    /\ \A c \in DOMAIN Owned : \E i \in DOMAIN packets :
         /\ packets[i].tool = Owned[c] /\ packets[i].code = "anomalous"
         /\ clock - packets[i].time <= MaxAge

\* "requires confirmation of visible graph anomalies before accepting a terminal
\* proposal": a session that gives up at the deadline has bought every anomaly
\* in sight it could still pay for.
AnomaliesConfirmedFirst ==
  result.reason = "insufficient_support" =>
    \A t \in Visible : t \in Bought \/ ~Affordable(t)

\* Whatever is decided rests on evidence: a diagnosis when it is accepted, the
\* repair after the join, and the deferral that gives up.
DecisionsAreGrounded ==
  TypeOK /\ GroundedDiagnosis /\ RepairIsGrounded /\ AnomaliesConfirmedFirst

\* Every session ends: the deadline decides if nothing did before.
SessionEnds == <>(pc \in Ended)
=============================================================================
