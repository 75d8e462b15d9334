----------------------------- MODULE SimValidation -----------------------------
(* Checks of `python -m rca_sim.validate`, each evaluated on one incident (or  *)
(* on the fixtures) with a verdict.  Left out are those of the probability     *)
(* tables and the distance decay, those that sample frequencies, and those     *)
(* that play the whole environment again through the Gymnasium interface.      *)
EXTENDS SimPlanner

AllTools == [s \in Services |-> {"metrics", "logs"}]

Play(e, actions) == FoldLeft(LAMBDA f, a : Step(AllTools, f, a), e, actions)

(* The belief does not depend on the order in which records arrive.            *)
ValidatePosteriorInvariants(d) ==
  LET w   == LoadCase(d)
      g   == GameTable[w.graph]
      ids == SetToSeq(Covers(Detailed(w.graph.entry)) \union EvidenceIds(w.graph.entry, 4))
      OneByOne(order) == FoldLeft(LAMBDA b, r : Update(g, b, r :> Reading(w, r)), g.prior, order)
  IN \A order \in {ids, Reverse(ids)} :
       OneByOne(order) = Update(g, g.prior, [r \in ToSet(ids) |-> Reading(w, r)])

(* Detailed after quick costs more than detailed at once and tells the same; a *)
(* repeated backend record is neither added nor counted.                       *)
ValidateQuickDetailed(d) ==
  LET e        == Reset(d, << 0, 0 >>)
      combined == Play(e, << Quick(N - 1), Detailed(N - 1) >>)
      direct   == Play(e, << Detailed(N - 1) >>)
      repeated == [r \in Covers(Quick(N - 1)) |-> Reading(e.world, r)]
  IN /\ combined.belief = direct.belief
     /\ CreditsSpent(combined) > CreditsSpent(direct)
     /\ Unseen(combined.ledger, repeated) = << >>
     /\ Update(GameOf(e), combined.belief, Unseen(combined.ledger, repeated)) = combined.belief

(* Records share the hidden workload: they are multiplied under each workload  *)
(* before it is summed out, which is not the product of the sums.  The check   *)
(* has a graph of its own.                                                     *)
ValidateSharedWorkload(d) ==
  LET g == GameTable[PublicGraph({<< s - 1, s >> : s \in 1 .. N-1}, [s \in Services |-> s])]
      records == [r \in {<< 0, "metrics", 0 >>, << 0, "logs", 0 >>} |-> TRUE]
      belief  == Update(g, g.prior, records)
      Under(s, busy) == Likelihood(g, [cause |-> s, busy |-> busy], records)
      Single(s, r)   == MapThenSumSet(LAMBDA busy : g.chance[[cause |-> s, busy |-> busy]][r], BOOLEAN)
      Independent(s) == FoldSet(LAMBDA r, acc : acc * Single(s, r), 1, DOMAIN records)
  IN /\ \A s \in Services : Mass(belief, s) = Under(s, TRUE) + Under(s, FALSE)
     /\ \E s, t \in Services : Mass(belief, s) * Independent(t) # Mass(belief, t) * Independent(s)

Known(f, cause) ==
  CHOOSE e \in {FixtureReset(f, w) : w \in {w \in FixtureWorlds(f) : w.hyp.cause = cause}} : TRUE

Choice(f, lookahead) == OptimalAction(f, Known(f, 0), lookahead)

(* The controlled decision fixtures and the choices they must give.            *)
ValidateDecisionFixtures(d) ==
  LET known   == FixtureStep(KnownAnswer, Known(KnownAnswer, 1), STOP)
      perfect == FixtureStep(OnePerfectProbe, Known(OnePerfectProbe, 1), Choice(OnePerfectProbe, 1))
      second  == OptimalAction(OnePerfectProbe, perfect, 1)
      dup     == FixtureStep(DuplicateEvidence, Known(DuplicateEvidence, 0), Quick(0))
      again   == RecordsFor(dup.world, DuplicateEvidence.probes[Detailed(0)].ids)
      last    == WithBudget(LastCreditEvidence, 1)
      done    == FixtureStep(last, Known(last, 1), Quick(0))
      none    == WithBudget(NoAffordableProbe, 1)
  IN /\ Choice(KnownAnswer, 1) = STOP /\ known.return = 20
     /\ Choice(OnePerfectProbe, 1) = Quick(0) /\ second = STOP
     /\ FixtureStep(OnePerfectProbe, perfect, second).return = 19
     /\ Choice(UselessEvidence, 1) = STOP
     /\ Unseen(dup.ledger, again) = << >>
     /\ Update(DuplicateEvidence, dup.belief, Unseen(dup.ledger, again)) = dup.belief
     /\ Choice(Cheaper(ExpensiveDiscriminator(4), 10), 1) = Quick(0)
     /\ Choice(Cheaper(ExpensiveDiscriminator(5), 10), 1) = STOP
     /\ Choice(ScopeChoice(Even), 1) = Detailed(0)
     /\ Choice(WithBudget(ScopeChoice(Even), 1), 1) = Quick(0)
     /\ Choice(ScopeChoice(<< 19, 1 >>), 1) = STOP
     /\ Terminated(done) /\ done.return = 19 /\ Predicted(last, done.belief) = done.world.cause
     /\ ProbeMask(none, Known(none, 0)) = {}
     /\ Choice(Complementarity, 1) = STOP /\ Choice(Complementarity, 2) = Quick(0)

(* A padded action is refused, the last credit buys only what it covers, and   *)
(* spending it ends the episode.                                               *)
ValidateMaskEdges(d) ==
  LET e == [Reset(d, << 0, 0 >>) EXCEPT !.credits = 1]
  IN /\ Refused(AllTools, e, Quick(N))
     /\ ~ Refused(AllTools, e, Quick(0)) /\ Refused(AllTools, e, ProbeAction(0, 3))
     /\ ~ Refused(AllTools, e, STOP)
     /\ Terminated(Play(e, << Quick(0) >>)) /\ Play(e, << Quick(0) >>).credits = 0

(* Two incidents that differ only in the hidden cause look the same at every   *)
(* step; only the score tells them apart.                                      *)
ValidateLabelIsolation(d) ==
  LET source  == Reset(d, << 0, 0 >>)
      actions == << Quick(0), Quick(1) >>
      guess   == Predicted(GameOf(source), Play(source, actions).belief)
      Labelled(s) == [source EXCEPT !.world.cause = s]
      right   == Labelled(guess)
      wrong   == Labelled((guess + 1) % N)
      Seen(e, k)   == Observation(AllTools, Play(e, SubSeq(actions, 1, k)))
      Earned(e, k) == Play(e, SubSeq(actions, 1, k)).return
      Stopped(e)   == Play(e, Append(actions, STOP))
  IN /\ \A k \in 0 .. Len(actions) :
          Seen(right, k) = Seen(wrong, k) /\ Earned(right, k) = Earned(wrong, k)
     /\ Observation(AllTools, Stopped(right)) = Observation(AllTools, Stopped(wrong))
     /\ Stopped(right).return - Earned(right, 2) = UTILITY
     /\ Stopped(wrong).return - Earned(wrong, 2) = 0

CHECKS == 6
Checks(d) ==
  << ValidatePosteriorInvariants(d), ValidateQuickDetailed(d), ValidateSharedWorkload(d),
     ValidateDecisionFixtures(d), ValidateMaskEdges(d), ValidateLabelIsolation(d) >>

(* What the random walks count as violations of one transition e -a-> after.   *)
Violations(e, a, after) ==
  {v \in {"mask", "budget", "padded", "no_stop", "payout"} :
     CASE v = "mask"    -> Refused(AllTools, e, a)
       [] v = "budget"  -> after.credits < 0
       [] v = "padded"  -> \E b \in Mask(AllTools, e) : b # STOP /\ DecodeProbe(b)[1] \notin Services
       [] v = "no_stop" -> STOP \notin Mask(AllTools, e)
       [] v = "payout"  -> Terminated(after) /\ ~ Refused(AllTools, after, STOP)}
===============================================================================
