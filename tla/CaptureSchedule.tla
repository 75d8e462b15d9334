---------------------------- MODULE CaptureSchedule ----------------------------
(***************************************************************************)
(* The resumable collection of the raw cohort: capture_raw_v3 of           *)
(* rca_investigation/raw_schedule_v3.py walks the declared slots in order, *)
(* captures one incident for each slot that the state file does not hold   *)
(* yet, publishes its bundle with capture_store.write_raw, and records the *)
(* slot; raw_dataset_v3.split_raw_v3 seals the complete cohort.            *)
(*                                                                         *)
(* A collector may fail or die at any step and is started again, and       *)
(* nothing keeps a second one from running beside it: capture.lock is held *)
(* for one slot at a time, from its baseline until it is recorded.  The    *)
(* state file and every file of a bundle are written atomically.  The      *)
(* lease and the recovery journal are those of LabOwnership and            *)
(* FaultTransaction, seen as one owner each.                               *)
(***************************************************************************)
EXTENDS Naturals, Sequences, FiniteSets, Functions

CONSTANTS
  Collectors,   \* processes of "capture-raw"
  Slots,        \* the declared slots, in order
  MaxIncidents, \* bound on the incidents (fresh UUIDs) ever made
  MaxMishaps,   \* bound on failures and deaths
  Dead,         \* a collector that died and left its lock
  NoOne         \* no collector, no incident

ASSUME ScheduleAssumption ==
  /\ Slots \in Seq(STRING) /\ IsInjective(Slots) /\ Slots # <<>>
  /\ MaxIncidents \in Nat /\ MaxMishaps \in Nat
  /\ {NoOne, Dead} \cap Collectors = {} /\ NoOne # Dead /\ {NoOne, Dead} \cap Nat = {}

VARIABLES
  saved,    \* audit/schedule.json: [accepted, complete]
  mem,      \* mem[p]: the state as collector p has it
  pc, at,   \* at[p]: the slot p is at
  inc,      \* inc[p]: the incident p captures, or NoOne
  sound,    \* sound[p]: has p's attempt raised nothing yet?
  bundle,   \* bundle[i]: "none", "staged" or "published"
  slotOf,   \* slotOf[i]: the slot incident i was captured for
  made,     \* incidents made so far are 1..made
  lease,    \* holder of shared/capture.lock: a collector, Dead, or NoOne
  journal,  \* incident in shared/blocked-lab.json, or NoOne
  fault,    \* incident whose fault the lab carries, or NoOne
  paused,   \* does audit/pause-requested.json exist?
  sealed,   \* raw_dataset/splits.json: the incidents sealed, {} before
  mishaps,
  beside    \* history: collectors that ran beside another since they loaded the state

lab  == <<lease, journal, fault>>
raw  == <<bundle, slotOf, made>>
self == <<mem, at, inc, sound>>
vars == <<saved, pc, self, raw, lab, paused, sealed, mishaps, beside>>

Incidents == 1..MaxIncidents
SlotSet   == Range(Slots)
Accepted  == UNION {[S -> Incidents] : S \in SUBSET SlotSet}
State     == [accepted : Accepted, complete : BOOLEAN]
NewState  == [accepted |-> <<>>, complete |-> FALSE]

PCs == {"off", "load", "slots", "lease", "attempt", "recover", "verify", "stage", "publish", "accept"}

Init ==
  /\ saved = NewState /\ mem = [p \in Collectors |-> NewState]
  /\ pc = [p \in Collectors |-> "off"] /\ at = [p \in Collectors |-> 1]
  /\ inc = [p \in Collectors |-> NoOne] /\ sound = [p \in Collectors |-> TRUE]
  /\ bundle = [i \in Incidents |-> "none"] /\ slotOf = [i \in Incidents |-> Slots[1]]
  /\ made = 0
  /\ lease = NoOne /\ journal = NoOne /\ fault = NoOne
  /\ paused = FALSE /\ sealed = {} /\ mishaps = 0 /\ beside = {}

Goto(p, label) == pc' = [pc EXCEPT ![p] = label]

Running(p) == pc[p] # "off"

\* capture_lease gives the lock back on every way out of its block.
GiveBack(p) == lease' = IF lease = p THEN NoOne ELSE lease

\* An exception or a death ends the collector; every one is a mishap.
End(p) ==
  /\ mishaps < MaxMishaps
  /\ mishaps' = mishaps + 1
  /\ Goto(p, "off")

-----------------------------------------------------------------------------
(* Start and the walk over the slots.                                      *)

\* Read the state file, or begin without one ...
Begin(p, state) ==
  /\ pc[p] = "off"
  /\ mem' = [mem EXCEPT ![p] = state] /\ at' = [at EXCEPT ![p] = 1]
  /\ LET others == {q \in Collectors \ {p} : Running(q)}
     IN  beside' = IF others = {} THEN beside \ {p} ELSE beside \cup others \cup {p}
  /\ Goto(p, "load")
  /\ UNCHANGED <<saved, inc, sound, raw, lab, paused, sealed, mishaps>>

LoadNothing(p) == Begin(p, NewState)
Load(p) == Begin(p, saved)

\* ... and write it back.
Rewrite(p) ==
  /\ pc[p] = "load"
  /\ saved' = mem[p]
  /\ Goto(p, "slots")
  /\ UNCHANGED <<self, raw, lab, paused, sealed, mishaps, beside>>

Here(p) == Slots[at[p]]
MoreSlots(p) == at[p] <= Len(Slots)
OnRecord(p) == Here(p) \in DOMAIN mem[p].accepted
AtNewSlot(p) == pc[p] = "slots" /\ MoreSlots(p) /\ ~OnRecord(p) /\ ~paused

\* An accepted slot is verified and passed over.
Skip(p) ==
  /\ pc[p] = "slots" /\ MoreSlots(p) /\ OnRecord(p)
  /\ LET i == mem[p].accepted[Here(p)] IN bundle[i] = "published" /\ slotOf[i] = Here(p)
  /\ at' = [at EXCEPT ![p] = @ + 1]
  /\ UNCHANGED <<saved, pc, mem, inc, sound, raw, lab, paused, sealed, mishaps, beside>>

\* The walk ends after the last slot, or at a slot to capture when a pause is
\* requested.
Finish(p) ==
  /\ pc[p] = "slots"
  /\ MoreSlots(p) => paused /\ ~OnRecord(p)
  /\ saved' = [mem[p] EXCEPT !.complete = Cardinality(DOMAIN mem[p].accepted) = Len(Slots)]
  /\ Goto(p, "off")
  /\ UNCHANGED <<self, raw, lab, paused, sealed, mishaps, beside>>

\* capture_lease looks for a journal ...
Gate(p) ==
  /\ AtNewSlot(p) /\ journal = NoOne
  /\ Goto(p, "lease")
  /\ UNCHANGED <<saved, self, raw, lab, paused, sealed, mishaps, beside>>

\* ... and makes its lock: a new incident, under the lease.
Capture(p) ==
  /\ pc[p] = "lease" /\ lease = NoOne
  /\ made < MaxIncidents
  /\ made' = made + 1
  /\ inc' = [inc EXCEPT ![p] = made + 1]
  /\ slotOf' = [slotOf EXCEPT ![made + 1] = Here(p)]
  /\ sound' = [sound EXCEPT ![p] = TRUE]
  /\ lease' = p
  /\ Goto(p, "attempt")
  /\ UNCHANGED <<saved, mem, at, bundle, journal, fault, paused, sealed, mishaps, beside>>

\* It raises over either.
LeaseRefused(p) ==
  /\ \/ AtNewSlot(p) /\ journal # NoOne
     \/ pc[p] = "lease" /\ lease # NoOne
  /\ Goto(p, "off")
  /\ UNCHANGED <<saved, self, raw, lab, paused, sealed, mishaps, beside>>

\* Too little disk, a slot that fails verification, a container that changed.
WalkFailed(p) ==
  /\ pc[p] = "slots" /\ End(p)
  /\ UNCHANGED <<saved, self, raw, lab, paused, sealed, beside>>

-----------------------------------------------------------------------------
(* One attempt, under the lease.                                           *)

\* Baseline, injection, observation and verification of the effect.
AttemptPassed(p) ==
  /\ pc[p] = "attempt" /\ journal = NoOne
  /\ \/ journal' = inc[p] /\ fault' = inc[p]
     \/ UNCHANGED <<journal, fault>>        \* a healthy slot
  /\ Goto(p, "recover")
  /\ UNCHANGED <<saved, self, raw, lease, paused, sealed, mishaps, beside>>

\* A journal appeared after the lease looked for one: inject() raises, and so
\* does the save() of recover(), whose owner it is not.
InjectRefused(p) ==
  /\ pc[p] = "attempt" /\ journal # NoOne
  /\ sound' = [sound EXCEPT ![p] = FALSE]
  /\ GiveBack(p) /\ Goto(p, "off")
  /\ UNCHANGED <<saved, mem, at, inc, raw, journal, fault, paused, sealed, mishaps, beside>>

\* They raise before, during or after the injection; the finally block runs.
AttemptFailed(p) ==
  /\ pc[p] = "attempt" /\ mishaps < MaxMishaps
  /\ mishaps' = mishaps + 1
  /\ sound' = [sound EXCEPT ![p] = FALSE]
  /\ \/ journal = NoOne /\ journal' = inc[p] /\ fault' \in {fault, inc[p]}
     \/ UNCHANGED <<journal, fault>>
  /\ Goto(p, "recover")
  /\ UNCHANGED <<saved, mem, at, inc, raw, lease, paused, sealed, beside>>

\* The transaction is recovered; after a failed baseline there is none.
Recovered(p) ==
  /\ pc[p] = "recover"
  /\ \/ journal \in {NoOne, inc[p]} /\ journal' = inc[p] /\ fault' = NoOne
     \/ ~sound[p] /\ journal # inc[p] /\ UNCHANGED <<journal, fault>>
  /\ Goto(p, "verify")
  /\ UNCHANGED <<saved, self, raw, lease, paused, sealed, mishaps, beside>>

\* confirm_recovery lifts the block.  The exception of a failed attempt goes on
\* out of the lease; otherwise the bundle is published under it.
Verified(p) ==
  /\ pc[p] = "verify"
  /\ journal' = IF journal = inc[p] THEN NoOne ELSE journal
  /\ \/ sound[p] /\ Goto(p, "stage") /\ UNCHANGED lease
     \/ ~sound[p] /\ Goto(p, "off") /\ GiveBack(p)
  /\ UNCHANGED <<saved, self, raw, fault, paused, sealed, mishaps, beside>>

\* RECOVERY_FAILED: the block stays, the lease does not.
RecoveryFailed(p) ==
  /\ pc[p] \in {"recover", "verify"} /\ End(p) /\ GiveBack(p)
  /\ fault' \in {fault, NoOne}
  /\ journal' = IF journal = NoOne THEN inc[p] ELSE journal
  /\ UNCHANGED <<saved, self, raw, paused, sealed, beside>>

-----------------------------------------------------------------------------
(* Publication and the record, still under the lease.                      *)

Extended(p) ==
  [s \in DOMAIN mem[p].accepted \cup {Here(p)} |->
     IF s = Here(p) THEN inc[p] ELSE mem[p].accepted[s]]

StageAndAccept(p) ==
  /\ pc[p] = "stage" /\ bundle[inc[p]] = "none"
  /\ bundle' = [bundle EXCEPT ![inc[p]] = "staged"]
  /\ saved' = [mem[p] EXCEPT !.accepted = Extended(p)]
  /\ Goto(p, "publish")
  /\ UNCHANGED <<self, slotOf, made, lab, paused, sealed, mishaps, beside>>

\* Four files and their checksums under <incident>.pending.
Stage(p) ==
  /\ pc[p] = "stage" /\ bundle[inc[p]] = "none"
  /\ bundle' = [bundle EXCEPT ![inc[p]] = "staged"]
  /\ Goto(p, "publish")
  /\ UNCHANGED <<saved, self, slotOf, made, lab, paused, sealed, mishaps, beside>>

\* The directory is renamed whole.
Publish(p) ==
  /\ pc[p] = "publish"
  /\ bundle' = [bundle EXCEPT ![inc[p]] = "published"]
  /\ Goto(p, "accept")
  /\ UNCHANGED <<saved, self, slotOf, made, lab, paused, sealed, mishaps, beside>>

\* Validation fails, or eleven attempts to rename do, or the record cannot be
\* written.
PublicationFailed(p) ==
  /\ pc[p] \in {"stage", "publish", "accept"} /\ End(p) /\ GiveBack(p)
  /\ UNCHANGED <<saved, self, raw, journal, fault, paused, sealed, beside>>

\* The slot is recorded, and the block of the lease left.
Accept(p) ==
  /\ pc[p] = "accept"
  /\ LET state == [mem[p] EXCEPT !.accepted = Extended(p)]
     IN  mem' = [mem EXCEPT ![p] = state] /\ saved' = state
  /\ at' = [at EXCEPT ![p] = @ + 1]
  /\ GiveBack(p) /\ Goto(p, "slots")
  /\ UNCHANGED <<inc, sound, raw, journal, fault, paused, sealed, mishaps, beside>>

-----------------------------------------------------------------------------
(* Death, the operator, and sealing.                                       *)

Die(p) ==
  /\ Running(p) /\ End(p)
  /\ lease' = IF lease = p THEN Dead ELSE lease
  /\ UNCHANGED <<saved, self, raw, journal, fault, paused, sealed, beside>>

RestoreBlocked ==
  /\ journal # NoOne
  /\ lease \in {NoOne, Dead}
  /\ journal' = NoOne /\ fault' = NoOne /\ lease' = NoOne
  /\ UNCHANGED <<saved, pc, self, raw, paused, sealed, mishaps, beside>>

\* The operator's recovery command: it removes the lock of a dead collector and
\* lifts the block after recovery.
Restore ==
  /\ journal # NoOne \/ lease # NoOne
  /\ lease \in {NoOne, Dead}
  /\ journal' = NoOne /\ fault' = NoOne /\ lease' = NoOne
  /\ UNCHANGED <<saved, pc, self, raw, paused, sealed, mishaps, beside>>

Pause ==
  /\ ~paused /\ mishaps < MaxMishaps
  /\ paused' = TRUE /\ mishaps' = mishaps + 1
  /\ UNCHANGED <<saved, pc, self, raw, lab, sealed, beside>>

Unpause ==
  /\ paused /\ paused' = FALSE
  /\ UNCHANGED <<saved, pc, self, raw, lab, sealed, mishaps, beside>>

\* split_raw_v3: the state must be complete, every bundle unchanged and in its
\* own slot, no incident repeated.
Seal ==
  /\ sealed = {} /\ saved.complete
  /\ Cardinality(DOMAIN saved.accepted) = Len(Slots)
  /\ \A s \in DOMAIN saved.accepted :
       bundle[saved.accepted[s]] = "published" /\ slotOf[saved.accepted[s]] = s
  /\ IsInjective(saved.accepted)
  /\ sealed' = Range(saved.accepted)
  /\ UNCHANGED <<saved, pc, self, raw, lab, paused, mishaps, beside>>

Work(p) ==
  \/ Rewrite(p) \/ Skip(p) \/ Finish(p) \/ Gate(p) \/ Capture(p) \/ LeaseRefused(p)
  \/ AttemptPassed(p) \/ InjectRefused(p) \/ Recovered(p) \/ Verified(p)
  \/ Stage(p) \/ Publish(p) \/ Accept(p)

Mishap(p) ==
  WalkFailed(p) \/ AttemptFailed(p) \/ RecoveryFailed(p) \/ PublicationFailed(p) \/ Die(p)

\* The cohort is sealed, or the bound on incidents is reached.
Done == (sealed # {} \/ made = MaxIncidents) /\ UNCHANGED vars

Next ==
  \/ \E p \in Collectors : Load(p) \/ Work(p) \/ Mishap(p)
  \/ Restore \/ Pause \/ Unpause \/ Seal \/ Done

Spec == Init /\ [][Next]_vars

\* The operator starts collectors again, re-runs recovery and lifts pauses;
\* running collectors run.
Fairness ==
  /\ \A p \in Collectors : WF_vars(Load(p)) /\ WF_vars(Work(p))
  /\ WF_vars(Restore) /\ WF_vars(Unpause) /\ WF_vars(Seal)

FairSpec == Spec /\ Fairness

-----------------------------------------------------------------------------
(* Properties.                                                             *)

TypeOK ==
  /\ saved \in State /\ mem \in [Collectors -> State]
  /\ pc \in [Collectors -> PCs] /\ at \in [Collectors -> 1..(Len(Slots) + 1)]
  /\ inc \in [Collectors -> Incidents \cup {NoOne}] /\ sound \in [Collectors -> BOOLEAN]
  /\ bundle \in [Incidents -> {"none", "staged", "published"}]
  /\ slotOf \in [Incidents -> SlotSet] /\ made \in 0..MaxIncidents
  /\ lease \in Collectors \cup {Dead, NoOne}
  /\ journal \in Incidents \cup {NoOne} /\ fault \in Incidents \cup {NoOne}
  /\ paused \in BOOLEAN /\ mishaps \in 0..MaxMishaps
  /\ sealed \subseteq Incidents /\ beside \subseteq Collectors

\* Wherever a collector dies, a slot on record has its own complete bundle on
\* disk, and no incident stands for two slots.
AcceptedIsPublished ==
  /\ \A s \in DOMAIN saved.accepted :
       bundle[saved.accepted[s]] = "published" /\ slotOf[saved.accepted[s]] = s
  /\ IsInjective(saved.accepted)

\* Measurements become part of the dataset only after their attempt passed and
\* its recovery was verified: a bundle's incident has left neither fault nor
\* block behind, and no failed attempt has a bundle.
OnlyRecoveredIsKept ==
  /\ \A i \in Incidents : bundle[i] # "none" => fault # i /\ journal # i
  /\ \A p \in Collectors :
       inc[p] # NoOne /\ bundle[inc[p]] # "none" => sound[p]

\* The cohort is called complete, and sealed, only with every slot in it; a
\* bundle that a dead collector left without a record is not sealed.
CompleteIsExact ==
  /\ saved.complete => DOMAIN saved.accepted = SlotSet
  /\ sealed # {} =>
       /\ Cardinality(sealed) = Len(Slots)
       /\ {slotOf[i] : i \in sealed} = SlotSet
       /\ \A i \in sealed : bundle[i] = "published"

\* The record of a cohort is worth what it says: the state file, the bundles on
\* disk and the lab agree wherever a collector stopped.
RecordIsSound == TypeOK /\ AcceptedIsPublished /\ OnlyRecoveredIsKept /\ CompleteIsExact

\* A slot on record keeps its incident.
Keeps ==
  \A s \in DOMAIN saved.accepted :
    s \in DOMAIN saved'.accepted /\ saved'.accepted[s] = saved.accepted[s]

\* "One owner, ... accepted-slot resume" (raw_schedule_v3.py:1): no failure,
\* death, pause or restart loses a slot on record, or gives it
\* another incident: only the write of a collector does that ran beside another
\* one after it had loaded the state.
LossNeedsTwo == [][Keeps \/ \E p \in beside : Running(p) /\ pc'[p] # pc[p]]_saved

\* Whatever failed or died, starting collectors again completes the cohort, as
\* long as none of them runs beside another.
CohortIsSealed == [](beside = {}) => <>(sealed # {})
=============================================================================
