---------------------------- MODULE ControllerProofs ----------------------------
(***************************************************************************)
(* Theorems about the live controller, for any set of requests and any     *)
(* number of deaths: a request comes to one incident at most and its       *)
(* receipt is true, components are repaired and cleaned up only when the   *)
(* incident's own traffic has stopped, and the controller with its         *)
(* recovery command implements LabGate.                                    *)
(*                                                                         *)
(* IInv is the inductive invariant.  What a receipt may claim depends on   *)
(* everything that happened since the request was taken from the           *)
(* directory, so IInv follows the request from its file to its receipt     *)
(* (BusInv, RunsInv, ExcInv), and the lab, the draft and the threads       *)
(* through each step of the incident (LabInv, DraftInv, TrafficInv).       *)
(***************************************************************************)
EXTENDS Controller, SequenceTheorems, TLAPS

-----------------------------------------------------------------------------
(* Facts about data.                                                        *)

\* The elements of a sequence but the one at k, by their places.
LEMMA RemoveAtPlaces ==
  ASSUME NEW S, NEW s \in Seq(S), NEW k \in DOMAIN s
  PROVE  /\ RemoveAt(s, k) \in Seq(S)
         /\ DOMAIN RemoveAt(s, k) = 1..(Len(s) - 1)
         /\ \A i \in 1..(Len(s) - 1) : RemoveAt(s, k)[i] = IF i < k THEN s[i] ELSE s[i + 1]
  <1> DEFINE a == SubSeq(s, 1, k - 1)
             b == SubSeq(s, k + 1, Len(s))
  <1>1. k \in 1..Len(s) /\ Len(s) \in Nat /\ DOMAIN s = 1..Len(s)
    OBVIOUS
  <1>2. a \in Seq(S) /\ Len(a) = k - 1 /\ \A i \in 1..(k - 1) : a[i] = s[i]
    BY <1>1, SubSeqProperties
  <1>3. b \in Seq(S) /\ Len(b) = Len(s) - k /\ \A i \in 1..(Len(s) - k) : b[i] = s[k + i]
    BY <1>1, SubSeqProperties
  <1>4. RemoveAt(s, k) = a \o b
    BY DEF RemoveAt
  <1> HIDE DEF a, b
  <1>5. /\ a \o b \in Seq(S) /\ Len(a \o b) = Len(s) - 1
        /\ \A i \in 1..(Len(s) - 1) : (a \o b)[i] = IF i <= k - 1 THEN a[i] ELSE b[i - (k - 1)]
    <2>1. k - 1 + (Len(s) - k) = Len(s) - 1
      BY <1>1
    <2>2. /\ a \o b \in Seq(S) /\ Len(a \o b) = Len(a) + Len(b)
          /\ \A i \in 1..(Len(a) + Len(b)) :
               (a \o b)[i] = IF i <= Len(a) THEN a[i] ELSE b[i - Len(a)]
      BY <1>2, <1>3, ConcatProperties
    <2> QED BY <2>1, <2>2, <1>2, <1>3
  <1>6. DOMAIN (a \o b) = 1..(Len(s) - 1)
    BY <1>5
  <1>7. ASSUME NEW i \in 1..(Len(s) - 1)
        PROVE  (a \o b)[i] = IF i < k THEN s[i] ELSE s[i + 1]
    <2>1. CASE i < k
      BY <2>1, <1>1, <1>2, <1>5
    <2>2. CASE ~(i < k)
      <3>1. ~(i <= k - 1)
        BY <2>2, <1>1
      <3>2. (a \o b)[i] = b[i - (k - 1)]
        BY <3>1, <1>5
      <3>3. i - (k - 1) \in 1..(Len(s) - k) /\ k + (i - (k - 1)) = i + 1
        BY <2>2, <1>1
      <3> QED BY <3>2, <3>3, <2>2, <1>3
    <2> QED BY <2>1, <2>2
  <1> QED BY <1>4, <1>5, <1>6, <1>7

-----------------------------------------------------------------------------

Files(s) == {s[i] : i \in DOMAIN s}
Once(s) == \A i, j \in DOMAIN s : s[i] = s[j] => i = j

\* The try block of _run, and its finally block before the receipt.
Trying == {"baseline", "enter", "inject", "strike", "observe", "quiesce", "decide", "repair"}
Ending == {"unwind", "cleanup", "verify", "confirm", "clear"}

\* A request has one file, the listing holds files that are still there, and the
\* request being served has no file any more.
BusInv ==
  /\ Once(queue) /\ Once(scan)
  /\ Files(scan) \subseteq Files(queue) /\ Files(queue) \subseteq sent
  /\ item = NoOne <=> pc \in {"off", "idle", "next"}
  /\ item # NoOne => item \in sent /\ item \notin Files(queue)

\* No incident was started for a request that has a file, and threads and
\* receipts come from incidents.
RunsInv ==
  /\ \A r \in Requests : runs[r] \in {0, 1}
  /\ \A r \in Requests : r \notin sent => runs[r] = 0
  /\ \A r \in Files(queue) : runs[r] = 0
  /\ pc = "admit" => runs[item] = 0
  /\ pc \in Incident => runs[item] = 1
  /\ \A r \in LiveTraffic : runs[r] = 1
  /\ \A r \in Requests : runs[r] = 0 => receipt[r] = NoReceipt

ExcInv ==
  /\ pc \in {"off", "idle", "next", "admit"} \cup Trying => exc = "none"
  /\ pc = "report" => exc # "none"

\* While an incident runs there is no recovery command, the journal is its own,
\* and its receipt still says STARTED.
IncidentInv ==
  pc \in Incident =>
    /\ rec = "off" /\ journal \in {NoOne, item}
    /\ receipt[item].status = "STARTED" /\ item \notin orphans

\* A fault is always the journal's.  Where the lab must be clean: after a
\* recovery that healed, and on the way to a receipt other than RECOVERY_FAILED.
LabInv ==
  /\ fault # NoOne => fault = journal
  /\ rec = "healed" => fault = NoOne
  /\ pc \in {"baseline", "enter", "inject"} => ~tx
  /\ pc \in Trying \ {"baseline", "enter", "inject"} => tx
  /\ pc \in {"cleanup", "confirm"} => tx
  /\ pc \in Incident \ {"publish"} /\ ~tx => journal = NoOne
  /\ pc = "strike" => journal = item
  /\ pc = "verify" /\ tx => journal = item /\ fault = NoOne
  /\ pc = "confirm" => journal = item /\ fault = NoOne
  /\ pc = "clear" => journal = NoOne /\ fault = NoOne
  /\ pc = "publish" /\ draft.status # "RECOVERY_FAILED" => journal = NoOne /\ fault = NoOne

\* The receipt in memory: COMPLETE or FAILED once the try block is over, and
\* "repaired" only when it is COMPLETE.
DraftInv ==
  /\ pc \in Trying => draft = Fresh
  /\ pc \in Ending => draft.status \in {"COMPLETE", "FAILED"} /\ ~draft.resolved
  /\ pc \in Ending /\ draft.repaired => draft.status = "COMPLETE"
  /\ pc = "publish" /\ draft.resolved => draft.status = "COMPLETE"

\* Threads run on only when a join timed out, and then either the attempt has
\* failed before any transaction, or the stack is closed and the check of the
\* finally block finds them.
TrafficInv ==
  /\ pc \in {"baseline", "enter"} => stack = "empty" /\ item \notin traffic
  /\ pc \in Trying /\ stack = "empty" => item \notin traffic
  /\ pc \in {"decide", "repair"} => item \notin traffic /\ stack # "open"
  /\ pc \in {"inject", "strike", "observe", "quiesce"} => stack # "closed"
  /\ pc = "unwind" /\ stack = "empty" /\ item \in traffic => ~tx /\ draft.status = "FAILED"
  /\ pc \in Ending \ {"unwind"} => stack # "open"
  /\ pc = "cleanup" => item \notin traffic
  /\ pc \in Ending \cup {"publish"} /\ draft.status = "COMPLETE" => item \notin traffic

IInv == /\ TypeOK /\ BusInv /\ RunsInv /\ ExcInv /\ IncidentInv /\ LabInv
        /\ DraftInv /\ TrafficInv /\ HonestReceipt

\* A receipt that is no longer STARTED is never written again, though the server
\* dies and finds its directory as it left it.
ReceiptsAreFinal ==
  [][\A r \in Requests :
       receipt[r].status \in {"COMPLETE", "FAILED", "RECOVERY_FAILED"} =>
         receipt'[r] = receipt[r]]_vars

-----------------------------------------------------------------------------
(* Directories as sequences.                                               *)

\* Removing a place of a sequence without repetition removes its element, and
\* nothing else.
LEMMA RemoveAtOnce ==
  ASSUME NEW S, NEW s \in Seq(S), NEW k \in DOMAIN s, Once(s)
  PROVE  /\ RemoveAt(s, k) \in Seq(S)
         /\ Files(RemoveAt(s, k)) = Files(s) \ {s[k]}
         /\ Once(RemoveAt(s, k))
  <1> DEFINE t == RemoveAt(s, k)
             at(i) == IF i < k THEN i ELSE i + 1
  <1>1. k \in 1..Len(s) /\ Len(s) \in Nat /\ DOMAIN s = 1..Len(s)
    OBVIOUS
  <1>2. /\ t \in Seq(S) /\ DOMAIN t = 1..(Len(s) - 1)
        /\ \A i \in DOMAIN t : at(i) \in DOMAIN s /\ at(i) # k /\ t[i] = s[at(i)]
    BY <1>1, RemoveAtPlaces
  <1> HIDE DEF t
  <1>3. Files(t) \subseteq Files(s) \ {s[k]}
    BY <1>2 DEF Files, Once
  <1>4. Files(s) \ {s[k]} \subseteq Files(t)
    <2> SUFFICES ASSUME NEW j \in DOMAIN s, j # k
                 PROVE  \E i \in DOMAIN t : t[i] = s[j]
      BY DEF Files
    <2>1. CASE j < k
      BY <2>1, <1>1, <1>2
    <2>2. CASE ~(j < k)
      <3>1. j - 1 \in DOMAIN t /\ at(j - 1) = j
        BY <2>2, <1>1, <1>2
      <3> QED BY <3>1, <1>2
    <2> QED BY <2>1, <2>2
  <1>5. ASSUME NEW i \in DOMAIN t, NEW j \in DOMAIN t, t[i] = t[j]
        PROVE  i = j
    <2>1. at(i) = at(j)
      BY <1>2, <1>5 DEF Once
    <2> QED BY <2>1, <1>1, <1>2
  <1>6. Once(t)
    BY <1>5 DEF Once
  <1> QED BY <1>2, <1>3, <1>4, <1>6 DEF t

\* Taking the first element of a sequence without repetition.
LEMMA TailOnce ==
  ASSUME NEW S, NEW s \in Seq(S), s # <<>>, Once(s)
  PROVE  /\ Head(s) \in S /\ Head(s) \in Files(s)
         /\ Tail(s) \in Seq(S)
         /\ Files(Tail(s)) = Files(s) \ {Head(s)}
         /\ Once(Tail(s))
  <1>1. /\ Len(s) \in Nat /\ Len(s) > 0 /\ DOMAIN s = 1..Len(s)
        /\ Head(s) = s[1] /\ Head(s) \in S
    BY EmptySeq
  <1>2. /\ Tail(s) \in Seq(S) /\ DOMAIN Tail(s) = 1..(Len(s) - 1)
        /\ \A i \in 1..(Len(s) - 1) : Tail(s)[i] = s[i + 1]
    BY <1>1, HeadTailProperties
  <1>3. Files(Tail(s)) \subseteq Files(s) \ {s[1]}
    BY <1>1, <1>2 DEF Files, Once
  <1>4. Files(s) \ {s[1]} \subseteq Files(Tail(s))
    <2> SUFFICES ASSUME NEW j \in DOMAIN s, j # 1
                 PROVE  \E i \in DOMAIN Tail(s) : Tail(s)[i] = s[j]
      BY DEF Files
    <2>1. j - 1 \in DOMAIN Tail(s) /\ (j - 1) + 1 = j
      BY <1>1, <1>2
    <2> QED BY <2>1, <1>2
  <1>5. Once(Tail(s))
    BY <1>1, <1>2 DEF Once
  <1> QED BY <1>1, <1>2, <1>3, <1>4, <1>5 DEF Files

\* A new file is the youngest.
LEMMA AppendOnce ==
  ASSUME NEW S, NEW s \in Seq(S), NEW e \in S, Once(s), e \notin Files(s)
  PROVE  /\ Append(s, e) \in Seq(S)
         /\ Files(Append(s, e)) = Files(s) \cup {e}
         /\ Once(Append(s, e))
  <1> DEFINE t == Append(s, e)
  <1>1. Len(s) \in Nat /\ DOMAIN s = 1..Len(s)
    OBVIOUS
  <1>2. /\ t \in Seq(S) /\ DOMAIN t = 1..(Len(s) + 1)
        /\ \A i \in 1..Len(s) : t[i] = s[i]
        /\ t[Len(s) + 1] = e
    BY AppendProperties
  <1> HIDE DEF t
  <1>3. Files(t) = Files(s) \cup {e}
    <2>1. DOMAIN t = DOMAIN s \cup {Len(s) + 1}
      BY <1>1, <1>2
    <2> QED BY <2>1, <1>1, <1>2 DEF Files
  <1>4. Once(t)
    BY <1>1, <1>2 DEF Files, Once
  <1> QED BY <1>2, <1>3, <1>4 DEF t
\* An empty listing.
LEMMA EmptyOnce ==
  ASSUME NEW S
  PROVE  <<>> \in Seq(S) /\ Files(<<>>) = {} /\ Once(<<>>)
  <1>1. <<>> \in Seq(S) /\ DOMAIN <<>> = {}
    OBVIOUS
  <1> QED BY <1>1 DEF Files, Once

\* Taking the first file of the listing removes it from the directory.
LEMMA UnlinkFiles ==
  ASSUME TypeOK, BusInv, scan # <<>>, Unlink
  PROVE  /\ queue' \in Seq(Requests) /\ Once(queue')
         /\ Files(queue') = Files(queue) \ {Head(scan)}
         /\ sent' = sent
  <1>1. PICK k \in DOMAIN queue : queue[k] = Head(scan) /\ queue' = RemoveAt(queue, k)
    BY DEF Unlink
  <1>2. queue \in Seq(Requests) /\ Once(queue)
    BY DEF TypeOK, BusInv
  <1>3. /\ RemoveAt(queue, k) \in Seq(Requests) /\ Once(RemoveAt(queue, k))
        /\ Files(RemoveAt(queue, k)) = Files(queue) \ {queue[k]}
    BY <1>2, RemoveAtOnce
  <1> QED BY <1>1, <1>3 DEF Unlink

-----------------------------------------------------------------------------
(* Each part of IInv is preserved, action by action.                       *)

\* Types.
LEMMA TypeStep ==
  ASSUME IInv, [Next]_vars
  PROVE  TypeOK'
  <1> USE ControllerAssumption
      DEF IInv, bus, lab, threads, record, vars, TypeOK, Incident, PCs, LiveTraffic,
          Fresh, Receipt, Trying, Ending, Status, NoReceipt, BusInv
  <1>1. ASSUME NEW r \in Requests, Submit(r) PROVE TypeOK'
    BY <1>1, AppendOnce DEF Submit
  <1>2. ASSUME NEW r \in Requests, ThreadEnds(r) PROVE TypeOK'
    BY <1>2 DEF ThreadEnds
  <1>3. CASE Start
    BY <1>3 DEF Start
  <1>4. CASE List
    BY <1>4 DEF List
  <1>5. CASE Drained
    BY <1>5 DEF Drained
  <1>6. CASE Reject
    BY <1>6, EmptyOnce DEF Reject, LeaveServe
  <1>7. CASE TakeStop
    BY <1>7, UnlinkFiles, EmptyOnce DEF TakeStop, LeaveServe
  <1>8. CASE TakePolicy
    BY <1>8, UnlinkFiles, TailOnce DEF TakePolicy
  <1>9. CASE TakeRun
    <2>1. Head(scan) \in Requests /\ Tail(scan) \in Seq(Requests)
      BY <1>9, TailOnce DEF TakeRun
    <2>2. queue' \in Seq(Requests) /\ sent' = sent
      BY <1>9, UnlinkFiles DEF TakeRun
    <2> QED BY <1>9, <2>1, <2>2 DEF TakeRun
  <1>10. CASE AdmitRefused
    BY <1>10 DEF AdmitRefused
  <1>11. CASE Admitted
    <2>1. item \in Requests /\ Fresh \in Receipt
      BY <1>11 DEF Admitted
    <2>2. receipt' \in [Requests -> Receipt \cup {NoReceipt}]
      BY <1>11, <2>1 DEF Admitted
    <2>3. runs' \in [Requests -> Nat]
      BY <1>11, <2>1 DEF Admitted
    <2> QED BY <1>11, <2>1, <2>2, <2>3 DEF Admitted
  <1>12. CASE BaselinePassed
    BY <1>12 DEF BaselinePassed
  <1>13. CASE BaselineFailed
    BY <1>13 DEF BaselineFailed, Raise
  <1>14. CASE EnterCollector
    BY <1>14 DEF EnterCollector
  <1>15. CASE EnterFailed
    BY <1>15 DEF EnterFailed, Raise
  <1>16. CASE InjectRefused
    BY <1>16 DEF InjectRefused, Raise
  <1>17. CASE InjectNothing
    BY <1>17 DEF InjectNothing
  <1>18. CASE InjectIntent
    BY <1>18 DEF InjectIntent
  <1>19. CASE Strike
    BY <1>19 DEF Strike
  <1>20. CASE StrikeFailed
    BY <1>20 DEF StrikeFailed, Raise
  <1>21. CASE Observed
    BY <1>21 DEF Observed
  <1>22. CASE ObserveFailed
    BY <1>22 DEF ObserveFailed, Raise
  <1>23. CASE Quiesce
    BY <1>23 DEF Quiesce, Joined
  <1>24. CASE QuiesceFailed
    BY <1>24 DEF QuiesceFailed, Raise
  <1>25. CASE DecideRepair
    BY <1>25 DEF DecideRepair
  <1>26. CASE DecideNoRepair
    BY <1>26 DEF DecideNoRepair
  <1>27. CASE Repair
    BY <1>27 DEF Repair
  <1>28. CASE RepairFailed
    BY <1>28 DEF RepairFailed, Raise
  <1>29. CASE Unwind
    BY <1>29 DEF Unwind, Joined
  <1>30. CASE UnwindFailed
    BY <1>30 DEF UnwindFailed, RecoveryRaises
  <1>31. CASE Cleanup
    BY <1>31 DEF Cleanup
  <1>32. CASE CleanupFailed
    BY <1>32 DEF CleanupFailed
  <1>33. CASE Verified
    BY <1>33 DEF Verified
  <1>34. CASE VerifyFailed
    BY <1>34 DEF VerifyFailed, RecoveryRaises
  <1>35. CASE Confirm
    BY <1>35 DEF Confirm
  <1>36. CASE ConfirmFailed
    BY <1>36 DEF ConfirmFailed, RecoveryRaises
  <1>37. CASE Clear
    BY <1>37 DEF Clear
  <1>38. CASE ClearFailed
    BY <1>38 DEF ClearFailed, RecoveryRaises
  <1>39. CASE Publish
    BY <1>39 DEF Publish
  <1>40. CASE Carry
    BY <1>40 DEF Carry
  <1>41. CASE Quit
    BY <1>41, EmptyOnce DEF Quit, LeaveServe
  <1>42. CASE RecoverBegin
    BY <1>42 DEF RecoverBegin
  <1>43. CASE RecoverHeals
    BY <1>43 DEF RecoverHeals
  <1>44. CASE RecoverFails
    BY <1>44 DEF RecoverFails
  <1>45. CASE RecoverConfirms
    BY <1>45 DEF RecoverConfirms
  <1>46. CASE Die
    <2>1. deaths' \in 0..MaxDeaths
      BY <1>46 DEF Die
    <2>2. scan' \in Seq(Requests)
      BY <1>46, EmptyOnce DEF Die
    <2> QED BY <1>46, <2>1, <2>2 DEF Die
  <1>47. CASE UNCHANGED vars
    BY <1>47 DEF vars
  <1> QED
    BY <1>1, <1>2, <1>3, <1>4, <1>5, <1>6, <1>7, <1>8, <1>9, <1>10,
       <1>11, <1>12, <1>13, <1>14, <1>15, <1>16, <1>17, <1>18, <1>19,
       <1>20, <1>21, <1>22, <1>23, <1>24, <1>25, <1>26, <1>27, <1>28,
       <1>29, <1>30, <1>31, <1>32, <1>33, <1>34, <1>35, <1>36, <1>37,
       <1>38, <1>39, <1>40, <1>41, <1>42, <1>43, <1>44, <1>45, <1>46,
       <1>47
    DEF Next, Serve, Try, Finally, Recovery

\* A file is unlinked once and never comes back.
LEMMA BusStep ==
  ASSUME IInv, [Next]_vars
  PROVE  BusInv'
  <1> USE ControllerAssumption
      DEF IInv, bus, lab, threads, record, vars, TypeOK, Incident, PCs, LiveTraffic,
          Fresh, Receipt, Trying, Ending, BusInv
  <1>1. ASSUME NEW r \in Requests, Submit(r) PROVE BusInv'
    BY <1>1, AppendOnce DEF Submit
  <1>2. ASSUME NEW r \in Requests, ThreadEnds(r) PROVE BusInv'
    BY <1>2 DEF ThreadEnds
  <1>3. CASE Start
    BY <1>3 DEF Start
  <1>4. CASE List
    BY <1>4 DEF List
  <1>5. CASE Drained
    BY <1>5 DEF Drained
  <1>6. CASE Reject
    BY <1>6, EmptyOnce DEF Reject, LeaveServe
  <1>7. CASE TakeStop
    BY <1>7, UnlinkFiles, EmptyOnce DEF TakeStop, LeaveServe
  <1>8. CASE TakePolicy
    BY <1>8, UnlinkFiles, TailOnce DEF TakePolicy
  <1>9. CASE TakeRun
    BY <1>9, UnlinkFiles, TailOnce DEF TakeRun
  <1>10. CASE AdmitRefused
    BY <1>10 DEF AdmitRefused
  <1>11. CASE Admitted
    BY <1>11 DEF Admitted
  <1>12. CASE BaselinePassed
    BY <1>12 DEF BaselinePassed
  <1>13. CASE BaselineFailed
    BY <1>13 DEF BaselineFailed, Raise
  <1>14. CASE EnterCollector
    BY <1>14 DEF EnterCollector
  <1>15. CASE EnterFailed
    BY <1>15 DEF EnterFailed, Raise
  <1>16. CASE InjectRefused
    BY <1>16 DEF InjectRefused, Raise
  <1>17. CASE InjectNothing
    BY <1>17 DEF InjectNothing
  <1>18. CASE InjectIntent
    BY <1>18 DEF InjectIntent
  <1>19. CASE Strike
    BY <1>19 DEF Strike
  <1>20. CASE StrikeFailed
    BY <1>20 DEF StrikeFailed, Raise
  <1>21. CASE Observed
    BY <1>21 DEF Observed
  <1>22. CASE ObserveFailed
    BY <1>22 DEF ObserveFailed, Raise
  <1>23. CASE Quiesce
    BY <1>23 DEF Quiesce, Joined
  <1>24. CASE QuiesceFailed
    BY <1>24 DEF QuiesceFailed, Raise
  <1>25. CASE DecideRepair
    BY <1>25 DEF DecideRepair
  <1>26. CASE DecideNoRepair
    BY <1>26 DEF DecideNoRepair
  <1>27. CASE Repair
    BY <1>27 DEF Repair
  <1>28. CASE RepairFailed
    BY <1>28 DEF RepairFailed, Raise
  <1>29. CASE Unwind
    BY <1>29 DEF Unwind, Joined
  <1>30. CASE UnwindFailed
    BY <1>30 DEF UnwindFailed, RecoveryRaises
  <1>31. CASE Cleanup
    BY <1>31 DEF Cleanup
  <1>32. CASE CleanupFailed
    BY <1>32 DEF CleanupFailed
  <1>33. CASE Verified
    BY <1>33 DEF Verified
  <1>34. CASE VerifyFailed
    BY <1>34 DEF VerifyFailed, RecoveryRaises
  <1>35. CASE Confirm
    BY <1>35 DEF Confirm
  <1>36. CASE ConfirmFailed
    BY <1>36 DEF ConfirmFailed, RecoveryRaises
  <1>37. CASE Clear
    BY <1>37 DEF Clear
  <1>38. CASE ClearFailed
    BY <1>38 DEF ClearFailed, RecoveryRaises
  <1>39. CASE Publish
    BY <1>39 DEF Publish
  <1>40. CASE Carry
    BY <1>40 DEF Carry
  <1>41. CASE Quit
    BY <1>41, EmptyOnce DEF Quit, LeaveServe
  <1>42. CASE RecoverBegin
    BY <1>42 DEF RecoverBegin
  <1>43. CASE RecoverHeals
    BY <1>43 DEF RecoverHeals
  <1>44. CASE RecoverFails
    BY <1>44 DEF RecoverFails
  <1>45. CASE RecoverConfirms
    BY <1>45 DEF RecoverConfirms
  <1>46. CASE Die
    BY <1>46, EmptyOnce DEF Die
  <1>47. CASE UNCHANGED vars
    BY <1>47 DEF vars
  <1> QED
    BY <1>1, <1>2, <1>3, <1>4, <1>5, <1>6, <1>7, <1>8, <1>9, <1>10,
       <1>11, <1>12, <1>13, <1>14, <1>15, <1>16, <1>17, <1>18, <1>19,
       <1>20, <1>21, <1>22, <1>23, <1>24, <1>25, <1>26, <1>27, <1>28,
       <1>29, <1>30, <1>31, <1>32, <1>33, <1>34, <1>35, <1>36, <1>37,
       <1>38, <1>39, <1>40, <1>41, <1>42, <1>43, <1>44, <1>45, <1>46,
       <1>47
    DEF Next, Serve, Try, Finally, Recovery

\* An incident is started only for a request whose file is gone.
LEMMA RunsStep ==
  ASSUME IInv, [Next]_vars
  PROVE  RunsInv'
  <1> USE ControllerAssumption
      DEF IInv, bus, lab, threads, record, vars, TypeOK, Incident, PCs, LiveTraffic,
          Fresh, Receipt, Trying, Ending, NoReceipt, BusInv, RunsInv,
          IncidentInv, TrafficInv
  <1>1. ASSUME NEW r \in Requests, Submit(r) PROVE RunsInv'
    BY <1>1, AppendOnce DEF Submit
  <1>2. ASSUME NEW r \in Requests, ThreadEnds(r) PROVE RunsInv'
    BY <1>2 DEF ThreadEnds
  <1>3. CASE Start
    BY <1>3 DEF Start
  <1>4. CASE List
    BY <1>4 DEF List
  <1>5. CASE Drained
    BY <1>5 DEF Drained
  <1>6. CASE Reject
    BY <1>6, EmptyOnce DEF Reject, LeaveServe
  <1>7. CASE TakeStop
    BY <1>7, UnlinkFiles, EmptyOnce DEF TakeStop, LeaveServe
  <1>8. CASE TakePolicy
    BY <1>8, UnlinkFiles, TailOnce DEF TakePolicy
  <1>9. CASE TakeRun
    BY <1>9, UnlinkFiles, TailOnce DEF TakeRun
  <1>10. CASE AdmitRefused
    BY <1>10 DEF AdmitRefused
  <1>11. CASE Admitted
    BY <1>11 DEF Admitted
  <1>12. CASE BaselinePassed
    BY <1>12 DEF BaselinePassed
  <1>13. CASE BaselineFailed
    BY <1>13 DEF BaselineFailed, Raise
  <1>14. CASE EnterCollector
    BY <1>14 DEF EnterCollector
  <1>15. CASE EnterFailed
    BY <1>15 DEF EnterFailed, Raise
  <1>16. CASE InjectRefused
    BY <1>16 DEF InjectRefused, Raise
  <1>17. CASE InjectNothing
    BY <1>17 DEF InjectNothing
  <1>18. CASE InjectIntent
    BY <1>18 DEF InjectIntent
  <1>19. CASE Strike
    BY <1>19 DEF Strike
  <1>20. CASE StrikeFailed
    BY <1>20 DEF StrikeFailed, Raise
  <1>21. CASE Observed
    BY <1>21 DEF Observed
  <1>22. CASE ObserveFailed
    BY <1>22 DEF ObserveFailed, Raise
  <1>23. CASE Quiesce
    BY <1>23 DEF Quiesce, Joined
  <1>24. CASE QuiesceFailed
    BY <1>24 DEF QuiesceFailed, Raise
  <1>25. CASE DecideRepair
    BY <1>25 DEF DecideRepair
  <1>26. CASE DecideNoRepair
    BY <1>26 DEF DecideNoRepair
  <1>27. CASE Repair
    BY <1>27 DEF Repair
  <1>28. CASE RepairFailed
    BY <1>28 DEF RepairFailed, Raise
  <1>29. CASE Unwind
    BY <1>29 DEF Unwind, Joined
  <1>30. CASE UnwindFailed
    BY <1>30 DEF UnwindFailed, RecoveryRaises
  <1>31. CASE Cleanup
    BY <1>31 DEF Cleanup
  <1>32. CASE CleanupFailed
    BY <1>32 DEF CleanupFailed
  <1>33. CASE Verified
    BY <1>33 DEF Verified
  <1>34. CASE VerifyFailed
    BY <1>34 DEF VerifyFailed, RecoveryRaises
  <1>35. CASE Confirm
    BY <1>35 DEF Confirm
  <1>36. CASE ConfirmFailed
    BY <1>36 DEF ConfirmFailed, RecoveryRaises
  <1>37. CASE Clear
    BY <1>37 DEF Clear
  <1>38. CASE ClearFailed
    BY <1>38 DEF ClearFailed, RecoveryRaises
  <1>39. CASE Publish
    BY <1>39 DEF Publish
  <1>40. CASE Carry
    BY <1>40 DEF Carry
  <1>41. CASE Quit
    BY <1>41, EmptyOnce DEF Quit, LeaveServe
  <1>42. CASE RecoverBegin
    BY <1>42 DEF RecoverBegin
  <1>43. CASE RecoverHeals
    BY <1>43 DEF RecoverHeals
  <1>44. CASE RecoverFails
    BY <1>44 DEF RecoverFails
  <1>45. CASE RecoverConfirms
    BY <1>45 DEF RecoverConfirms
  <1>46. CASE Die
    BY <1>46, EmptyOnce DEF Die
  <1>47. CASE UNCHANGED vars
    BY <1>47 DEF vars
  <1> QED
    BY <1>1, <1>2, <1>3, <1>4, <1>5, <1>6, <1>7, <1>8, <1>9, <1>10,
       <1>11, <1>12, <1>13, <1>14, <1>15, <1>16, <1>17, <1>18, <1>19,
       <1>20, <1>21, <1>22, <1>23, <1>24, <1>25, <1>26, <1>27, <1>28,
       <1>29, <1>30, <1>31, <1>32, <1>33, <1>34, <1>35, <1>36, <1>37,
       <1>38, <1>39, <1>40, <1>41, <1>42, <1>43, <1>44, <1>45, <1>46,
       <1>47
    DEF Next, Serve, Try, Finally, Recovery

\* The incident has the lab for itself.
LEMMA IncidentStep ==
  ASSUME IInv, [Next]_vars
  PROVE  IncidentInv'
  <1> USE ControllerAssumption
      DEF IInv, bus, lab, threads, record, vars, TypeOK, Incident, PCs, LiveTraffic,
          Fresh, Receipt, Trying, Ending, BusInv, RunsInv,
          IncidentInv, LabInv, NoReceipt
  <1>1. ASSUME NEW r \in Requests, Submit(r) PROVE IncidentInv'
    BY <1>1, AppendOnce DEF Submit
  <1>2. ASSUME NEW r \in Requests, ThreadEnds(r) PROVE IncidentInv'
    BY <1>2 DEF ThreadEnds
  <1>3. CASE Start
    BY <1>3 DEF Start
  <1>4. CASE List
    BY <1>4 DEF List
  <1>5. CASE Drained
    BY <1>5 DEF Drained
  <1>6. CASE Reject
    BY <1>6, EmptyOnce DEF Reject, LeaveServe
  <1>7. CASE TakeStop
    BY <1>7, UnlinkFiles, EmptyOnce DEF TakeStop, LeaveServe
  <1>8. CASE TakePolicy
    BY <1>8, UnlinkFiles, TailOnce DEF TakePolicy
  <1>9. CASE TakeRun
    BY <1>9, UnlinkFiles, TailOnce DEF TakeRun
  <1>10. CASE AdmitRefused
    BY <1>10 DEF AdmitRefused
  <1>11. CASE Admitted
    BY <1>11 DEF Admitted
  <1>12. CASE BaselinePassed
    BY <1>12 DEF BaselinePassed
  <1>13. CASE BaselineFailed
    BY <1>13 DEF BaselineFailed, Raise
  <1>14. CASE EnterCollector
    BY <1>14 DEF EnterCollector
  <1>15. CASE EnterFailed
    BY <1>15 DEF EnterFailed, Raise
  <1>16. CASE InjectRefused
    BY <1>16 DEF InjectRefused, Raise
  <1>17. CASE InjectNothing
    BY <1>17 DEF InjectNothing
  <1>18. CASE InjectIntent
    BY <1>18 DEF InjectIntent
  <1>19. CASE Strike
    BY <1>19 DEF Strike
  <1>20. CASE StrikeFailed
    BY <1>20 DEF StrikeFailed, Raise
  <1>21. CASE Observed
    BY <1>21 DEF Observed
  <1>22. CASE ObserveFailed
    BY <1>22 DEF ObserveFailed, Raise
  <1>23. CASE Quiesce
    BY <1>23 DEF Quiesce, Joined
  <1>24. CASE QuiesceFailed
    BY <1>24 DEF QuiesceFailed, Raise
  <1>25. CASE DecideRepair
    BY <1>25 DEF DecideRepair
  <1>26. CASE DecideNoRepair
    BY <1>26 DEF DecideNoRepair
  <1>27. CASE Repair
    BY <1>27 DEF Repair
  <1>28. CASE RepairFailed
    BY <1>28 DEF RepairFailed, Raise
  <1>29. CASE Unwind
    BY <1>29 DEF Unwind, Joined
  <1>30. CASE UnwindFailed
    BY <1>30 DEF UnwindFailed, RecoveryRaises
  <1>31. CASE Cleanup
    BY <1>31 DEF Cleanup
  <1>32. CASE CleanupFailed
    BY <1>32 DEF CleanupFailed
  <1>33. CASE Verified
    BY <1>33 DEF Verified
  <1>34. CASE VerifyFailed
    BY <1>34 DEF VerifyFailed, RecoveryRaises
  <1>35. CASE Confirm
    BY <1>35 DEF Confirm
  <1>36. CASE ConfirmFailed
    BY <1>36 DEF ConfirmFailed, RecoveryRaises
  <1>37. CASE Clear
    BY <1>37 DEF Clear
  <1>38. CASE ClearFailed
    BY <1>38 DEF ClearFailed, RecoveryRaises
  <1>39. CASE Publish
    BY <1>39 DEF Publish
  <1>40. CASE Carry
    BY <1>40 DEF Carry
  <1>41. CASE Quit
    BY <1>41, EmptyOnce DEF Quit, LeaveServe
  <1>42. CASE RecoverBegin
    BY <1>42 DEF RecoverBegin
  <1>43. CASE RecoverHeals
    BY <1>43 DEF RecoverHeals
  <1>44. CASE RecoverFails
    BY <1>44 DEF RecoverFails
  <1>45. CASE RecoverConfirms
    BY <1>45 DEF RecoverConfirms
  <1>46. CASE Die
    BY <1>46, EmptyOnce DEF Die
  <1>47. CASE UNCHANGED vars
    BY <1>47 DEF vars
  <1> QED
    BY <1>1, <1>2, <1>3, <1>4, <1>5, <1>6, <1>7, <1>8, <1>9, <1>10,
       <1>11, <1>12, <1>13, <1>14, <1>15, <1>16, <1>17, <1>18, <1>19,
       <1>20, <1>21, <1>22, <1>23, <1>24, <1>25, <1>26, <1>27, <1>28,
       <1>29, <1>30, <1>31, <1>32, <1>33, <1>34, <1>35, <1>36, <1>37,
       <1>38, <1>39, <1>40, <1>41, <1>42, <1>43, <1>44, <1>45, <1>46,
       <1>47
    DEF Next, Serve, Try, Finally, Recovery

\* The exception, the transaction, the journal and the fault.
LEMMA LabStep ==
  ASSUME IInv, [Next]_vars
  PROVE  (ExcInv /\ LabInv)'
  <1> USE ControllerAssumption
      DEF IInv, bus, lab, threads, record, vars, TypeOK, Incident, PCs, LiveTraffic,
          Fresh, Receipt, Trying, Ending, BusInv, ExcInv,
          IncidentInv, LabInv, DraftInv
  <1>1. ASSUME NEW r \in Requests, Submit(r) PROVE (ExcInv /\ LabInv)'
    BY <1>1, AppendOnce DEF Submit
  <1>2. ASSUME NEW r \in Requests, ThreadEnds(r) PROVE (ExcInv /\ LabInv)'
    BY <1>2 DEF ThreadEnds
  <1>3. CASE Start
    BY <1>3 DEF Start
  <1>4. CASE List
    BY <1>4 DEF List
  <1>5. CASE Drained
    BY <1>5 DEF Drained
  <1>6. CASE Reject
    BY <1>6, EmptyOnce DEF Reject, LeaveServe
  <1>7. CASE TakeStop
    BY <1>7, UnlinkFiles, EmptyOnce DEF TakeStop, LeaveServe
  <1>8. CASE TakePolicy
    BY <1>8, UnlinkFiles, TailOnce DEF TakePolicy
  <1>9. CASE TakeRun
    BY <1>9, UnlinkFiles, TailOnce DEF TakeRun
  <1>10. CASE AdmitRefused
    BY <1>10 DEF AdmitRefused
  <1>11. CASE Admitted
    BY <1>11 DEF Admitted
  <1>12. CASE BaselinePassed
    BY <1>12 DEF BaselinePassed
  <1>13. CASE BaselineFailed
    BY <1>13 DEF BaselineFailed, Raise
  <1>14. CASE EnterCollector
    BY <1>14 DEF EnterCollector
  <1>15. CASE EnterFailed
    BY <1>15 DEF EnterFailed, Raise
  <1>16. CASE InjectRefused
    BY <1>16 DEF InjectRefused, Raise
  <1>17. CASE InjectNothing
    BY <1>17 DEF InjectNothing
  <1>18. CASE InjectIntent
    BY <1>18 DEF InjectIntent
  <1>19. CASE Strike
    BY <1>19 DEF Strike
  <1>20. CASE StrikeFailed
    BY <1>20 DEF StrikeFailed, Raise
  <1>21. CASE Observed
    BY <1>21 DEF Observed
  <1>22. CASE ObserveFailed
    BY <1>22 DEF ObserveFailed, Raise
  <1>23. CASE Quiesce
    BY <1>23 DEF Quiesce, Joined
  <1>24. CASE QuiesceFailed
    BY <1>24 DEF QuiesceFailed, Raise
  <1>25. CASE DecideRepair
    BY <1>25 DEF DecideRepair
  <1>26. CASE DecideNoRepair
    BY <1>26 DEF DecideNoRepair
  <1>27. CASE Repair
    BY <1>27 DEF Repair
  <1>28. CASE RepairFailed
    BY <1>28 DEF RepairFailed, Raise
  <1>29. CASE Unwind
    BY <1>29 DEF Unwind, Joined
  <1>30. CASE UnwindFailed
    BY <1>30 DEF UnwindFailed, RecoveryRaises
  <1>31. CASE Cleanup
    BY <1>31 DEF Cleanup
  <1>32. CASE CleanupFailed
    BY <1>32 DEF CleanupFailed
  <1>33. CASE Verified
    BY <1>33 DEF Verified
  <1>34. CASE VerifyFailed
    BY <1>34 DEF VerifyFailed, RecoveryRaises
  <1>35. CASE Confirm
    BY <1>35 DEF Confirm
  <1>36. CASE ConfirmFailed
    BY <1>36 DEF ConfirmFailed, RecoveryRaises
  <1>37. CASE Clear
    BY <1>37 DEF Clear
  <1>38. CASE ClearFailed
    BY <1>38 DEF ClearFailed, RecoveryRaises
  <1>39. CASE Publish
    BY <1>39 DEF Publish
  <1>40. CASE Carry
    BY <1>40 DEF Carry
  <1>41. CASE Quit
    BY <1>41, EmptyOnce DEF Quit, LeaveServe
  <1>42. CASE RecoverBegin
    BY <1>42 DEF RecoverBegin
  <1>43. CASE RecoverHeals
    BY <1>43 DEF RecoverHeals
  <1>44. CASE RecoverFails
    BY <1>44 DEF RecoverFails
  <1>45. CASE RecoverConfirms
    BY <1>45 DEF RecoverConfirms
  <1>46. CASE Die
    BY <1>46, EmptyOnce DEF Die
  <1>47. CASE UNCHANGED vars
    BY <1>47 DEF vars
  <1> QED
    BY <1>1, <1>2, <1>3, <1>4, <1>5, <1>6, <1>7, <1>8, <1>9, <1>10,
       <1>11, <1>12, <1>13, <1>14, <1>15, <1>16, <1>17, <1>18, <1>19,
       <1>20, <1>21, <1>22, <1>23, <1>24, <1>25, <1>26, <1>27, <1>28,
       <1>29, <1>30, <1>31, <1>32, <1>33, <1>34, <1>35, <1>36, <1>37,
       <1>38, <1>39, <1>40, <1>41, <1>42, <1>43, <1>44, <1>45, <1>46,
       <1>47
    DEF Next, Serve, Try, Finally, Recovery

\* The draft and the threads.
LEMMA DraftStep ==
  ASSUME IInv, [Next]_vars
  PROVE  (DraftInv /\ TrafficInv)'
  <1> USE ControllerAssumption
      DEF IInv, bus, lab, threads, record, vars, TypeOK, Incident, PCs, LiveTraffic,
          Fresh, Receipt, Trying, Ending, BusInv, ExcInv,
          LabInv, RunsInv, IncidentInv, DraftInv, TrafficInv
  <1>1. ASSUME NEW r \in Requests, Submit(r) PROVE (DraftInv /\ TrafficInv)'
    BY <1>1, AppendOnce DEF Submit
  <1>2. ASSUME NEW r \in Requests, ThreadEnds(r) PROVE (DraftInv /\ TrafficInv)'
    BY <1>2 DEF ThreadEnds
  <1>3. CASE Start
    BY <1>3 DEF Start
  <1>4. CASE List
    BY <1>4 DEF List
  <1>5. CASE Drained
    BY <1>5 DEF Drained
  <1>6. CASE Reject
    BY <1>6, EmptyOnce DEF Reject, LeaveServe
  <1>7. CASE TakeStop
    BY <1>7, UnlinkFiles, EmptyOnce DEF TakeStop, LeaveServe
  <1>8. CASE TakePolicy
    BY <1>8, UnlinkFiles, TailOnce DEF TakePolicy
  <1>9. CASE TakeRun
    BY <1>9, UnlinkFiles, TailOnce DEF TakeRun
  <1>10. CASE AdmitRefused
    BY <1>10 DEF AdmitRefused
  <1>11. CASE Admitted
    BY <1>11 DEF Admitted
  <1>12. CASE BaselinePassed
    BY <1>12 DEF BaselinePassed
  <1>13. CASE BaselineFailed
    BY <1>13 DEF BaselineFailed, Raise
  <1>14. CASE EnterCollector
    BY <1>14 DEF EnterCollector
  <1>15. CASE EnterFailed
    BY <1>15 DEF EnterFailed, Raise
  <1>16. CASE InjectRefused
    BY <1>16 DEF InjectRefused, Raise
  <1>17. CASE InjectNothing
    BY <1>17 DEF InjectNothing
  <1>18. CASE InjectIntent
    BY <1>18 DEF InjectIntent
  <1>19. CASE Strike
    BY <1>19 DEF Strike
  <1>20. CASE StrikeFailed
    BY <1>20 DEF StrikeFailed, Raise
  <1>21. CASE Observed
    BY <1>21 DEF Observed
  <1>22. CASE ObserveFailed
    BY <1>22 DEF ObserveFailed, Raise
  <1>23. CASE Quiesce
    BY <1>23 DEF Quiesce, Joined
  <1>24. CASE QuiesceFailed
    BY <1>24 DEF QuiesceFailed, Raise
  <1>25. CASE DecideRepair
    BY <1>25 DEF DecideRepair
  <1>26. CASE DecideNoRepair
    BY <1>26 DEF DecideNoRepair
  <1>27. CASE Repair
    BY <1>27 DEF Repair
  <1>28. CASE RepairFailed
    BY <1>28 DEF RepairFailed, Raise
  <1>29. CASE Unwind
    BY <1>29 DEF Unwind, Joined
  <1>30. CASE UnwindFailed
    BY <1>30 DEF UnwindFailed, RecoveryRaises
  <1>31. CASE Cleanup
    BY <1>31 DEF Cleanup
  <1>32. CASE CleanupFailed
    BY <1>32 DEF CleanupFailed
  <1>33. CASE Verified
    BY <1>33 DEF Verified
  <1>34. CASE VerifyFailed
    BY <1>34 DEF VerifyFailed, RecoveryRaises
  <1>35. CASE Confirm
    BY <1>35 DEF Confirm
  <1>36. CASE ConfirmFailed
    BY <1>36 DEF ConfirmFailed, RecoveryRaises
  <1>37. CASE Clear
    BY <1>37 DEF Clear
  <1>38. CASE ClearFailed
    BY <1>38 DEF ClearFailed, RecoveryRaises
  <1>39. CASE Publish
    BY <1>39 DEF Publish
  <1>40. CASE Carry
    BY <1>40 DEF Carry
  <1>41. CASE Quit
    BY <1>41, EmptyOnce DEF Quit, LeaveServe
  <1>42. CASE RecoverBegin
    BY <1>42 DEF RecoverBegin
  <1>43. CASE RecoverHeals
    BY <1>43 DEF RecoverHeals
  <1>44. CASE RecoverFails
    BY <1>44 DEF RecoverFails
  <1>45. CASE RecoverConfirms
    BY <1>45 DEF RecoverConfirms
  <1>46. CASE Die
    BY <1>46, EmptyOnce DEF Die
  <1>47. CASE UNCHANGED vars
    BY <1>47 DEF vars
  <1> QED
    BY <1>1, <1>2, <1>3, <1>4, <1>5, <1>6, <1>7, <1>8, <1>9, <1>10,
       <1>11, <1>12, <1>13, <1>14, <1>15, <1>16, <1>17, <1>18, <1>19,
       <1>20, <1>21, <1>22, <1>23, <1>24, <1>25, <1>26, <1>27, <1>28,
       <1>29, <1>30, <1>31, <1>32, <1>33, <1>34, <1>35, <1>36, <1>37,
       <1>38, <1>39, <1>40, <1>41, <1>42, <1>43, <1>44, <1>45, <1>46,
       <1>47
    DEF Next, Serve, Try, Finally, Recovery

\* The receipts on disk stay true.
LEMMA ReceiptStep ==
  ASSUME IInv, [Next]_vars
  PROVE  HonestReceipt'
  <1> USE ControllerAssumption
      DEF IInv, bus, lab, threads, record, vars, TypeOK, Incident, PCs, LiveTraffic,
          Fresh, Receipt, Trying, Ending, BusInv, RunsInv,
          IncidentInv, LabInv, NoReceipt, DraftInv, TrafficInv, HonestReceipt
  <1>1. ASSUME NEW r \in Requests, Submit(r) PROVE HonestReceipt'
    BY <1>1, AppendOnce DEF Submit
  <1>2. ASSUME NEW r \in Requests, ThreadEnds(r) PROVE HonestReceipt'
    BY <1>2 DEF ThreadEnds
  <1>3. CASE Start
    BY <1>3 DEF Start
  <1>4. CASE List
    BY <1>4 DEF List
  <1>5. CASE Drained
    BY <1>5 DEF Drained
  <1>6. CASE Reject
    BY <1>6, EmptyOnce DEF Reject, LeaveServe
  <1>7. CASE TakeStop
    BY <1>7, UnlinkFiles, EmptyOnce DEF TakeStop, LeaveServe
  <1>8. CASE TakePolicy
    BY <1>8, UnlinkFiles, TailOnce DEF TakePolicy
  <1>9. CASE TakeRun
    BY <1>9, UnlinkFiles, TailOnce DEF TakeRun
  <1>10. CASE AdmitRefused
    BY <1>10 DEF AdmitRefused
  <1>11. CASE Admitted
    BY <1>11 DEF Admitted
  <1>12. CASE BaselinePassed
    BY <1>12 DEF BaselinePassed
  <1>13. CASE BaselineFailed
    BY <1>13 DEF BaselineFailed, Raise
  <1>14. CASE EnterCollector
    BY <1>14 DEF EnterCollector
  <1>15. CASE EnterFailed
    BY <1>15 DEF EnterFailed, Raise
  <1>16. CASE InjectRefused
    BY <1>16 DEF InjectRefused, Raise
  <1>17. CASE InjectNothing
    BY <1>17 DEF InjectNothing
  <1>18. CASE InjectIntent
    BY <1>18 DEF InjectIntent
  <1>19. CASE Strike
    BY <1>19 DEF Strike
  <1>20. CASE StrikeFailed
    BY <1>20 DEF StrikeFailed, Raise
  <1>21. CASE Observed
    BY <1>21 DEF Observed
  <1>22. CASE ObserveFailed
    BY <1>22 DEF ObserveFailed, Raise
  <1>23. CASE Quiesce
    BY <1>23 DEF Quiesce, Joined
  <1>24. CASE QuiesceFailed
    BY <1>24 DEF QuiesceFailed, Raise
  <1>25. CASE DecideRepair
    BY <1>25 DEF DecideRepair
  <1>26. CASE DecideNoRepair
    BY <1>26 DEF DecideNoRepair
  <1>27. CASE Repair
    BY <1>27 DEF Repair
  <1>28. CASE RepairFailed
    BY <1>28 DEF RepairFailed, Raise
  <1>29. CASE Unwind
    BY <1>29 DEF Unwind, Joined
  <1>30. CASE UnwindFailed
    BY <1>30 DEF UnwindFailed, RecoveryRaises
  <1>31. CASE Cleanup
    BY <1>31 DEF Cleanup
  <1>32. CASE CleanupFailed
    BY <1>32 DEF CleanupFailed
  <1>33. CASE Verified
    BY <1>33 DEF Verified
  <1>34. CASE VerifyFailed
    BY <1>34 DEF VerifyFailed, RecoveryRaises
  <1>35. CASE Confirm
    BY <1>35 DEF Confirm
  <1>36. CASE ConfirmFailed
    BY <1>36 DEF ConfirmFailed, RecoveryRaises
  <1>37. CASE Clear
    BY <1>37 DEF Clear
  <1>38. CASE ClearFailed
    BY <1>38 DEF ClearFailed, RecoveryRaises
  <1>39. CASE Publish
    BY <1>39 DEF Publish
  <1>40. CASE Carry
    BY <1>40 DEF Carry
  <1>41. CASE Quit
    BY <1>41, EmptyOnce DEF Quit, LeaveServe
  <1>42. CASE RecoverBegin
    BY <1>42 DEF RecoverBegin
  <1>43. CASE RecoverHeals
    BY <1>43 DEF RecoverHeals
  <1>44. CASE RecoverFails
    BY <1>44 DEF RecoverFails
  <1>45. CASE RecoverConfirms
    BY <1>45 DEF RecoverConfirms
  <1>46. CASE Die
    BY <1>46, EmptyOnce DEF Die
  <1>47. CASE UNCHANGED vars
    BY <1>47 DEF vars
  <1> QED
    BY <1>1, <1>2, <1>3, <1>4, <1>5, <1>6, <1>7, <1>8, <1>9, <1>10,
       <1>11, <1>12, <1>13, <1>14, <1>15, <1>16, <1>17, <1>18, <1>19,
       <1>20, <1>21, <1>22, <1>23, <1>24, <1>25, <1>26, <1>27, <1>28,
       <1>29, <1>30, <1>31, <1>32, <1>33, <1>34, <1>35, <1>36, <1>37,
       <1>38, <1>39, <1>40, <1>41, <1>42, <1>43, <1>44, <1>45, <1>46,
       <1>47
    DEF Next, Serve, Try, Finally, Recovery

-----------------------------------------------------------------------------
(* The theorems.                                                           *)

\* The inductive invariant: the directory, the incident, the lab and the receipts
\* of rca_live_v3/controller.py agree at every step, deaths included.
THEOREM ControllerInvariant == Spec => []IInv
  <1>1. Init => IInv
    <2> SUFFICES ASSUME Init PROVE IInv
      OBVIOUS
    <2>1. TypeOK
      <3>1. queue \in Seq(Requests) /\ scan \in Seq(Requests)
        BY EmptyOnce DEF Init
      <3>2. Fresh \in Receipt /\ deaths \in 0..MaxDeaths
        BY ControllerAssumption DEF Init, Fresh, Receipt, Status
      <3> QED BY <3>1, <3>2 DEF Init, TypeOK, PCs
    <2>2. BusInv
      BY EmptyOnce DEF Init, BusInv
    <2>3. RunsInv
      BY EmptyOnce DEF Init, RunsInv, LiveTraffic, Incident
    <2>4. ExcInv /\ IncidentInv /\ LabInv /\ DraftInv /\ TrafficInv
      BY DEF Init, ExcInv, IncidentInv, LabInv, DraftInv, TrafficInv, Incident, Trying, Ending
    <2>5. HonestReceipt
      BY DEF Init, HonestReceipt, NoReceipt, LiveTraffic
    <2> QED BY <2>1, <2>2, <2>3, <2>4, <2>5 DEF IInv
  <1>2. IInv /\ [Next]_vars => IInv'
    BY TypeStep, BusStep, RunsStep, IncidentStep, LabStep, DraftStep, ReceiptStep
    DEF IInv
  <1> QED
    BY <1>1, <1>2, PTL DEF Spec

\* "Quiesce independent traffic before repair and functional recovery checks"
\* (controller.py): no component is repaired or cleaned up under the incident's
\* own traffic, however its joins time out.
THEOREM ControllerRepairsQuietly == Spec => []QuietRepair
  <1>1. IInv => QuietRepair
    BY DEF IInv, TrafficInv, QuietRepair
  <1> QED
    BY <1>1, ControllerInvariant, PTL

\* A request comes to one incident at most, and its receipt tells the truth of it:
\* serve(), _run and its finally block in controller.py.
THEOREM ControllerAnswersRequests == Spec => []RequestsAreAnswered
  <1>1. IInv => RequestsAreAnswered
    BY DEF IInv, RunsInv, RequestsAreAnswered, AtMostOnce
  <1> QED
    BY <1>1, ControllerInvariant, PTL

\* publish in _run's innermost finally writes a receipt's last word.
THEOREM ControllerReceiptsAreFinal == Spec => ReceiptsAreFinal
  <1> DEFINE Final(r) == receipt[r].status \in {"COMPLETE", "FAILED", "RECOVERY_FAILED"}
  <1>1. ASSUME IInv, [Next]_vars, NEW r \in Requests, Final(r)
        PROVE  receipt'[r] = receipt[r]
    <2> USE <1>1 DEF IInv, TypeOK
    <2>1. CASE Admitted
      <3>1. item \in Requests /\ receipt[item] = NoReceipt
        BY <2>1 DEF Admitted, BusInv, RunsInv
      <3> QED BY <2>1, <3>1 DEF Admitted, NoReceipt
    <2>2. CASE Publish
      BY <2>2 DEF Publish, BusInv, IncidentInv, Incident
    <2>3. CASE receipt' = receipt
      BY <2>3
    <2>4. Admitted \/ Publish \/ receipt' = receipt
      BY DEF Next, Serve, Try, Finally, Recovery, vars, record,
         Submit, ThreadEnds, Start, List, Drained, Reject, TakeStop, TakePolicy,
         TakeRun, AdmitRefused, BaselinePassed, BaselineFailed,
         EnterCollector, EnterFailed, InjectRefused, InjectNothing,
         InjectIntent, Strike, StrikeFailed, Observed, ObserveFailed,
         Quiesce, QuiesceFailed, DecideRepair, DecideNoRepair, Repair,
         RepairFailed, Unwind, UnwindFailed, Cleanup, CleanupFailed,
         Verified, VerifyFailed, Confirm, ConfirmFailed, Clear, ClearFailed,
         Carry, Quit, RecoverBegin, RecoverHeals, RecoverFails,
         RecoverConfirms, Die, LeaveServe, Unlink, Joined, Raise,
         RecoveryRaises
    <2> QED BY <2>1, <2>2, <2>3, <2>4
  <1>2. IInv /\ [Next]_vars =>
          \A r \in Requests : Final(r) => receipt'[r] = receipt[r]
    BY <1>1
  <1> QED
    BY <1>2, ControllerInvariant, PTL DEF Spec, ReceiptsAreFinal

\* Every step is a step of the gate, or leaves journal and fault alone.
LEMMA GateStep ==
  ASSUME IInv, [Next]_vars
  PROVE  [Gate!Next]_(Gate!gate)
  <1> USE ControllerAssumption DEF IInv, TypeOK, BusInv, LabInv, IncidentInv, Incident
  <1> USE DEF Gate!Next, Gate!gate, Gate!Block, Gate!Unblock, Gate!Fault, Gate!Heal
  <1>1. CASE UNCHANGED lab
    BY <1>1 DEF lab
  <1>2. CASE InjectIntent
    BY <1>2 DEF InjectIntent
  <1>3. CASE Strike
    BY <1>3 DEF Strike
  <1>4. CASE StrikeFailed
    BY <1>4 DEF StrikeFailed, Raise
  <1>5. CASE Repair
    BY <1>5 DEF Repair
  <1>6. CASE RepairFailed
    BY <1>6 DEF RepairFailed, Raise
  <1>7. CASE UnwindFailed
    BY <1>7 DEF UnwindFailed, RecoveryRaises
  <1>8. CASE Cleanup
    BY <1>8 DEF Cleanup
  <1>9. CASE CleanupFailed
    BY <1>9 DEF CleanupFailed
  <1>10. CASE VerifyFailed
    BY <1>10 DEF VerifyFailed, RecoveryRaises
  <1>11. CASE Confirm
    BY <1>11 DEF Confirm
  <1>12. CASE ConfirmFailed
    BY <1>12 DEF ConfirmFailed, RecoveryRaises
  <1>13. CASE ClearFailed
    BY <1>13 DEF ClearFailed, RecoveryRaises
  <1>14. CASE RecoverHeals
    BY <1>14 DEF RecoverHeals
  <1>15. CASE RecoverConfirms
    BY <1>15 DEF RecoverConfirms
  <1>16. CASE fault' = fault /\ journal' = journal
    BY <1>16
  <1>17. \/ fault' = fault /\ journal' = journal
        \/ InjectIntent \/ Strike \/ StrikeFailed \/ Repair \/ RepairFailed \/
           UnwindFailed \/ Cleanup \/ CleanupFailed \/ VerifyFailed \/
           Confirm \/ ConfirmFailed \/ ClearFailed \/ RecoverHeals \/
           RecoverConfirms
    BY DEF Next, Serve, Try, Finally, Recovery, vars, lab,
       Submit, ThreadEnds, Start, List, Drained, Reject, TakeStop, TakePolicy,
       TakeRun, AdmitRefused, Admitted, BaselinePassed, BaselineFailed,
       EnterCollector, EnterFailed, InjectRefused, InjectNothing, Observed,
       ObserveFailed, Quiesce, QuiesceFailed, DecideRepair, DecideNoRepair,
       Unwind, Verified, Clear, Publish, Carry, Quit, RecoverBegin,
       RecoverFails, Die, LeaveServe, Joined, Raise
  <1> QED
    BY <1>1, <1>2, <1>3, <1>4, <1>5, <1>6, <1>7, <1>8, <1>9, <1>10, <1>11, <1>12,
       <1>13, <1>14, <1>15, <1>16, <1>17

\* Whatever serve(), its incidents, the recovery command and death do, the lab
\* carries a fault only while it is blocked and is unblocked only when clean.
THEOREM ControllerKeepsGate == Spec => GateSpec
  <1>1. Init => Gate!Init
    BY DEF Init, Gate!Init
  <1>2. IInv /\ [Next]_vars => [Gate!Next]_(Gate!gate)
    BY GateStep
  <1> QED
    BY <1>1, <1>2, ControllerInvariant, PTL DEF Spec, GateSpec, Gate!Spec

\* What the gate is for: a lab that carries a fault is blocked.
THEOREM ControllerFaultsAreBlocked == Spec => []Gate!FaultsAreBlocked
  <1>1. IInv => Gate!FaultsAreBlocked
    BY ControllerAssumption DEF IInv, TypeOK, LabInv, Gate!FaultsAreBlocked
  <1> QED
    BY <1>1, ControllerInvariant, PTL
=============================================================================
