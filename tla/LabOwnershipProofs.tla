--------------------------- MODULE LabOwnershipProofs ---------------------------
(***************************************************************************)
(* Proofs about LabOwnership for any number of controllers, captures,      *)
(* monitors and recovery commands at once, with a death anywhere and with  *)
(* torn locks: the lab has one owner, and nobody's lock or journal is      *)
(* taken away behind its back, until a recovery command removes the lock   *)
(* of a running process; and the first to do so ran beside another one.    *)
(***************************************************************************)
EXTENDS LabOwnership, SequenceTheorems, TLAPS

-----------------------------------------------------------------------------
(* The lists of lock files that a process may hold or still be after.      *)

None == <<>>
S    == <<"server">>
C    == <<"capture">>
W    == <<"writer">>
H    == <<"shared">>
SC   == <<"server", "capture">>
CW   == <<"capture", "writer">>
HC   == <<"shared", "capture">>
SCW  == <<"server", "capture", "writer">>

Lists == {None, S, C, W, H, SC, CW, HC, SCW}

Distinct(s) == \A j, k \in 1..Len(s) : s[j] = s[k] => j = k

\* The lists of lock files, by name.
LEMMA Names ==
  /\ <<>> = None /\ <<"server">> = S /\ <<"capture">> = C /\ <<"writer">> = W
  /\ <<"capture", "writer">> = CW /\ <<"shared", "capture">> = HC
  /\ <<"server", "capture", "writer">> = SCW
BY DEF None, S, C, W, CW, HC, SCW

\* Their lengths.
LEMMA Lengths ==
  /\ Len(None) = 0 /\ Len(S) = 1 /\ Len(C) = 1 /\ Len(W) = 1 /\ Len(H) = 1
  /\ Len(SC) = 2 /\ Len(CW) = 2 /\ Len(HC) = 2 /\ Len(SCW) = 3
BY DEF None, S, C, W, H, SC, CW, HC, SCW

\* Their elements.
LEMMA Elements ==
  /\ S[1] = "server" /\ C[1] = "capture" /\ W[1] = "writer" /\ H[1] = "shared"
  /\ SC[1] = "server" /\ SC[2] = "capture" /\ HC[1] = "shared" /\ HC[2] = "capture"
  /\ CW[1] = "capture" /\ CW[2] = "writer"
  /\ SCW[1] = "server" /\ SCW[2] = "capture" /\ SCW[3] = "writer"
BY DEF S, C, W, H, SC, CW, HC, SCW

\* They are sequences of lock files.
LEMMA ListsAreLists == Lists \subseteq Seq(File)
BY DEF Lists, None, S, C, W, H, SC, CW, HC, SCW, File

\* They differ.
LEMMA DifferentLists ==
  /\ S # None /\ C # None /\ W # None /\ SC # None /\ CW # None /\ HC # None /\ SCW # None
  /\ H # None /\ S # SC /\ S # SCW
BY DEF None, S, C, W, H, SC, CW, HC, SCW

\* Their heads and tails.
LEMMA HeadsAndTails ==
  /\ Head(S) = "server" /\ Tail(S) = None /\ Head(C) = "capture" /\ Tail(C) = None
  /\ Head(W) = "writer" /\ Tail(W) = None /\ Head(CW) = "capture" /\ Tail(CW) = W
  /\ Head(HC) = "shared" /\ Tail(HC) = C /\ Head(SCW) = "server" /\ Tail(SCW) = CW
BY DEF None, S, C, W, CW, HC, SCW

\* When one list is another with a lock file more.
LEMMA AppendGives ==
  ASSUME NEW s \in Lists, NEW t \in Lists, NEW f \in File,
         Len(t) = Len(s) + 1, t[Len(t)] = f, \A i \in 1..Len(s) : t[i] = s[i]
  PROVE  Append(s, f) = t
<1>1. s \in Seq(File) /\ t \in Seq(File)
  BY ListsAreLists
<1>2. Len(s) \in Nat
  BY <1>1
<1>3. /\ Append(s, f) \in Seq(File) /\ Len(Append(s, f)) = Len(s) + 1
      /\ \A i \in 1..(Len(s) + 1) :
           Append(s, f)[i] = IF i = Len(s) + 1 THEN f ELSE s[i]
  BY <1>1
<1>4. \A i \in 1..Len(t) : Append(s, f)[i] = t[i]
  BY <1>2, <1>3
<1> HIDE DEF Lists, File
<1> QED
  BY <1>1, <1>3, <1>4, SeqEqual

\* When it is a list of one.
LEMMA FirstGives ==
  ASSUME NEW t \in Lists, NEW f \in File, Len(t) = 1, t[1] = f
  PROVE  Append(None, f) = t
<1>1. None \in Lists /\ Len(None) = 0
  BY Lengths DEF Lists
<1>2. \A i \in 1..Len(None) : t[i] = None[i]
  BY <1>1
<1>3. Len(t) = Len(None) + 1 /\ t[Len(t)] = f
  BY <1>1
<1> HIDE DEF Lists, File
<1> QED
  BY <1>1, <1>2, <1>3, AppendGives

\* The lists a process gets by taking the next lock file.
LEMMA Appended ==
  /\ Append(None, "server") = S /\ Append(None, "capture") = C
  /\ Append(None, "writer") = W /\ Append(None, "shared") = H
  /\ Append(S, "capture") = SC /\ Append(SC, "writer") = SCW /\ Append(H, "capture") = HC
<1>1. {"server", "capture", "writer", "shared"} \subseteq File
  BY DEF File
<1>2. {None, S, C, W, H, SC, CW, HC, SCW} \subseteq Lists
  BY DEF Lists
<1>3. Append(None, "server") = S
  BY <1>1, <1>2, FirstGives, Lengths, Elements
<1>4. Append(None, "capture") = C
  BY <1>1, <1>2, FirstGives, Lengths, Elements
<1>5. Append(None, "writer") = W
  BY <1>1, <1>2, FirstGives, Lengths, Elements
<1>6. Append(None, "shared") = H
  BY <1>1, <1>2, FirstGives, Lengths, Elements
<1>7. Append(S, "capture") = SC
  <2>1. \A i \in 1..Len(S) : SC[i] = S[i]
    BY Lengths, Elements
  <2>2. Len(SC) = Len(S) + 1 /\ S \in Lists /\ SC \in Lists
    BY <1>1, <1>2, Lengths
  <2> QED
    BY <1>1, <2>1, <2>2, AppendGives, Lengths, Elements
<1>8. Append(SC, "writer") = SCW
  <2>1. \A i \in 1..Len(SC) : SCW[i] = SC[i]
    BY Lengths, Elements
  <2>2. Len(SCW) = Len(SC) + 1 /\ SC \in Lists /\ SCW \in Lists
    BY <1>1, <1>2, Lengths
  <2> QED
    BY <1>1, <2>1, <2>2, AppendGives, Lengths, Elements
<1>9. Append(H, "capture") = HC
  <2>1. \A i \in 1..Len(H) : HC[i] = H[i]
    BY Lengths, Elements
  <2>2. Len(HC) = Len(H) + 1 /\ H \in Lists /\ HC \in Lists
    BY <1>1, <1>2, Lengths
  <2> QED
    BY <1>1, <2>1, <2>2, AppendGives, Lengths, Elements
<1> QED
  BY <1>3, <1>4, <1>5, <1>6, <1>7, <1>8, <1>9

\* When one list is another without its last lock file.
LEMMA ShortenGives ==
  ASSUME NEW s \in Lists, NEW t \in Lists,
         Len(s) = Len(t) + 1, \A i \in 1..Len(t) : s[i] = t[i]
  PROVE  SubSeq(s, 1, Len(t)) = t
<1>1. s \in Seq(File) /\ t \in Seq(File)
  BY ListsAreLists
<1>2. Len(t) \in Nat /\ Len(s) \in Nat
  BY <1>1
<1>3. \A i \in 1..Len(t) : s[i] \in File
  BY <1>1, <1>2
<1>4. /\ SubSeq(s, 1, Len(t)) \in Seq(File)
      /\ Len(SubSeq(s, 1, Len(t))) = IF 1 <= Len(t) THEN Len(t) - 1 + 1 ELSE 0
      /\ \A i \in 1..(Len(t) - 1 + 1) : SubSeq(s, 1, Len(t))[i] = s[1 + i - 1]
  BY <1>2, <1>3, SubSeqProperties
<1>5. Len(SubSeq(s, 1, Len(t))) = Len(t)
  BY <1>2, <1>4
<1>6. \A i \in 1..Len(t) : SubSeq(s, 1, Len(t))[i] = t[i]
  BY <1>2, <1>4
<1> QED
  BY <1>1, <1>4, <1>5, <1>6, SeqEqual

\* The lists a process gets by giving the last lock file back.
LEMMA Shortened ==
  /\ SubSeq(S, 1, 0) = None /\ SubSeq(C, 1, 0) = None /\ SubSeq(W, 1, 0) = None
  /\ SubSeq(H, 1, 0) = None /\ SubSeq(SC, 1, 1) = S /\ SubSeq(HC, 1, 1) = H
  /\ SubSeq(SCW, 1, 2) = SC
<1>1. {None, S, C, W, H, SC, CW, HC, SCW} \subseteq Lists
  BY DEF Lists
<1>3. SubSeq(S, 1, 0) = None
  BY <1>1, ShortenGives, Lengths, Elements
<1>4. SubSeq(C, 1, 0) = None
  BY <1>1, ShortenGives, Lengths, Elements
<1>5. SubSeq(W, 1, 0) = None
  BY <1>1, ShortenGives, Lengths, Elements
<1>6. SubSeq(H, 1, 0) = None
  BY <1>1, ShortenGives, Lengths, Elements
<1>7. SubSeq(SC, 1, 1) = S
  <2>1. \A i \in 1..Len(S) : SC[i] = S[i]
    BY Lengths, Elements
  <2>2. Len(SC) = Len(S) + 1 /\ S \in Lists /\ SC \in Lists
    BY <1>1, Lengths
  <2> QED
    BY <1>1, <2>1, <2>2, ShortenGives, Lengths, Elements
<1>8. SubSeq(HC, 1, 1) = H
  <2>1. \A i \in 1..Len(H) : HC[i] = H[i]
    BY Lengths, Elements
  <2>2. Len(HC) = Len(H) + 1 /\ H \in Lists /\ HC \in Lists
    BY <1>1, Lengths
  <2> QED
    BY <1>1, <2>1, <2>2, ShortenGives, Lengths, Elements
<1>9. SubSeq(SCW, 1, 2) = SC
  <2>1. \A i \in 1..Len(SC) : SCW[i] = SC[i]
    BY Lengths, Elements
  <2>2. Len(SCW) = Len(SC) + 1 /\ SC \in Lists /\ SCW \in Lists
    BY <1>1, Lengths
  <2> QED
    BY <1>1, <2>1, <2>2, ShortenGives, Lengths, Elements
<1> QED
  BY <1>3, <1>4, <1>5, <1>6, <1>7, <1>8, <1>9

\* The same, in the words of the model.
LEMMA WithoutLast ==
  /\ SubSeq(S, 1, Len(S) - 1) = None /\ SubSeq(C, 1, Len(C) - 1) = None
  /\ SubSeq(W, 1, Len(W) - 1) = None /\ SubSeq(H, 1, Len(H) - 1) = None
  /\ SubSeq(SC, 1, Len(SC) - 1) = S /\ SubSeq(HC, 1, Len(HC) - 1) = H
  /\ SubSeq(SCW, 1, Len(SCW) - 1) = SC
BY Shortened, Lengths

\* No list names a lock file twice.
LEMMA DistinctFiles == \A s \in Lists : Distinct(s)
BY Lengths, Elements DEF Lists, Distinct

-----------------------------------------------------------------------------
(* The invariant.                                                          *)

Has(p, h, t) == held[p] = h /\ todo[p] = t

\* What the processes of each command hold, and are after, wherever they are.
ControllerAt(p) ==
  /\ pc[p] \in {"off", "gone"} => Has(p, None, None)
  /\ pc[p] = "acquire" =>
       \/ Has(p, None, S) \/ Has(p, S, None)
       \/ Has(p, S, CW) \/ Has(p, SC, W) \/ Has(p, SCW, None)
  /\ pc[p] = "write" => Has(p, None, S) \/ Has(p, S, CW) \/ Has(p, SC, W)
  /\ pc[p] \in {"idle", "foreign", "check", "served"} => Has(p, S, None)
  /\ pc[p] \in {"lab", "inject", "fault"} => Has(p, SCW, None)
  /\ pc[p] = "unwind" => Has(p, S, None) \/ Has(p, SC, None) \/ Has(p, SCW, None)
  /\ pc[p] = "leave" => Has(p, None, None) \/ Has(p, S, None)
  /\ pc[p] \notin {"inspect", "remove", "restore", "watch"}

CaptureAt(p) ==
  /\ pc[p] \in {"off", "gone", "check", "served"} => Has(p, None, None)
  /\ pc[p] = "acquire" => Has(p, None, C) \/ Has(p, C, None)
  /\ pc[p] = "write" => Has(p, None, C)
  /\ pc[p] \in {"lab", "inject", "fault"} => Has(p, C, None)
  /\ pc[p] \in {"unwind", "leave"} => Has(p, None, None) \/ Has(p, C, None)
  /\ pc[p] \notin {"inspect", "remove", "restore", "watch", "idle", "foreign"}

MonitorAt(p) ==
  /\ pc[p] \in {"off", "gone"} => Has(p, None, None)
  /\ pc[p] = "acquire" => Has(p, None, W) \/ Has(p, W, None)
  /\ pc[p] = "write" => Has(p, None, W)
  /\ pc[p] = "watch" => Has(p, W, None)
  /\ pc[p] = "leave" => Has(p, None, None) \/ Has(p, W, None)
  /\ pc[p] \in {"off", "acquire", "write", "watch", "leave", "gone"}

RecoveryAt(p) ==
  /\ pc[p] \in {"off", "gone"} => Has(p, None, None)
  /\ pc[p] = "inspect" =>
       Has(p, None, SCW) \/ Has(p, None, CW) \/ Has(p, None, W) \/ Has(p, None, None)
  /\ pc[p] = "remove" => Has(p, None, SCW) \/ Has(p, None, CW) \/ Has(p, None, W)
  /\ pc[p] = "acquire" => Has(p, None, HC) \/ Has(p, H, C) \/ Has(p, HC, None)
  /\ pc[p] = "write" => Has(p, None, HC) \/ Has(p, H, C)
  /\ pc[p] = "restore" => Has(p, HC, None)
  /\ pc[p] = "leave" => Has(p, None, None) \/ Has(p, H, None) \/ Has(p, HC, None)
  /\ pc[p] \in {"off", "inspect", "remove", "acquire", "write", "restore", "leave", "gone"}

At(p) ==
  /\ p \in Controllers => ControllerAt(p)
  /\ p \in Captures => CaptureAt(p)
  /\ p \in Monitors => MonitorAt(p)
  /\ p \in Recoveries => RecoveryAt(p)

\* Recovery commands that run at once are on record.
Beside == \A p, q \in Recoveries : Alive(p) /\ Alive(q) /\ p # q => p \in raced

\* A lock file that is there and names p.
Owns(p, f) == lock[f] # Absent /\ lock[f].by = p

\* The file a process is writing its pid to is its own.
Pending == \A p \in Proc : pc[p] = "write" => Owns(p, Head(todo[p]))

\* The file a recovery command is about to remove is still the dead one's, unless
\* another such command may have removed that.
Condemned ==
  \A p \in Proc \ raced :
    pc[p] = "remove" => lock[Head(todo[p])] # Absent /\ Dead(lock[Head(todo[p])].by)

\* No journal appears once inject() has looked for one.
Gated == \A p \in Proc : pc[p] = "inject" => journal = NoOne

\* Lock files name processes that have run.
Named == \A f \in File : lock[f] # Absent => pc[lock[f].by] # "off"

Typed ==
  /\ pc \in [Proc -> PCs] /\ lock \in [File -> Lock \cup {Absent}]
  /\ journal \in Proc \cup {NoOne}
  /\ todo \in [Proc -> Lists] /\ held \in [Proc -> Lists]
  /\ failed \in [Proc -> BOOLEAN] /\ deaths \in 0..MaxDeaths
  /\ raced \subseteq Recoveries /\ undercut \in BOOLEAN

\* What the locks and the journal give while nobody has been undercut.
Sound == LocksAreHeld /\ Pending /\ Condemned /\ Gated /\ FaultIsJournalled

IInv ==
  /\ Typed /\ \A p \in Proc : At(p)
  /\ Beside /\ Named
  /\ undercut \/ Sound

\* A process has one role.
LEMMA Roles ==
  /\ \A p \in Controllers : p \notin Captures /\ p \notin Monitors /\ p \notin Recoveries
  /\ \A p \in Captures : p \notin Controllers /\ p \notin Monitors /\ p \notin Recoveries
  /\ \A p \in Monitors : p \notin Controllers /\ p \notin Captures /\ p \notin Recoveries
  /\ \A p \in Recoveries : p \notin Controllers /\ p \notin Captures /\ p \notin Monitors
  /\ \A p \in Proc : p \in Controllers \/ p \in Captures \/ p \in Monitors \/ p \in Recoveries
BY OwnershipAssumption DEF Proc

\* The named lists are lists.
LEMMA ListMembers == {None, S, C, W, H, SC, CW, HC, SCW} \subseteq Lists
BY DEF Lists

\* The named lock files are lock files.
LEMMA FileNames == {"server", "capture", "writer", "shared"} \subseteq File
BY DEF File

\* The invariant holds initially.
LEMMA InitIInv == Init => IInv
<1> SUFFICES ASSUME Init PROVE IInv
  OBVIOUS
<1>1. Typed
  <2>1. undercut \in BOOLEAN /\ raced \subseteq Recoveries
    BY DEF Init
  <2> QED
    BY <2>1, OwnershipAssumption, ListMembers, Names DEF Init, Typed, PCs
<1>2. \A p \in Proc : At(p)
  BY Names DEF Init, At, ControllerAt, CaptureAt, MonitorAt, RecoveryAt, Has
<1>3. LocksAreHeld
  BY Names, Lengths DEF Init, LocksAreHeld
<1>4. Beside /\ Pending /\ Condemned /\ Named /\ Gated /\ FaultIsJournalled
  BY DEF Init, Proc, Beside, Alive, Pending, Condemned, Named, Gated, FaultIsJournalled
<1> QED
  BY <1>1, <1>2, <1>3, <1>4 DEF IInv, Sound

-----------------------------------------------------------------------------
(* Where a step takes its process.                                         *)

\* A step of p moves nobody else.
LEMMA OthersStay ==
  ASSUME Typed, NEW p \in Proc, Start(p) \/ Request(p) \/ Step(p) \/ Die(p)
  PROVE  \A q \in Proc \ {p} :
           pc'[q] = pc[q] /\ held'[q] = held[q] /\ todo'[q] = todo[q]
BY DEF Typed, Start, Request, Step, Die, Files, Incident, Recovery, Stop, Create, CreateRefused,
   Write, Acquired, Release, Exit, Foreign, Check, Allowed, Inject, LabFailed, Heal, Stuck, Unwound, Served,
   Inspect, Remove, GateCheck, Recovered, NotRecovered, Raise, Goto

\* What p holds and is after, once it has moved.
Moved(p, label, h, t) ==
  /\ pc' = [pc EXCEPT ![p] = label]
  /\ held' = [held EXCEPT ![p] = h]
  /\ todo' = [todo EXCEPT ![p] = t]

\* A process that moves is where it goes, with what it has.
LEMMA Arrived ==
  ASSUME Typed, NEW p \in Proc, NEW label \in PCs, NEW h \in Lists, NEW t \in Lists,
         Moved(p, label, h, t)
  PROVE  /\ pc' \in [Proc -> PCs] /\ held' \in [Proc -> Lists] /\ todo' \in [Proc -> Lists]
         /\ pc'[p] = label /\ held'[p] = h /\ todo'[p] = t
BY DEF Typed, Moved

\* The lists of p, typed and in place.
Placed(p) ==
  /\ pc' \in [Proc -> PCs] /\ held' \in [Proc -> Lists] /\ todo' \in [Proc -> Lists]
  /\ At(p)'

\* A process that starts is at a place the invariant allows.
LEMMA StartPlaced ==
  ASSUME IInv, NEW p \in Proc, Start(p)
  PROVE  Placed(p)
<1>1. Has(p, None, None)
  BY Roles DEF IInv, At, ControllerAt, CaptureAt, MonitorAt, RecoveryAt, Start
<1>2. /\ pc' = [pc EXCEPT ![p] = StartsAt(p)] /\ todo' = [todo EXCEPT ![p] = StartsWith(p)]
      /\ held' = held
  BY DEF Start, Goto
<1>3. /\ p \in Controllers => StartsAt(p) = "acquire" /\ StartsWith(p) = S
      /\ p \in Captures => StartsAt(p) = "check" /\ StartsWith(p) = None
      /\ p \in Monitors => StartsAt(p) = "acquire" /\ StartsWith(p) = W
      /\ p \in Recoveries => StartsAt(p) = "inspect" /\ StartsWith(p) = SCW
  BY Roles, Names DEF StartsAt, StartsWith
<1>4. StartsAt(p) \in PCs /\ StartsWith(p) \in Lists
  BY <1>3, Roles, ListMembers DEF PCs
<1>5. /\ pc' \in [Proc -> PCs] /\ held' \in [Proc -> Lists] /\ todo' \in [Proc -> Lists]
      /\ pc'[p] = StartsAt(p) /\ held'[p] = None /\ todo'[p] = StartsWith(p)
  BY <1>1, <1>2, <1>4 DEF IInv, Typed, Has
<1> QED
  BY <1>3, <1>5, Roles
     DEF Placed, At, ControllerAt, CaptureAt, MonitorAt, RecoveryAt, Has

\* So is one that creates, writes or unlinks a lock file.
LEMMA FilesPlaced ==
  ASSUME IInv, NEW p \in Proc, Files(p)
  PROVE  Placed(p)
<1> USE DEF IInv, Typed
<1>1. CASE Create(p)
  <2>1. pc[p] = "acquire" /\ todo[p] # None /\ pc' = [pc EXCEPT ![p] = "write"]
        /\ held' = held /\ todo' = todo
    BY <1>1, Names DEF Create, Goto
  <2>2. pc' \in [Proc -> PCs] /\ pc'[p] = "write"
    BY <2>1 DEF PCs
  <2> QED
    BY <2>1, <2>2, Roles, DifferentLists
       DEF Placed, At, ControllerAt, CaptureAt, MonitorAt, RecoveryAt, Has
<1>2. CASE CreateRefused(p)
  <2>1. /\ pc[p] = "acquire" /\ todo[p] # None /\ held' = held
        /\ todo' = [todo EXCEPT ![p] = None]
        /\ pc' = [pc EXCEPT ![p] = IF p \in Controllers /\ held[p] # None THEN "unwind" ELSE "leave"]
    BY <1>2, Names DEF CreateRefused, Raise, Goto
  <2>2. /\ pc' \in [Proc -> PCs] /\ todo' \in [Proc -> Lists] /\ todo'[p] = None
        /\ pc'[p] = IF p \in Controllers /\ held[p] # None THEN "unwind" ELSE "leave"
    BY <2>1, ListMembers DEF PCs
  <2> QED
    BY <2>1, <2>2, Roles, DifferentLists
       DEF Placed, At, ControllerAt, CaptureAt, MonitorAt, RecoveryAt, Has
<1>3. CASE Write(p)
  <2>1. /\ pc[p] = "write" /\ pc' = [pc EXCEPT ![p] = "acquire"]
        /\ held' = [held EXCEPT ![p] = Append(held[p], Head(todo[p]))]
        /\ todo' = [todo EXCEPT ![p] = Tail(todo[p])]
    BY <1>3 DEF Write, Goto
  <2>2. /\ p \in Controllers =>
             \/ Has(p, None, S) /\ Append(held[p], Head(todo[p])) = S /\ Tail(todo[p]) = None
             \/ Has(p, S, CW) /\ Append(held[p], Head(todo[p])) = SC /\ Tail(todo[p]) = W
             \/ Has(p, SC, W) /\ Append(held[p], Head(todo[p])) = SCW /\ Tail(todo[p]) = None
        /\ p \in Captures => Append(held[p], Head(todo[p])) = C /\ Tail(todo[p]) = None
        /\ p \in Monitors => Append(held[p], Head(todo[p])) = W /\ Tail(todo[p]) = None
        /\ p \in Recoveries =>
             \/ Append(held[p], Head(todo[p])) = H /\ Tail(todo[p]) = C
             \/ Append(held[p], Head(todo[p])) = HC /\ Tail(todo[p]) = None
    BY <2>1, Roles, HeadsAndTails, Appended
       DEF At, ControllerAt, CaptureAt, MonitorAt, RecoveryAt, Has
  <2>3. Append(held[p], Head(todo[p])) \in Lists /\ Tail(todo[p]) \in Lists
    BY <2>2, Roles, ListMembers
  <2>4. /\ pc' \in [Proc -> PCs] /\ held' \in [Proc -> Lists] /\ todo' \in [Proc -> Lists]
        /\ pc'[p] = "acquire" /\ held'[p] = Append(held[p], Head(todo[p]))
        /\ todo'[p] = Tail(todo[p])
    BY <2>1, <2>3 DEF PCs
  <2> QED
    BY <2>2, <2>4, Roles DEF Placed, At, ControllerAt, CaptureAt, MonitorAt, RecoveryAt, Has
<1>4. CASE Acquired(p)
  <2>1. /\ pc[p] = "acquire" /\ todo[p] = None /\ held' = held /\ todo' = todo
        /\ pc' = [pc EXCEPT ![p] = Goal(p)]
    BY <1>4, Names DEF Acquired, Goto
  <2>2. /\ p \in Controllers => \/ held[p] = S /\ Goal(p) = "idle"
                                \/ held[p] = SCW /\ Goal(p) = "lab"
        /\ p \in Captures => held[p] = C /\ Goal(p) = "lab"
        /\ p \in Monitors => held[p] = W /\ Goal(p) = "watch"
        /\ p \in Recoveries => held[p] = HC /\ Goal(p) = "restore"
    BY <2>1, Roles, Names, DifferentLists
       DEF Goal, At, ControllerAt, CaptureAt, MonitorAt, RecoveryAt, Has
  <2>3. pc' \in [Proc -> PCs] /\ pc'[p] = Goal(p)
    BY <2>1, <2>2, Roles DEF PCs
  <2> QED
    BY <2>1, <2>2, <2>3, Roles
       DEF Placed, At, ControllerAt, CaptureAt, MonitorAt, RecoveryAt, Has
<1>5. CASE Release(p)
  <2> DEFINE left == SubSeq(held[p], 1, Len(held[p]) - 1)
  <2>1. /\ pc' = pc /\ todo' = todo /\ held' = [held EXCEPT ![p] = left]
        /\ \/ pc[p] = "unwind" /\ Len(held[p]) > Base(p)
           \/ pc[p] = "leave" /\ held[p] # None
    BY <1>5, Names DEF Release
  <2>2. /\ p \in Controllers => \/ pc[p] = "unwind" /\ left \in {S, SC}
                                \/ pc[p] = "leave" /\ left = None
        /\ p \in Captures => pc[p] \in {"unwind", "leave"} /\ left = None
        /\ p \in Monitors => pc[p] = "leave" /\ left = None
        /\ p \in Recoveries => pc[p] = "leave" /\ left \in {None, H}
    <3>1. /\ p \in Controllers => /\ pc[p] = "unwind" => held[p] \in {SC, SCW}
                                  /\ pc[p] = "leave" => held[p] = S
          /\ p \in Captures => held[p] = C
          /\ p \in Monitors => pc[p] = "leave" /\ held[p] = W
          /\ p \in Recoveries => pc[p] = "leave" /\ held[p] \in {H, HC}
      <4>1. ASSUME p \in Controllers
            PROVE  /\ pc[p] = "unwind" => held[p] \in {SC, SCW}
                   /\ pc[p] = "leave" => held[p] = S
        <5>1. ControllerAt(p) /\ Base(p) = 1
          BY <4>1 DEF At, Base
        <5>2. pc[p] = "unwind" => held[p] # S
          <6>1. pc[p] = "unwind" => Len(held[p]) # 1
            <7>1. pc[p] = "unwind" => Len(held[p]) > Base(p)
              BY <2>1
            <7>2. pc[p] = "unwind" => Len(held[p]) > 1
              BY <5>1, <7>1
            <7>3. Len(held[p]) \in Nat
              BY ListsAreLists
            <7>4. \A n \in Nat : n > 1 => n # 1
              OBVIOUS
            <7> QED
              BY <7>2, <7>3, <7>4
          <6>2. held[p] = S => Len(held[p]) = 1
            BY Lengths
          <6> QED
            BY <6>1, <6>2
        <5>3. /\ pc[p] = "unwind" => held[p] \in {S, SC, SCW}
              /\ pc[p] = "leave" => held[p] \in {None, S}
          BY <5>1 DEF ControllerAt, Has
        <5> QED
          BY <2>1, <5>2, <5>3
      <4>2. ASSUME p \in Captures PROVE held[p] = C
        <5>1. CaptureAt(p) /\ Base(p) = 0
          BY <4>2, Roles DEF At, Base
        <5> QED
          BY <2>1, <5>1, Lengths DEF CaptureAt, Has
      <4>3. ASSUME p \in Monitors PROVE pc[p] = "leave" /\ held[p] = W
        BY <2>1, <4>3 DEF At, MonitorAt, Has
      <4>4. ASSUME p \in Recoveries PROVE pc[p] = "leave" /\ held[p] \in {H, HC}
        BY <2>1, <4>4 DEF At, RecoveryAt, Has
      <4> QED
        BY <4>1, <4>2, <4>3, <4>4
    <3>2. p \in Controllers => pc[p] \in {"unwind", "leave"}
      BY <2>1
    <3> QED
      BY <2>1, <3>1, <3>2, WithoutLast
  <2>3. left \in Lists
    BY <2>2, Roles, ListMembers
  <2> HIDE DEF left
  <2>4. /\ held' \in [Proc -> Lists] /\ held'[p] = left /\ pc'[p] = pc[p] /\ todo'[p] = todo[p]
    BY <2>1, <2>3
  <2>5. todo[p] = None
    BY <2>1, Roles DEF At, ControllerAt, CaptureAt, MonitorAt, RecoveryAt, Has
  <2> QED
    BY <2>1, <2>2, <2>4, <2>5, Roles
       DEF Placed, At, ControllerAt, CaptureAt, MonitorAt, RecoveryAt, Has
<1>6. CASE Exit(p)
  <2>1. /\ pc[p] = "leave" /\ held[p] = None /\ held' = held /\ todo' = todo
        /\ pc' = [pc EXCEPT ![p] = "gone"]
    BY <1>6, Names DEF Exit, Goto
  <2>2. pc' \in [Proc -> PCs] /\ pc'[p] = "gone"
    BY <2>1 DEF PCs
  <2> QED
    BY <2>1, <2>2, Roles, DifferentLists
       DEF Placed, At, ControllerAt, CaptureAt, MonitorAt, RecoveryAt, Has
<1> QED
  BY <1>1, <1>2, <1>3, <1>4, <1>5, <1>6 DEF Files

\* A process that goes to a label keeps its lists.
LEMMA Goes ==
  ASSUME Typed, NEW p \in Proc, NEW label \in PCs, Goto(p, label), held' = held, todo' = todo
  PROVE  /\ pc' \in [Proc -> PCs] /\ held' \in [Proc -> Lists] /\ todo' \in [Proc -> Lists]
         /\ pc'[p] = label /\ held'[p] = held[p] /\ todo'[p] = todo[p]
BY DEF Typed, Goto

\* So is one whose step raises.
LEMMA RaisePlaced ==
  ASSUME IInv, NEW p \in Proc, Raise(p), held' = held, todo' = todo,
         pc[p] \in {"foreign", "check", "lab", "fault"}
  PROVE  Placed(p)
<1>1. CASE p \in Controllers /\ held[p] # None
  <2>1. Goto(p, "unwind")
    BY <1>1, Names DEF Raise
  <2>2. /\ pc' \in [Proc -> PCs] /\ held' \in [Proc -> Lists] /\ todo' \in [Proc -> Lists]
        /\ pc'[p] = "unwind" /\ held'[p] = held[p] /\ todo'[p] = todo[p]
    BY <2>1, Goes DEF IInv, PCs
  <2> QED
    BY <1>1, <2>2, Roles
       DEF IInv, Placed, At, ControllerAt, Has
<1>2. CASE ~(p \in Controllers /\ held[p] # None)
  <2>1. Goto(p, "leave")
    BY <1>2, Names DEF Raise
  <2>2. /\ pc' \in [Proc -> PCs] /\ held' \in [Proc -> Lists] /\ todo' \in [Proc -> Lists]
        /\ pc'[p] = "leave" /\ held'[p] = held[p] /\ todo'[p] = todo[p]
    BY <2>1, Goes DEF IInv, PCs
  <2> QED
    BY <1>2, <2>2, Roles, DifferentLists
       DEF IInv, Placed, At, ControllerAt, CaptureAt, MonitorAt, RecoveryAt, Has
<1> QED
  BY <1>1, <1>2

\* A step that only goes from one place to another, with the same lists.
LEMMA GotoPlaced ==
  ASSUME IInv, NEW p \in Proc, NEW label \in PCs, Goto(p, label), held' = held, todo' = todo,
         \/ pc[p] \in {"idle", "watch"} /\ label = "leave"
         \/ pc[p] = "idle" /\ label = "foreign"
         \/ pc[p] = "foreign" /\ label = "check"
         \/ pc[p] = "lab" /\ label = "inject"
         \/ pc[p] = "inject" /\ label = "fault"
         \/ pc[p] = "fault" /\ label = "unwind"
         \/ pc[p] = "served" /\ p \in Controllers /\ label = "idle"
         \/ pc[p] = "served" /\ p \notin Controllers /\ label = "check"
         \/ pc[p] = "served" /\ label = "leave"
         \/ pc[p] = "restore" /\ label = "leave"
  PROVE  Placed(p)
<1>1. /\ pc' \in [Proc -> PCs] /\ held' \in [Proc -> Lists] /\ todo' \in [Proc -> Lists]
      /\ pc'[p] = label /\ held'[p] = held[p] /\ todo'[p] = todo[p]
  BY Goes DEF IInv
<1>2. CASE p \in Controllers
  BY <1>1, <1>2, Roles DEF IInv, Placed, At, ControllerAt, Has
<1>3. CASE p \in Captures
  BY <1>1, <1>3, Roles DEF IInv, Placed, At, CaptureAt, Has
<1>4. CASE p \in Monitors
  BY <1>1, <1>4, Roles DEF IInv, Placed, At, MonitorAt, Has
<1>5. CASE p \in Recoveries
  BY <1>1, <1>5, Roles DEF IInv, Placed, At, RecoveryAt, Has
<1> QED
  BY <1>2, <1>3, <1>4, <1>5, Roles

\* So is one that runs an incident.
LEMMA IncidentPlaced ==
  ASSUME IInv, NEW p \in Proc, Incident(p)
  PROVE  Placed(p)
<1> USE DEF PCs
<1>1. CASE Foreign(p)
  BY <1>1, RaisePlaced, GotoPlaced DEF Foreign
<1>2. CASE Check(p)
  <2>1. CASE journal # NoOne
    BY <1>2, <2>1, RaisePlaced DEF Check
  <2>2. CASE journal = NoOne
    <3> DEFINE t == IF p \in Controllers THEN CW ELSE C
    <3>1. /\ pc[p] = "check" /\ pc' = [pc EXCEPT ![p] = "acquire"]
          /\ todo' = [todo EXCEPT ![p] = t] /\ held' = held
      BY <1>2, <2>2, Names DEF Check, Goto
    <3>2. /\ pc' \in [Proc -> PCs] /\ held' \in [Proc -> Lists] /\ todo' \in [Proc -> Lists]
          /\ pc'[p] = "acquire" /\ held'[p] = held[p] /\ todo'[p] = t
      BY <3>1, ListMembers DEF IInv, Typed
    <3> QED
      BY <3>1, <3>2, Roles
         DEF IInv, Placed, At, ControllerAt, CaptureAt, MonitorAt, RecoveryAt, Has
  <2> QED
    BY <2>1, <2>2
<1>3. CASE Allowed(p) \/ Inject(p)
  BY <1>3, GotoPlaced DEF Allowed, Inject
<1>4. CASE LabFailed(p)
  BY <1>4, RaisePlaced DEF LabFailed
<1>5. CASE Heal(p)
  BY <1>5, RaisePlaced, GotoPlaced DEF Heal
<1>6. CASE Stuck(p)
  BY <1>6, RaisePlaced DEF Stuck
<1>7. CASE Unwound(p)
  <2>1. pc[p] = "unwind" /\ Goto(p, "served") /\ held' = held /\ todo' = todo /\ Len(held[p]) <= Base(p)
    BY <1>7 DEF Unwound
  <2>2. /\ pc' \in [Proc -> PCs] /\ held' \in [Proc -> Lists] /\ todo' \in [Proc -> Lists]
        /\ pc'[p] = "served" /\ held'[p] = held[p] /\ todo'[p] = todo[p]
    BY <2>1, Goes DEF IInv
  <2>3. CASE p \in Controllers
    <3>1. Len(SC) > Base(p) /\ Len(SCW) > Base(p)
      BY <2>3, Lengths DEF Base
    <3>2. ControllerAt(p)
      BY <2>3 DEF IInv, At
    <3>3. held[p] # SC /\ held[p] # SCW
      <4>1. \A n \in Nat : n > Base(p) => ~(n <= Base(p))
        BY DEF Base
      <4>2. Len(SC) \in Nat /\ Len(SCW) \in Nat
        BY Lengths
      <4> QED
        BY <2>1, <3>1, <4>1, <4>2
    <3>4. Has(p, S, None)
      BY <2>1, <3>2, <3>3 DEF ControllerAt, Has
    <3> QED
      BY <2>2, <2>3, <3>4, Roles DEF Placed, At, ControllerAt, Has
  <2>4. CASE p \in Captures
    <3>1. Len(C) > Base(p)
      BY <2>4, Roles, Lengths DEF Base
    <3>2. CaptureAt(p)
      BY <2>4 DEF IInv, At
    <3>3. held[p] # C
      <4>1. \A n \in Nat : n > Base(p) => ~(n <= Base(p))
        BY DEF Base
      <4>2. Len(C) \in Nat
        BY Lengths
      <4> QED
        BY <2>1, <3>1, <4>1, <4>2
    <3>4. Has(p, None, None)
      BY <2>1, <3>2, <3>3 DEF CaptureAt, Has
    <3> QED
      BY <2>2, <2>4, <3>4, Roles DEF Placed, At, CaptureAt, Has
  <2>5. p \notin Monitors /\ p \notin Recoveries
    BY <2>1, Roles DEF IInv, At, MonitorAt, RecoveryAt
  <2> QED
    BY <2>3, <2>4, <2>5, Roles
<1>8. CASE Served(p)
  <2>1. /\ pc[p] = "served" /\ held' = held /\ todo' = todo
        /\ \/ p \in Controllers /\ Goto(p, "idle")
           \/ p \notin Controllers /\ Goto(p, "check")
           \/ Goto(p, "leave")
    BY <1>8 DEF Served
  <2> QED
    BY <2>1, GotoPlaced
<1> QED
  BY <1>1, <1>2, <1>3, <1>4, <1>5, <1>6, <1>7, <1>8 DEF Incident

\* So is one that recovers the lab.
LEMMA RecoveryPlaced ==
  ASSUME IInv, NEW p \in Proc, Recovery(p)
  PROVE  Placed(p)
<1>1. CASE Recovered(p) \/ NotRecovered(p)
  BY <1>1, GotoPlaced DEF Recovered, NotRecovered, PCs
<1>2. CASE Inspect(p) \/ Remove(p) \/ GateCheck(p)
  <2>1. pc[p] \in {"inspect", "remove"} /\ held' = held
    BY <1>2 DEF Inspect, Remove, GateCheck
  <2>2. p \in Recoveries /\ RecoveryAt(p)
    BY <2>1, Roles DEF IInv, At, ControllerAt, CaptureAt, MonitorAt
  <2>3. \E label \in {"inspect", "remove", "acquire", "leave"} :
        \E t \in {todo[p], Tail(todo[p]), None, HC} :
          /\ pc' = [pc EXCEPT ![p] = label] /\ todo' = [todo EXCEPT ![p] = t]
          /\ \/ label = "inspect" /\ todo[p] # None /\ t = Tail(todo[p])
             \/ label = "remove" /\ todo[p] # None /\ t = todo[p]
             \/ label = "leave" /\ t = None
             \/ label = "acquire" /\ t = HC
    <3>1. CASE Inspect(p)
      <4>1. pc = [pc EXCEPT ![p] = "inspect"] /\ todo = [todo EXCEPT ![p] = todo[p]]
        BY <3>1 DEF Inspect, IInv, Typed
      <4> QED
        BY <3>1, <4>1, Names DEF Inspect, Goto
    <3>2. CASE Remove(p)
      <4>1. todo[p] # None
        BY <2>2, <3>2, DifferentLists DEF Remove, RecoveryAt, Has
      <4> QED
        BY <3>2, <4>1, Names DEF Remove, Goto
    <3>3. CASE GateCheck(p)
      <4>1. todo = [todo EXCEPT ![p] = todo[p]] /\ todo[p] = None
        BY <3>3, Names DEF GateCheck, IInv, Typed
      <4> QED
        BY <3>3, <4>1, Names DEF GateCheck, Goto
    <3> QED
      BY <1>2, <3>1, <3>2, <3>3
  <2>4. PICK label \in {"inspect", "remove", "acquire", "leave"} :
        \E t \in {todo[p], Tail(todo[p]), None, HC} :
          /\ pc' = [pc EXCEPT ![p] = label] /\ todo' = [todo EXCEPT ![p] = t]
          /\ \/ label = "inspect" /\ todo[p] # None /\ t = Tail(todo[p])
             \/ label = "remove" /\ todo[p] # None /\ t = todo[p]
             \/ label = "leave" /\ t = None
             \/ label = "acquire" /\ t = HC
    BY <2>3
  <2>5. PICK t \in {todo[p], Tail(todo[p]), None, HC} :
          /\ pc' = [pc EXCEPT ![p] = label] /\ todo' = [todo EXCEPT ![p] = t]
          /\ \/ label = "inspect" /\ todo[p] # None /\ t = Tail(todo[p])
             \/ label = "remove" /\ todo[p] # None /\ t = todo[p]
             \/ label = "leave" /\ t = None
             \/ label = "acquire" /\ t = HC
    BY <2>4
  <2>6. /\ label = "inspect" => t \in {CW, W, None}
        /\ label = "remove" => t \in {SCW, CW, W}
        /\ label = "leave" => t = None
        /\ label = "acquire" => t = HC
    BY <2>1, <2>2, <2>5, HeadsAndTails, DifferentLists DEF RecoveryAt, Has
  <2>7. label \in PCs /\ t \in Lists
    BY <2>6, ListMembers DEF PCs
  <2>8. /\ pc' \in [Proc -> PCs] /\ held' \in [Proc -> Lists] /\ todo' \in [Proc -> Lists]
        /\ pc'[p] = label /\ held'[p] = held[p] /\ todo'[p] = t
    BY <2>1, <2>5, <2>7 DEF IInv, Typed
  <2>9. held[p] = None
    BY <2>1, <2>2 DEF RecoveryAt, Has
  <2> QED
    BY <2>2, <2>6, <2>8, <2>9, Roles DEF Placed, At, RecoveryAt, Has
<1> QED
  BY <1>1, <1>2 DEF Recovery

\* So is one that dies.
LEMMA DiePlaced ==
  ASSUME IInv, NEW p \in Proc, Die(p)
  PROVE  Placed(p)
<1>1. /\ pc' = [pc EXCEPT ![p] = "gone"] /\ todo' = [todo EXCEPT ![p] = None]
      /\ held' = [held EXCEPT ![p] = None]
  BY Names DEF Die, Goto
<1>2. /\ pc' \in [Proc -> PCs] /\ held' \in [Proc -> Lists] /\ todo' \in [Proc -> Lists]
      /\ pc'[p] = "gone" /\ held'[p] = None /\ todo'[p] = None
  BY <1>1, ListMembers DEF IInv, Typed, PCs
<1> QED
  BY <1>2 DEF Placed, At, ControllerAt, CaptureAt, MonitorAt, RecoveryAt, Has

\* Every step leaves its process where it should be, with the lists it should have.
LEMMA StepPlaced ==
  ASSUME IInv, NEW p \in Proc, Start(p) \/ Request(p) \/ Step(p) \/ Die(p)
  PROVE  Placed(p)
<1>1. CASE Request(p)
  BY <1>1, GotoPlaced DEF Request, PCs
<1>2. CASE Stop(p)
  BY <1>2, GotoPlaced DEF Stop, PCs
<1> QED
  BY <1>1, <1>2, StartPlaced, FilesPlaced, IncidentPlaced, RecoveryPlaced, DiePlaced DEF Step

-----------------------------------------------------------------------------
(* What a step does to the locks and the journal.                          *)

Moves(p) == Start(p) \/ Request(p) \/ Step(p) \/ Die(p)

\* Four steps touch the lock files; no other step adds to what a process holds.
LEMMA LockEffect ==
  ASSUME NEW p \in Proc, Moves(p), Typed
  PROVE  \/ Create(p) \/ Write(p) \/ Release(p) \/ Remove(p)
         \/ lock' = lock /\ pc'[p] # "write" /\ held'[p] \in {held[p], None}
<1> USE DEF Typed, Goto, Raise
<1>1. CASE Start(p)
  <2>1. StartsAt(p) # "write"
    BY DEF StartsAt
  <2> QED
    BY <1>1, <2>1 DEF Start
<1>2. CASE Request(p) \/ Stop(p) \/ Die(p)
  BY <1>2, Names DEF Request, Stop, Die
<1>3. CASE Files(p)
  <2>1. Goal(p) # "write"
    BY DEF Goal
  <2> QED
    BY <1>3, <2>1 DEF Files, CreateRefused, Acquired, Exit
<1>4. CASE Incident(p)
  BY <1>4 DEF Incident, Foreign, Check, Allowed, Inject, LabFailed, Heal, Stuck, Unwound, Served
<1>5. CASE Recovery(p)
  BY <1>5 DEF Recovery, Inspect, GateCheck, Recovered, NotRecovered
<1> QED
  BY <1>1, <1>2, <1>3, <1>4, <1>5 DEF Moves, Step

\* Only a start makes a process run, and no process goes back to before its start.
LEMMA LifeEffect ==
  ASSUME NEW p \in Proc, Moves(p), Typed
  PROVE  (Start(p) \/ Alive(p)) /\ pc'[p] # "off"
<1> USE DEF Typed, Goto, Raise, Alive
<1>1. CASE Start(p)
  <2>1. StartsAt(p) # "off"
    BY DEF StartsAt
  <2> QED
    BY <1>1, <2>1 DEF Start
<1>2. CASE Request(p) \/ Stop(p) \/ Die(p)
  BY <1>2 DEF Request, Stop, Die
<1>3. CASE Files(p)
  <2>1. Goal(p) # "off"
    BY DEF Goal
  <2> QED
    BY <1>3, <2>1 DEF Files, Create, CreateRefused, Write, Acquired, Release, Exit
<1>4. CASE Incident(p)
  BY <1>4 DEF Incident, Foreign, Check, Allowed, Inject, LabFailed, Heal, Stuck, Unwound, Served
<1>5. CASE Recovery(p)
  BY <1>5 DEF Recovery, Inspect, Remove, GateCheck, Recovered, NotRecovered
<1> QED
  BY <1>1, <1>2, <1>3, <1>4, <1>5 DEF Moves, Step

\* The journal changes hands only by a process in the lab.
LEMMA JournalEffect ==
  ASSUME NEW p \in Proc, Moves(p), Typed
  PROVE  /\ \/ journal' = journal /\ pc'[p] # "fault"
            \/ pc[p] \in {"lab", "fault"} /\ journal = NoOne /\ journal' = p /\ pc'[p] # "fault"
            \/ pc[p] = "inject" /\ journal' = p
            \/ pc[p] \in {"fault", "restore"} /\ journal' = NoOne /\ pc'[p] # "fault"
         /\ pc'[p] = "inject" => pc[p] = "lab" /\ journal = NoOne /\ journal' = journal
<1> USE DEF Typed, Goto, Raise
<1>1. CASE Start(p)
  <2>1. StartsAt(p) \notin {"fault", "inject"}
    BY DEF StartsAt
  <2> QED
    BY <1>1, <2>1 DEF Start
<1>2. CASE Request(p) \/ Stop(p) \/ Die(p)
  BY <1>2 DEF Request, Stop, Die
<1>3. CASE Files(p)
  <2>1. Goal(p) \notin {"fault", "inject"}
    BY DEF Goal
  <2> QED
    BY <1>3, <2>1 DEF Files, Create, CreateRefused, Write, Acquired, Release, Exit
<1>4. CASE Incident(p)
  BY <1>4 DEF Incident, Foreign, Check, Allowed, Inject, LabFailed, Heal, Stuck, Unwound, Served
<1>5. CASE Recovery(p)
  BY <1>5 DEF Recovery, Inspect, Remove, GateCheck, Recovered, NotRecovered
<1> QED
  BY <1>1, <1>2, <1>3, <1>4, <1>5 DEF Moves, Step

\* The history only grows: a step that is not a removal undercuts nobody, and only
\* a start adds to the commands on record.
LEMMA HistoryEffect ==
  ASSUME NEW p \in Proc, Moves(p), Typed
  PROVE  /\ undercut => undercut'
         /\ Start(p) \/ raced' = raced
         /\ undercut' => undercut \/ (Remove(p) /\ Undercuts(p))
         /\ raced' \subseteq Recoveries /\ undercut' \in BOOLEAN
<1> USE DEF Typed, hist
<1>1. CASE Start(p)
  BY <1>1 DEF Start, Others
<1>2. CASE Request(p) \/ Stop(p) \/ Die(p)
  BY <1>2 DEF Request, Stop, Die
<1>3. CASE Files(p)
  BY <1>3 DEF Files, Create, CreateRefused, Write, Acquired, Release, Exit
<1>4. CASE Incident(p)
  BY <1>4 DEF Incident, Foreign, Check, Allowed, Inject, LabFailed, Heal, Stuck, Unwound, Served
<1>5. CASE Remove(p)
  <2>1. undercut' = (undercut \/ Undercuts(p)) /\ raced' = raced
    BY <1>5 DEF Remove
  <2>2. Undercuts(p) \in BOOLEAN
    BY DEF Undercuts
  <2> QED
    BY <1>5, <2>1, <2>2
<1>6. CASE Inspect(p) \/ GateCheck(p) \/ Recovered(p) \/ NotRecovered(p)
  BY <1>6 DEF Inspect, GateCheck, Recovered, NotRecovered
<1> QED
  BY <1>1, <1>2, <1>3, <1>4, <1>5, <1>6 DEF Moves, Step, Recovery

\* Where the steps that touch a lock file are, and which file it is.
LEMMA TouchedFile ==
  ASSUME IInv, NEW p \in Proc
  PROVE  /\ Create(p) \/ Write(p) \/ Remove(p) => Head(todo[p]) \in File
         /\ Release(p) =>
              /\ Len(held[p]) \in 1..Len(held[p]) /\ held[p][Len(held[p])] \in File
              /\ Sound => Owns(p, held[p][Len(held[p])])
<1>1. ASSUME Create(p) \/ Write(p) \/ Remove(p) PROVE todo[p] # None
  BY <1>1, Names, Roles, DifferentLists
     DEF IInv, At, ControllerAt, CaptureAt, MonitorAt, RecoveryAt, Has, Create, Write, Remove
<1>2. \A s \in Lists : s # None => Head(s) \in File
  <2>1. Head(H) \in File /\ Head(SC) \in File
    BY DEF H, SC, File
  <2> QED
    BY <2>1, HeadsAndTails, FileNames DEF Lists
<1>3. ASSUME Release(p) PROVE held[p] # None
  <2>1. CASE pc[p] = "leave"
    BY <1>3, <2>1, Names DEF Release
  <2>2. CASE pc[p] = "unwind"
    <3>1. Len(held[p]) > Base(p)
      BY <1>3, <2>2 DEF Release
    <3>2. ~(Len(None) > Base(p))
      BY Lengths DEF Base
    <3> QED
      BY <3>1, <3>2
  <2> QED
    BY <1>3, <2>1, <2>2 DEF Release
<1>4. \A s \in Lists : s # None => Len(s) \in 1..Len(s) /\ s[Len(s)] \in File
  BY Lengths, Elements, FileNames DEF Lists
<1> QED
  BY <1>1, <1>2, <1>3, <1>4 DEF IInv, Typed, Sound, LocksAreHeld, Owns

\* Nobody but its maker takes away the lock file of a process that runs, unless
\* the step undercuts it.
LEMMA OwnershipKept ==
  ASSUME IInv, Sound, ~undercut', NEW p \in Proc, Moves(p), NEW q \in Proc, Alive(q), NEW f \in File, Owns(q, f),
         Release(p) /\ q = p => f # held[p][Len(held[p])]
  PROVE  lock'[f] # Absent /\ lock'[f].by = q
<1> USE DEF Owns
<1>1. CASE lock' = lock
  BY <1>1
<1>2. CASE Create(p)
  BY <1>2, TouchedFile DEF Create, IInv, Typed
<1>3. CASE Write(p)
  <2> DEFINE g == Head(todo[p])
             written == [lock[g] EXCEPT !.written = TRUE]
  <2>1. lock' = lock \/ lock' = [lock EXCEPT ![g] = written]
    BY <1>3 DEF Write
  <2>2. CASE lock[g] \in Lock
    <3>1. written \in Lock /\ written.by = lock[g].by
      BY <2>2 DEF Lock
    <3>2. written # Absent
      BY <3>1, OwnershipAssumption
    <3> HIDE DEF written
    <3> QED
      BY <1>3, <2>1, <3>1, <3>2, TouchedFile DEF IInv, Typed
  <2>3. CASE lock[g] = Absent
    BY <1>3, <2>3 DEF Write
  <2> QED
    BY <1>3, <2>2, <2>3, TouchedFile DEF IInv, Typed
<1>4. CASE Release(p)
  <2>1. f # held[p][Len(held[p])]
    BY <1>4, TouchedFile
  <2> QED
    BY <1>4, <2>1, TouchedFile DEF Release, IInv, Typed
<1>5. CASE Remove(p)
  <2>1. ~Undercuts(p)
    BY <1>5 DEF Remove
  <2>2. f # Head(todo[p])
    BY <2>1 DEF Undercuts
  <2> QED
    BY <1>5, <2>2, TouchedFile DEF Remove, IInv, Typed
<1> QED
  BY <1>1, <1>2, <1>3, <1>4, <1>5, LockEffect DEF IInv

-----------------------------------------------------------------------------
(* The invariant is kept, one part at a time.                              *)

\* The types of the lock files.
LEMMA LockTyped ==
  ASSUME IInv, NEW p \in Proc, Moves(p)
  PROVE  lock' \in [File -> Lock \cup {Absent}]
<1> USE DEF IInv, Typed
<1>1. CASE lock' = lock
  BY <1>1
<1>2. CASE Create(p)
  <2>1. [by |-> p, written |-> FALSE] \in Lock
    BY DEF Lock
  <2> QED
    BY <1>2, <2>1, TouchedFile DEF Create
<1>3. CASE Write(p)
  <2> DEFINE g == Head(todo[p])
             written == [lock[g] EXCEPT !.written = TRUE]
  <2>1. lock[g] \in Lock => written \in Lock
    BY DEF Lock
  <2>2. lock' = lock \/ lock' = [lock EXCEPT ![g] = written]
    BY <1>3 DEF Write
  <2>3. g \in File /\ (lock' = lock \/ lock[g] # Absent)
    BY <1>3, TouchedFile DEF Write
  <2> HIDE DEF written, g
  <2> QED
    BY <2>1, <2>2, <2>3
<1>4. CASE Release(p) \/ Remove(p)
  BY <1>4 DEF Release, Remove
<1> QED
  BY <1>1, <1>2, <1>3, <1>4, LockEffect

\* The types of the flags.
LEMMA FlagsTyped ==
  ASSUME IInv, NEW p \in Proc, Moves(p)
  PROVE  failed' \in [Proc -> BOOLEAN] /\ deaths' \in 0..MaxDeaths
<1> USE DEF IInv, Typed, Goto, Raise
<1>1. CASE Start(p) \/ Request(p) \/ Stop(p)
  BY <1>1 DEF Start, Request, Stop
<1>2. CASE Die(p)
  BY <1>2, OwnershipAssumption DEF Die
<1>3. CASE Files(p)
  BY <1>3 DEF Files, Create, CreateRefused, Write, Acquired, Release, Exit
<1>4. CASE Incident(p)
  BY <1>4 DEF Incident, Foreign, Check, Allowed, Inject, LabFailed, Heal, Stuck, Unwound, Served
<1>5. CASE Recovery(p)
  BY <1>5 DEF Recovery, Inspect, Remove, GateCheck, Recovered, NotRecovered
<1> QED
  BY <1>1, <1>2, <1>3, <1>4, <1>5 DEF Moves, Step

\* All processes stay at places the invariant allows.
LEMMA PlacesKept ==
  ASSUME IInv, NEW p \in Proc, Moves(p)
  PROVE  Typed' /\ \A q \in Proc : At(q)'
<1>1. Placed(p)
  BY StepPlaced DEF Moves
<1>2. journal' \in Proc \cup {NoOne}
  BY JournalEffect DEF IInv, Typed
<1>3. Typed'
  BY <1>1, <1>2, LockTyped, FlagsTyped, HistoryEffect DEF Placed, Typed, IInv
<1>4. ASSUME NEW q \in Proc \ {p} PROVE At(q)'
  <2>1. pc'[q] = pc[q] /\ held'[q] = held[q] /\ todo'[q] = todo[q]
    BY OthersStay DEF Moves, IInv
  <2>2. At(q)
    BY DEF IInv
  <2> QED
    BY <2>1, <2>2 DEF At, ControllerAt, CaptureAt, MonitorAt, RecoveryAt, Has
<1> QED
  BY <1>1, <1>3, <1>4 DEF Placed

\* Only a start makes a process alive.
LEMMA LivesKept ==
  ASSUME IInv, NEW p \in Proc, Moves(p), NEW q \in Proc, Alive(q)', ~Alive(q)
  PROVE  q = p /\ Start(p)
<1>1. q = p
  BY OthersStay DEF Moves, IInv, Alive
<1> QED
  BY <1>1, LifeEffect DEF IInv

\* Recovery commands that run at once stay on record.
LEMMA BesideKept ==
  ASSUME IInv, NEW p \in Proc, Moves(p)
  PROVE  Beside'
<1> SUFFICES ASSUME NEW q \in Recoveries, NEW r \in Recoveries, Alive(q)', Alive(r)', q # r
             PROVE  q \in raced'
  BY DEF Beside
<1>1. q \in Proc /\ r \in Proc
  BY DEF Proc
<1>2. CASE Start(p) /\ p \in Recoveries
  <2>1. q # p => Alive(q)
    BY <1>1, LivesKept
  <2>2. r # p => Alive(r)
    BY <1>1, LivesKept
  <2>3. CASE p \in {q, r}
    <3>1. Others(p) # {} /\ q \in Others(p) \cup {p}
      BY <2>1, <2>2, <2>3 DEF Others
    <3> QED
      BY <1>2, <3>1 DEF Start
  <2>4. CASE p \notin {q, r}
    <3>1. q \in raced /\ q # p
      BY <2>1, <2>2, <2>4 DEF IInv, Beside
    <3> QED
      BY <1>2, <3>1 DEF Start
  <2> QED
    BY <2>3, <2>4
<1>3. CASE ~(Start(p) /\ p \in Recoveries)
  <2>1. Alive(q) /\ Alive(r)
    BY <1>1, <1>3, LivesKept
  <2>2. raced' = raced
    BY <1>3, HistoryEffect DEF Start, IInv
  <2> QED
    BY <2>1, <2>2 DEF IInv, Beside
<1> QED
  BY <1>2, <1>3

\* A process that holds a file runs, and so does one that writes or removes one.
LEMMA BusyIsAlive ==
  ASSUME IInv, NEW q \in Proc
  PROVE  /\ held[q] # None => Alive(q)
         /\ pc[q] \in {"write", "remove", "leave", "unwind"} => Alive(q)
BY Roles DEF IInv, At, ControllerAt, CaptureAt, MonitorAt, RecoveryAt, Has, Alive

\* A process has the lock files that it holds.
LEMMA LocksKept ==
  ASSUME IInv, Sound, ~undercut', NEW p \in Proc, Moves(p)
  PROVE  LocksAreHeld'
<1> SUFFICES ASSUME NEW q \in Proc, NEW k \in 1..Len(held'[q])
             PROVE  lock'[held'[q][k]] # Absent /\ lock'[held'[q][k]].by = q
  BY DEF LocksAreHeld
<1>1. ASSUME NEW j \in 1..Len(held[q])
      PROVE  Owns(q, held[q][j]) /\ held[q] # None /\ held[q][j] \in File
  <2>1. held[q] # None
    BY Lengths
  <2>2. held[q] \in Seq(File)
    BY ListsAreLists DEF IInv, Typed
  <2> QED
    BY <2>1, <2>2 DEF Sound, LocksAreHeld, Owns
<1>2. CASE held'[q] = held[q] /\ ~(Release(p) /\ q = p)
  BY <1>1, <1>2, OwnershipKept, BusyIsAlive
<1>3. CASE held'[q] = None
  BY <1>3, Lengths
<1>4. CASE q = p /\ Release(p)
  <2> DEFINE n == Len(held[p])
  <2>1. held[p] \in Lists /\ n \in 1..n /\ n \in Nat
    BY <1>4, TouchedFile, ListsAreLists DEF IInv, Typed
  <2>2. held'[p] = SubSeq(held[p], 1, n - 1)
    BY <1>4 DEF Release, IInv, Typed
  <2>3. Len(held'[p]) = n - 1 /\ \A j \in 1..(n - 1) : held'[p][j] = held[p][j]
    <3>1. \A j \in 1..(n - 1) : held[p][j] \in File
      BY <2>1, ListsAreLists
    <3> QED
      BY <2>1, <2>2, <3>1, SubSeqProperties
  <2>4. k \in 1..(n - 1) /\ k # n /\ k \in 1..n /\ held'[q][k] = held[q][k]
    BY <1>4, <2>1, <2>3
  <2>5. held[p][k] # held[p][n]
    BY <2>1, <2>4, DistinctFiles DEF Distinct
  <2> QED
    BY <1>1, <1>4, <2>4, <2>5, OwnershipKept, BusyIsAlive
<1>5. CASE q = p /\ Write(p)
  <2> DEFINE f == Head(todo[p])
  <2>1. Owns(p, f) /\ f \in File /\ Alive(p) /\ ~Release(p)
    BY <1>5, TouchedFile, BusyIsAlive DEF Write, Release, Sound, Pending
  <2>2. lock'[f] # Absent /\ lock'[f].by = p
    BY <2>1, OwnershipKept
  <2>3. held[p] \in Seq(File) /\ held'[p] = Append(held[p], f)
    BY <1>5, ListsAreLists DEF Write, IInv, Typed
  <2>4. CASE k \in 1..Len(held[p])
    <3>1. held'[p][k] = held[p][k]
      BY <2>1, <2>3, <2>4
    <3> QED
      BY <1>1, <1>5, <2>1, <2>4, <3>1, OwnershipKept
  <2>5. CASE k = Len(held[p]) + 1
    BY <1>5, <2>1, <2>2, <2>3, <2>5
  <2>6. Len(held'[p]) = Len(held[p]) + 1 /\ Len(held[p]) \in Nat
    BY <2>1, <2>3
  <2> QED
    BY <1>5, <2>4, <2>5, <2>6
<1>6. Write(p) \/ Release(p) \/ held'[q] \in {held[q], None}
  <2>1. q # p => held'[q] = held[q]
    BY OthersStay DEF Moves, IInv
  <2>2. Create(p) \/ Remove(p) => held' = held
    BY DEF Create, Remove
  <2> QED
    BY <2>1, <2>2, LockEffect DEF IInv
<1>7. q # p => held'[q] = held[q]
  BY OthersStay DEF Moves, IInv
<1> QED
  BY <1>2, <1>3, <1>4, <1>5, <1>6, <1>7

\* A lock file that is created and not written yet is its creator's.
LEMMA PendingKept ==
  ASSUME IInv, Sound, ~undercut', NEW p \in Proc, Moves(p)
  PROVE  Pending'
<1> SUFFICES ASSUME NEW q \in Proc, pc'[q] = "write"
             PROVE  lock'[Head(todo'[q])] # Absent /\ lock'[Head(todo'[q])].by = q
  BY DEF Pending, Owns
<1>1. CASE Create(p) /\ q = p
  <2> DEFINE mine == [by |-> p, written |-> FALSE]
  <2>1. mine # Absent /\ mine.by = p
    <3>1. mine \in Lock
      BY DEF Lock
    <3> QED
      BY <3>1, OwnershipAssumption
  <2>2. lock' = [lock EXCEPT ![Head(todo[p])] = mine] /\ todo' = todo
    BY <1>1 DEF Create
  <2> HIDE DEF mine
  <2> QED
    BY <1>1, <2>1, <2>2, TouchedFile DEF IInv, Typed
<1>2. CASE q = p /\ ~Create(p)
  <2>1. Write(p) => pc'[p] = "acquire"
    BY DEF Write, Goto, IInv, Typed
  <2>2. Release(p) => pc'[p] \in {"leave", "unwind"}
    BY DEF Release
  <2>3. Remove(p) => pc'[p] \in {"leave", "inspect"}
    BY DEF Remove, Goto, IInv, Typed
  <2> QED
    BY <1>2, <2>1, <2>2, <2>3, LockEffect DEF IInv
<1>3. CASE q # p
  <2> DEFINE f == Head(todo[q])
  <2>1. pc[q] = "write" /\ todo'[q] = todo[q]
    BY <1>3, OthersStay DEF Moves, IInv
  <2>2. Owns(q, f) /\ Alive(q)
    BY <2>1, BusyIsAlive DEF Sound, Pending
  <2>3. f \in File
    <3>1. todo[q] \in {S, C, W, CW, HC}
      BY <2>1, Roles DEF IInv, At, ControllerAt, CaptureAt, MonitorAt, RecoveryAt, Has
    <3> QED
      BY <3>1, HeadsAndTails, FileNames
  <2> HIDE DEF f
  <2>4. lock'[f] # Absent /\ lock'[f].by = q
    BY <1>3, <2>2, <2>3, OwnershipKept
  <2> QED
    BY <2>1, <2>4 DEF f
<1> QED
  BY <1>1, <1>2, <1>3

\* A pid in a lock file is not given to a new process, so that a lock whose
\* maker is dead stays a dead one's until it is removed.
LEMMA DeadStayDead ==
  ASSUME IInv, NEW p \in Proc, Moves(p), NEW f \in File, lock[f] # Absent, Dead(lock[f].by)
  PROVE  lock[f].by \in Proc /\ pc'[lock[f].by] \in {"off", "gone"}
<1>1. lock[f].by \in Proc
  BY DEF IInv, Typed, Lock
<1>2. ASSUME NEW b \in Proc, b = lock[f].by PROVE pc'[b] \in {"off", "gone"}
  <2> SUFFICES ASSUME Alive(b)' PROVE FALSE
    BY DEF Alive
  <2>1. b = p /\ Start(p)
    BY <1>2, LivesKept DEF Dead
  <2>2. pc[p] # "off"
    BY <1>2, <2>1 DEF IInv, Named
  <2> QED
    BY <1>2, <2>1, <2>2 DEF Start
<1> QED
  BY <1>1, <1>2

\* A lock file that a recovery command is about to remove is still a dead process's
\* while no other such command runs beside it.
LEMMA CondemnedKept ==
  ASSUME IInv, Sound, ~undercut', NEW p \in Proc, Moves(p)
  PROVE  Condemned'
<1> SUFFICES ASSUME NEW q \in Proc, q \notin raced', pc'[q] = "remove"
             PROVE  /\ lock'[Head(todo'[q])] # Absent
                    /\ pc'[lock'[Head(todo'[q])].by] \in {"off", "gone"}
  BY DEF Condemned, Dead, Alive
<1>1. CASE q = p
  <2>1. Inspect(p)
    <3>1. CASE Start(p)
      <4>1. StartsAt(p) # "remove"
        BY DEF StartsAt
      <4> QED
        BY <1>1, <3>1, <4>1 DEF Start, Goto, IInv, Typed
    <3>2. CASE Files(p)
      <4>1. Goal(p) # "remove"
        BY DEF Goal
      <4> QED
        BY <1>1, <3>2, <4>1
           DEF Files, Create, CreateRefused, Write, Acquired, Release, Exit, Raise, Goto, IInv, Typed
    <3>3. ~Request(p) /\ ~Stop(p) /\ ~Die(p) /\ ~Incident(p)
      BY <1>1 DEF Request, Stop, Die, Incident, Foreign, Check, Allowed, Inject, LabFailed, Heal, Stuck,
         Unwound, Served, Raise, Goto, IInv, Typed
    <3> QED
      BY <1>1, <3>1, <3>2, <3>3
         DEF Moves, Step, Recovery, Remove, GateCheck, Recovered, NotRecovered, Goto, IInv, Typed
  <2> DEFINE f == Head(todo[p])
  <2>2. lock' = lock /\ lock[f] # Absent /\ Dead(lock[f].by) /\ todo' = todo
    BY <1>1, <2>1 DEF Inspect, Goto, IInv, Typed
  <2>3. f \in File
    <3>1. todo[p] # None
      BY <2>1, Names DEF Inspect
    <3>2. todo[p] \in {SCW, CW, W}
      BY <2>1, <3>1, Roles
         DEF Inspect, IInv, At, ControllerAt, CaptureAt, MonitorAt, RecoveryAt, Has
    <3> QED
      BY <3>2, HeadsAndTails, FileNames
  <2> HIDE DEF f
  <2>4. pc'[lock[f].by] \in {"off", "gone"}
    BY <2>2, <2>3, DeadStayDead
  <2> QED
    BY <1>1, <2>2, <2>4 DEF f
<1>2. CASE q # p
  <2> DEFINE f == Head(todo[q])
  <2>1. pc[q] = "remove" /\ todo'[q] = todo[q]
    BY <1>2, OthersStay DEF Moves, IInv
  <2>3. q \in Recoveries /\ todo[q] \in {SCW, CW, W}
    BY <2>1, Roles DEF IInv, At, ControllerAt, CaptureAt, MonitorAt, RecoveryAt, Has
  <2>7. q \notin raced
    <3>1. CASE Start(p)
      BY <1>2, <3>1 DEF Start
    <3>2. CASE raced' = raced
      BY <3>2
    <3> QED
      BY <3>1, <3>2, HistoryEffect DEF IInv
  <2>2. lock[f] # Absent /\ Dead(lock[f].by)
    BY <2>1, <2>7 DEF Sound, Condemned
  <2>4. f \in File
    BY <2>3, HeadsAndTails, FileNames
  <2> HIDE DEF f
  <2>5. pc'[lock[f].by] \in {"off", "gone"}
    BY <2>2, <2>4, DeadStayDead
  <2>6. lock'[f] # Absent /\ lock'[f].by = lock[f].by
    <3>1. CASE lock' = lock
      BY <2>2, <3>1
    <3>2. CASE Create(p)
      BY <2>2, <2>4, <3>2, TouchedFile DEF Create, IInv, Typed
    <3>3. CASE Write(p)
      <4>1. Owns(p, Head(todo[p])) /\ Alive(p)
        BY <3>3, BusyIsAlive DEF Write, Sound, Pending
      <4>2. Head(todo[p]) # f
        BY <2>2, <4>1 DEF Owns, Dead
      <4>3. lock'[f] = lock[f]
        BY <2>4, <3>3, <4>2 DEF Write, IInv, Typed
      <4> QED
        BY <2>2, <4>3
    <3>4. CASE Release(p)
      <4>1. Owns(p, held[p][Len(held[p])]) /\ Alive(p)
        BY <3>4, TouchedFile, BusyIsAlive DEF Release
      <4>2. held[p][Len(held[p])] # f
        BY <2>2, <4>1 DEF Owns, Dead
      <4>3. lock'[f] = lock[f]
        BY <2>4, <3>4, <4>2 DEF Release, IInv, Typed
      <4> QED
        BY <2>2, <4>3
    <3>5. ~Remove(p)
      <4>1. SUFFICES ASSUME Remove(p) PROVE FALSE
        OBVIOUS
      <4>2. p \in Recoveries
        BY <4>1, Roles DEF Remove, IInv, At, ControllerAt, CaptureAt, MonitorAt
      <4>3. Alive(p) /\ Alive(q)
        BY <2>1, <4>1 DEF Remove, Alive
      <4> QED
        BY <1>2, <2>3, <2>7, <4>2, <4>3 DEF IInv, Beside
    <3> QED
      BY <3>1, <3>2, <3>3, <3>4, <3>5, LockEffect DEF IInv
  <2> QED
    BY <2>1, <2>5, <2>6 DEF f
<1> QED
  BY <1>1, <1>2

\* The owner of a lock file has started.
LEMMA NamedKept ==
  ASSUME IInv, NEW p \in Proc, Moves(p)
  PROVE  Named'
<1> SUFFICES ASSUME NEW f \in File, lock'[f] # Absent PROVE pc'[lock'[f].by] # "off"
  BY DEF Named
<1>1. ASSUME NEW q \in Proc, pc[q] # "off" PROVE pc'[q] # "off"
  BY <1>1, OthersStay, LifeEffect DEF Moves, IInv
<1>2. ASSUME lock[f] # Absent PROVE lock[f].by \in Proc /\ pc[lock[f].by] # "off"
  BY <1>2 DEF IInv, Named, Typed, Lock
<1>3. lock'[f] = lock[f] \/ lock'[f].by = p \/ (lock[f] # Absent /\ lock'[f].by = lock[f].by)
  <2>1. CASE lock' = lock
    BY <2>1
  <2>2. CASE Create(p)
    BY <2>2, TouchedFile DEF Create, IInv, Typed
  <2>3. CASE Write(p)
    <3> DEFINE g == Head(todo[p])
           written == [lock[g] EXCEPT !.written = TRUE]
    <3>1. lock' = lock \/ (lock[g] # Absent /\ lock' = [lock EXCEPT ![g] = written])
      BY <2>3 DEF Write
    <3>2. g \in File
      BY <2>3, TouchedFile
    <3>3. lock[g] \in Lock => written.by = lock[g].by
      BY DEF Lock
    <3> HIDE DEF written
    <3> QED
      BY <3>1, <3>2, <3>3 DEF IInv, Typed
  <2>4. CASE Release(p)
    BY <2>4, TouchedFile DEF Release, IInv, Typed
  <2>5. CASE Remove(p)
    BY <2>5, TouchedFile DEF Remove, IInv, Typed
  <2> QED
    BY <2>1, <2>2, <2>3, <2>4, <2>5, LockEffect DEF IInv
<1>4. pc'[p] # "off"
  BY LifeEffect DEF IInv
<1> QED
  BY <1>1, <1>2, <1>3, <1>4

\* Whoever drives the lab holds capture.lock, which names one process.
LEMMA OwnerIsOne == IInv /\ Sound => OneLabOwner
<1> SUFFICES ASSUME IInv, Sound, NEW p \in Proc, InLab(p) PROVE Owns(p, "capture")
  BY DEF OneLabOwner, Owns
<1>1. held[p] \in {SCW, C, HC}
  BY Roles DEF InLab, IInv, At, ControllerAt, CaptureAt, MonitorAt, RecoveryAt, Has
<1>2. \E k \in 1..Len(held[p]) : held[p][k] = "capture"
  BY <1>1, Lengths, Elements
<1> QED
  BY <1>2 DEF Sound, LocksAreHeld, Owns

\* A fault is injected under the journal of its process.
LEMMA FaultKept ==
  ASSUME IInv, Sound, NEW p \in Proc, Moves(p)
  PROVE  FaultIsJournalled'
<1> SUFFICES ASSUME NEW q \in Proc, pc'[q] = "fault" PROVE journal' = q
  BY DEF FaultIsJournalled
<1>1. CASE q # p
  <2>1. pc[q] = "fault" /\ journal = q
    BY <1>1, OthersStay DEF Moves, IInv, Sound, FaultIsJournalled
  <2>2. pc[p] \notin {"lab", "inject", "fault", "restore"}
    BY <1>1, <2>1, OwnerIsOne DEF OneLabOwner, InLab
  <2> QED
    BY <2>1, <2>2, JournalEffect DEF IInv
<1>2. CASE q = p
  BY <1>2, JournalEffect DEF IInv
<1> QED
  BY <1>1, <1>2

\* Nobody writes a journal between another's look for one and its own.
LEMMA GatedKept ==
  ASSUME IInv, Sound, NEW p \in Proc, Moves(p)
  PROVE  Gated'
<1> SUFFICES ASSUME NEW q \in Proc, pc'[q] = "inject" PROVE journal' = NoOne
  BY DEF Gated
<1>1. CASE q # p
  <2>1. pc[q] = "inject" /\ journal = NoOne
    BY <1>1, OthersStay DEF Moves, IInv, Sound, Gated
  <2>2. pc[p] \notin {"lab", "inject", "fault", "restore"}
    BY <1>1, <2>1, OwnerIsOne DEF OneLabOwner, InLab
  <2> QED
    BY <2>1, <2>2, JournalEffect DEF IInv
<1>2. CASE q = p
  BY <1>2, JournalEffect DEF IInv
<1> QED
  BY <1>1, <1>2

\* Every step keeps the invariant.
LEMMA StepIInv == IInv /\ [Next]_vars => IInv'
<1> SUFFICES ASSUME IInv, [Next]_vars PROVE IInv'
  OBVIOUS
<1>1. CASE UNCHANGED vars
  BY <1>1 DEF vars, hist, IInv, Typed, At, ControllerAt, CaptureAt, MonitorAt, RecoveryAt, Has, Beside,
     Alive, Sound, LocksAreHeld, Pending, Owns, Condemned, Dead, Named, Gated, FaultIsJournalled
<1>2. CASE Next
  <2>1. PICK p \in Proc : Moves(p)
    BY <1>2 DEF Next, Moves
  <2>2. ASSUME ~undercut' PROVE Sound'
    <3>1. Sound
      BY <2>1, <2>2, HistoryEffect DEF IInv
    <3> QED
      BY <2>1, <2>2, <3>1, LocksKept, PendingKept, CondemnedKept, GatedKept, FaultKept DEF Sound
  <2>3. Typed' /\ (\A q \in Proc : At(q)') /\ Beside' /\ Named'
    BY <2>1, PlacesKept, BesideKept, NamedKept
  <2> QED
    BY <2>2, <2>3 DEF IInv
<1> QED
  BY <1>1, <1>2

-----------------------------------------------------------------------------
(* The theorems.                                                           *)

\* What a process holds, is after and may do, wherever it is, in every state.
THEOREM Invariance == Spec => []IInv
BY StepIInv, InitIInv, PTL DEF Spec

\* One process at a time drives the lab, the journal names the one with a fault in
\* it, and nobody's lock goes while its maker works under it, until a recovery
\* command removes the lock of a running process.
THEOREM LabIsGuardedTheorem == Spec => []LabIsGuarded
<1>1. IInv => LabIsGuarded
  BY ListsAreLists, OwnerIsOne DEF IInv, Typed, TypeOK, LabIsGuarded, Sound
<1> QED
  BY <1>1, Invariance, PTL

\* No process replaces a journal; the incident that wrote it or a recovery command
\* removes it, as long as nobody's lock has been removed behind its back.
THEOREM BlockIsKeptTheorem == Spec => BlockIsKept
<1> DEFINE Kept == journal # NoOne /\ journal' # journal =>
                     \/ undercut
                     \/ /\ journal' = NoOne
                        /\ pc[journal] = "fault" \/ \E r \in Recoveries : pc[r] = "restore"
<1>1. IInv /\ [Next]_vars => [Kept]_vars
  <2> SUFFICES ASSUME IInv, Next, journal # NoOne, journal' # journal, ~undercut
               PROVE  /\ journal' = NoOne
                      /\ pc[journal] = "fault" \/ \E r \in Recoveries : pc[r] = "restore"
    BY DEF vars
  <2>1. PICK p \in Proc : Moves(p)
    BY DEF Next, Moves
  <2>2. pc[p] # "inject"
    BY DEF IInv, Sound, Gated
  <2>3. pc[p] \in {"fault", "restore"} /\ journal' = NoOne
    BY <2>1, <2>2, JournalEffect DEF IInv
  <2>4. pc[p] = "fault" => journal = p
    BY DEF IInv, Sound, FaultIsJournalled
  <2>5. pc[p] = "restore" => p \in Recoveries
    BY Roles DEF IInv, At, ControllerAt, CaptureAt, MonitorAt
  <2> QED
    BY <2>3, <2>4, <2>5
<1> QED
  BY <1>1, Invariance, PTL DEF Spec, BlockIsKept

\* The first lock to be taken from a running process is taken by a recovery command
\* that ran beside another one: a single one removes dead processes' locks only.
THEOREM UndercutNeedsTwoTheorem == Spec => UndercutNeedsTwo
<1> DEFINE Blamed == \A f \in File : TakenFromTheLiving(f) =>
                       undercut \/ \E r \in raced : pc[r] = "remove" /\ pc'[r] # pc[r]
<1>1. IInv /\ [Next]_vars => [Blamed]_vars
  <2> SUFFICES ASSUME IInv, Next, NEW f \in File, TakenFromTheLiving(f), ~undercut
               PROVE  \E r \in raced : pc[r] = "remove" /\ pc'[r] # pc[r]
    BY DEF vars
  <2>1. PICK p \in Proc : Moves(p)
    BY DEF Next, Moves
  <2>2. PICK q \in Proc : q = lock[f].by
    BY DEF IInv, Typed, Lock, TakenFromTheLiving
  <2>3. Sound /\ Alive(q) /\ Owns(q, f) /\ lock'[f] = Absent /\ held'[q] = held[q]
    BY <2>2 DEF IInv, TakenFromTheLiving, Owns
  <2>4. ~(Release(p) /\ q = p)
    <3> SUFFICES ASSUME Release(p), q = p PROVE FALSE
      OBVIOUS
    <3> DEFINE n == Len(held[p])
    <3>1. n \in 1..n /\ n \in Nat /\ held[p] \in Seq(File)
      BY TouchedFile, ListsAreLists DEF IInv, Typed
    <3>2. held'[p] = SubSeq(held[p], 1, n - 1)
      BY DEF Release, IInv, Typed
    <3>3. \A j \in 1..(n - 1) : held[p][j] \in File
      BY <3>1
    <3>4. Len(held'[p]) = n - 1
      BY <3>1, <3>2, <3>3, SubSeqProperties
    <3>5. held'[p] # held[p]
      BY <3>1, <3>4
    <3> QED
      BY <2>3, <3>5
  <2>5. Remove(p) /\ Undercuts(p)
    <3>1. undercut'
      BY <2>1, <2>3, <2>4, OwnershipKept
    <3> QED
      BY <2>1, <3>1, HistoryEffect DEF IInv
  <2>6. pc[p] = "remove" /\ pc'[p] # pc[p]
    BY <2>5 DEF Remove, Goto, IInv, Typed
  <2>7. p \in raced
    BY <2>3, <2>5, <2>6 DEF Sound, Condemned, Undercuts, Dead
  <2> QED
    BY <2>6, <2>7
<1> QED
  BY <1>1, Invariance, PTL DEF Spec, UndercutNeedsTwo

================================================================================
