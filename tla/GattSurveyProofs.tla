--------------------------- MODULE GattSurveyProofs ---------------------------
(***************************************************************************)
(* Proofs about one active survey, for any number of devices, any scope and  *)
(* every failure or interruption: the radio it uses is covered by the       *)
(* interlock, and it uses the interlock as InterlockClient says.            *)
(***************************************************************************)
EXTENDS GattSurvey, FiniteSetTheorems, SequenceTheorems, WellFoundedInduction, TLAPS

-----------------------------------------------------------------------------
(* The invariant *)

\* Where no link may be up: none was dialled yet, or the disconnection of the
\* last device was confirmed, in the report or for the survey as a whole.
NoLink ==
  /\ report \in [ok: BOOLEAN, safe: BOOLEAN]
  /\ pc = "disconnecting" => ~report.safe /\ links \subseteq {queue[index]}
  /\ pc \in {"mark", "discover", "snapshot", "authorize", "first", "inspect",
             "connecting"} => links = {}
  /\ pc \in {"persist", "checkpoint"} /\ report.safe => links = {}
  /\ pc = "stop" /\ confirmed => links = {}

\* Where the interlock sees an open session
Working == {"discover", "snapshot", "authorize", "first", "inspect", "connecting",
            "disconnecting", "persist", "checkpoint", "stop"}
Ended == {"release", "latch", "manifest", "done"}

\* A survey that is confirmed has stopped all it started by the time it leaves.
Settled ==
  /\ confirmed \in BOOLEAN
  /\ pc \in {"mark", "discover"} => ~scanning
  /\ pc \in {"mark", "release"} => confirmed
  /\ pc = "latch" => ~confirmed
  /\ pc \in {"release", "manifest", "done"} /\ confirmed => Quiet
  /\ pc \in {"stop", "release", "latch", "manifest"} => ending # "none"
  /\ pc \in {"mark", "discover"} => ending = "none"
  /\ pc \in Working \cup Ended \cup {"mark"}

\* The lease stays until then, or the latch is there.
Covered ==
  /\ pc \notin {"manifest", "done"} => lease /\ ~latch
  /\ SurveyCovered

SurveyInv == NoLink /\ Settled /\ Covered

-----------------------------------------------------------------------------
(* The invariant holds *)

\* The lease has just been acquired and the radio is not in use.
LEMMA InitInv == Init => SurveyInv
  BY DEF Init, SurveyInv, NoLink, Settled, Covered, SurveyCovered, Quiet, Working, Ended

\* Every step of the survey, its devices and its supervisor keeps the invariant.
LEMMA NextInv ==
  ASSUME SurveyInv, [Next]_vars
  PROVE  SurveyInv'
<1> USE DEF SurveyInv, NoLink, Settled, Covered, SurveyCovered, Quiet, Working, Ended,
            request, radio, interlock, progress, evidence, Exit, Abort
<1>1. CASE Mark
  BY <1>1 DEF Mark
<1>2. CASE StartScanner
  BY <1>2 DEF StartScanner
<1>3. CASE Snapshot
  BY <1>3 DEF Snapshot
<1>4. CASE Authorize
  BY <1>4 DEF Authorize
<1>5. CASE FirstCheckpoint
  BY <1>5 DEF FirstCheckpoint
<1>6. CASE BeginInspection
  <2> DEFINE fresh == [ok |-> FALSE, safe |-> TRUE]
  <2>1. fresh \in [ok: BOOLEAN, safe: BOOLEAN] /\ fresh.safe
    OBVIOUS
  <2>2. report' = report \/ report' = fresh
    BY <1>6 DEF BeginInspection
  <2>3. \/ pc' = "stop" /\ ending' # "none" /\ confirmed' \in {FALSE, confirmed}
        \/ pc' \in {"persist", "connecting"} /\ UNCHANGED <<ending, confirmed>>
    BY <1>6 DEF BeginInspection
  <2>4. /\ pc = "inspect"
        /\ UNCHANGED <<links, scanning, lease, latch>>
    BY <1>6 DEF BeginInspection
  <2> HIDE DEF fresh
  <2>5. QED
    BY <2>1, <2>2, <2>3, <2>4
<1>7. CASE ConnectDevice
  BY <1>7 DEF ConnectDevice
<1>8. CASE DisconnectDevice
  <2>1. \/ links' = {} /\ report'.safe
        \/ links' \subseteq links /\ ~report'.safe
    BY <1>8 DEF DisconnectDevice
  <2>2. report' \in [ok: BOOLEAN, safe: BOOLEAN]
    BY <1>8 DEF DisconnectDevice
  <2>3. QED
    BY <1>8, <2>1, <2>2 DEF DisconnectDevice
<1>9. CASE PersistReport
  BY <1>9 DEF PersistReport
<1>10. CASE CheckpointOutcome
  BY <1>10 DEF CheckpointOutcome
<1>11. CASE StopScanner
  <2>1. \/ ~scanning' /\ pc' = "release" /\ confirmed /\ confirmed'
        \/ pc' = "latch" /\ ~confirmed'
    BY <1>11, Zenon DEF StopScanner
  <2>2. QED
    BY <1>11, <2>1 DEF StopScanner
<1>12. CASE ReleaseLease
  BY <1>12 DEF ReleaseLease, Release, OsError
<1>13. CASE LatchUnsafe
  BY <1>13 DEF LatchUnsafe, Latch, OsError
<1>14. CASE WriteManifest
  BY <1>14 DEF WriteManifest
<1>15. CASE Interrupt
  BY <1>15 DEF Interrupt
<1>16. CASE RadioStops
  BY <1>16 DEF RadioStops
<1>17. CASE Expire
  BY <1>17 DEF Expire
<1>18. CASE UNCHANGED vars
  BY <1>18 DEF vars
<1>19. QED
  BY <1>1, <1>2, <1>3, <1>4, <1>5, <1>6, <1>7, <1>8, <1>9, <1>10, <1>11, <1>12, <1>13,
     <1>14, <1>15, <1>16, <1>17, <1>18
  DEF Next, Survey

\* The inductive invariant is one of the specification.
LEMMA Invariance == Spec => []SurveyInv
<1>1. Init => SurveyInv
  BY InitInv
<1>2. SurveyInv /\ [Next]_vars => SurveyInv'
  BY NextInv
<1>3. QED
  BY <1>1, <1>2, PTL DEF Spec

-----------------------------------------------------------------------------
(* What it implies *)

\* Whichever way a survey ends, also when it is interrupted or killed, a link or
\* scanner that may be left keeps the other active tools out.
THEOREM SurveyIsCovered == Spec => []SurveyCovered
<1>1. SurveyInv => SurveyCovered
  BY DEF SurveyInv, Covered
<1>2. QED
  BY Invariance, <1>1, PTL

-----------------------------------------------------------------------------
(* The queue, the reports and the manifest: the second invariant *)

Loop == {"inspect", "connecting", "disconnecting", "persist", "checkpoint"}
Preparing == {"mark", "discover", "snapshot", "authorize", "first"}
Leaving == {"stop", "release", "latch", "manifest"}
Reports == [ok: BOOLEAN, safe: BOOLEAN]

Increasing(s) == \A i, j \in 1..Len(s) : i < j => s[i] < s[j]

\* The queue is in order and within the limit, and each place has its ending.
Places ==
  /\ permitted \in SUBSET Addresses /\ authorized \in SUBSET Addresses
  /\ pc \in Loop \cup Preparing \cup Leaving \cup {"done"}
  /\ pc \in Loop \cup Preparing => ending = "none"
  /\ ending \in {"none", "failed", "refused", "aborted", "finished"}
  /\ pc \in Leaving => ending # "none"
  /\ ending = "failed" => pc \in {"latch", "done"}
  /\ state \in {"active", "clear", "recovery_required", "uncertain"}
  /\ exit \in {Running, 0, 1, 9, 10, 11, 12, 13, 14, 130}
Switches ==
  auth \in BOOLEAN /\ scanning \in BOOLEAN /\ lease \in BOOLEAN /\ latch \in BOOLEAN
Queued ==
  /\ queue \in Seq(permitted) /\ Increasing(queue) /\ Len(queue) <= MaxDevices
  /\ index \in Nat \ {0} /\ index <= Len(queue) + 1
  /\ pc \in Loop \ {"inspect"} => index <= Len(queue)
  /\ pc \in {"mark", "discover", "snapshot"} => queue = <<>>
  /\ pc \in Preparing => index = 1 /\ outcomes = <<>> /\ dialled = <<>>

\* What was dialled stands in the queue before the index, or at it.
DialledInOrder ==
  /\ dialled \in Seq(Addresses) /\ Increasing(dialled)
  /\ Len(dialled) <= IF pc = "inspect" THEN index - 1 ELSE index
  /\ \A k \in 1..Len(dialled) :
       \E j \in 1..Len(queue) : dialled[k] = queue[j] /\ (IF pc = "inspect" THEN j < index ELSE j <= index)
  /\ links \in SUBSET {dialled[k] : k \in 1..Len(dialled)}
  /\ pc \in {"connecting", "disconnecting"} => \E k \in 1..Len(dialled) : dialled[k] = queue[index]

\* A report is there for every outcome, and every outcome that is fine was
\* of a device that was dialled.
AllOk == \A k \in 1..Len(outcomes) : outcomes[k].ok
Counted ==
  /\ outcomes \in Seq(Reports) /\ report \in Reports
  /\ files = 1..Len(outcomes) /\ Len(outcomes) <= Len(queue)
  /\ pc \in Loop => Len(outcomes) = IF pc = "checkpoint" THEN index ELSE index - 1
  /\ AllOk =>
       /\ pc \in {"inspect", "checkpoint"} \/ ending = "finished" => Len(dialled) = Len(outcomes)
       /\ pc \in {"connecting", "disconnecting"} => Len(dialled) = Len(outcomes) + 1
       /\ pc = "persist" /\ report.ok => Len(dialled) = Len(outcomes) + 1

\* The manifest is one of the moments it was written at.
Manifested ==
  /\ pc \in Loop \ {"checkpoint"} => manifest.phase = "executing" /\ manifest.recorded = index - 1
  /\ state = "clear" => pc \in {"manifest", "done"} /\ confirmed /\ ~lease /\ ~latch
  /\ manifest.state = "clear" => state = "clear"
  /\ manifest.phase = "completed" =>
       /\ pc = "done" /\ manifest.state = "clear" /\ Len(outcomes) = Len(queue)
       /\ \A k \in 1..Len(outcomes) : outcomes[k].safe
  /\ exit = 0 => manifest.phase = "completed" /\ ending = "finished" /\ AllOk

EvidenceInv == Places /\ Switches /\ Queued /\ DialledInOrder /\ Counted /\ Manifested

\* Induction over the natural numbers, for a set: the numbers outside it would
\* have a least one.
\* A set of natural numbers has a least one.
LEMMA Least ==
  ASSUME NEW T \in SUBSET Nat, T # {}
  PROVE  \E m \in T : \A y \in T : m <= y
<1> DEFINE Below == {p \in Nat \X Nat : p[1] < p[2]}
<1>1. IsWellFoundedOn(Below, Nat)
  BY NatLessThanWellFounded DEF OpToRel
<1>2. PICK m \in T : \A y \in T : ~(<<y, m>> \in Below)
  BY <1>1, WFMin
<1>3. ASSUME NEW y \in T PROVE m <= y
  <2>1. <<y, m>> \in Below <=> y < m
    OBVIOUS
  <2>2. QED
    BY <1>2, <2>1
<1>4. QED
  BY <1>3

\* A set with 0 and with the successor of each of its numbers has them all.
LEMMA SetInduction ==
  ASSUME NEW T, 0 \in T, \A n \in Nat : n \in T => n + 1 \in T
  PROVE  Nat \subseteq T
<1> SUFFICES ASSUME Nat \ T # {} PROVE FALSE
  OBVIOUS
<1>1. PICK m \in Nat \ T : \A y \in Nat \ T : m <= y
  BY Least
<1>2. m # 0 /\ m - 1 \in Nat
  OBVIOUS
<1>3. QED
  BY <1>1, <1>2

\* A finite set of numbers has its elements in order.
InOrder(S, s) ==
  /\ s \in [1..Cardinality(S) -> S]
  /\ \A i, j \in 1..Cardinality(S) : i < j => s[i] < s[j]

\* Such an order exists: the least element first, then the order of the rest.
LEMMA OrderExists ==
  ASSUME NEW S \in SUBSET Nat, IsFiniteSet(S)
  PROVE  \E s : InOrder(S, s)
<1> DEFINE Of(n) == \A U \in SUBSET Nat : IsFiniteSet(U) /\ Cardinality(U) = n => \E s : InOrder(U, s)
           T == {n \in Nat : Of(n)}
<1>1. 0 \in T
  <2>1. SUFFICES ASSUME NEW U \in SUBSET Nat, IsFiniteSet(U), Cardinality(U) = 0
                 PROVE  \E s : InOrder(U, s)
    OBVIOUS
  <2>2. U = {} /\ 1..0 = {}
    BY <2>1, FS_EmptySet
  <2>3. [i \in 1..0 |-> 0] \in [1..0 -> U]
    BY <2>2
  <2>4. InOrder(U, [i \in 1..0 |-> 0])
    BY <2>1, <2>2, <2>3 DEF InOrder
  <2>5. QED
    BY <2>4
<1>2. ASSUME NEW n \in Nat, Of(n) PROVE Of(n + 1)
  <2>1. SUFFICES ASSUME NEW U \in SUBSET Nat, IsFiniteSet(U), Cardinality(U) = n + 1
                 PROVE  \E s : InOrder(U, s)
    OBVIOUS
  <2>2. U # {}
    BY <2>1, FS_EmptySet
  <2>3. PICK m \in U : \A y \in U : m <= y
    BY <2>2, Least
  <2>4. IsFiniteSet(U \ {m}) /\ Cardinality(U \ {m}) = n
    <3>1. IsFiniteSet(U \ {m}) /\ Cardinality(U \ {m}) = Cardinality(U) - 1
      BY <2>1, FS_RemoveElement, Zenon
    <3>2. QED
      BY <2>1, <3>1
  <2>5. PICK t : InOrder(U \ {m}, t)
    BY <1>2, <2>4
  <2> DEFINE s == [i \in 1..n + 1 |-> IF i = 1 THEN m ELSE t[i - 1]]
  <2>6. t \in [1..n -> U \ {m}] /\ \A i, j \in 1..n : i < j => t[i] < t[j]
    BY <2>4, <2>5 DEF InOrder
  <2>7. s \in [1..n + 1 -> U]
    BY <2>6
  <2>8. ASSUME NEW i \in 1..n + 1, NEW j \in 1..n + 1, i < j PROVE s[i] < s[j]
    <3>1. s[j] = t[j - 1] /\ j - 1 \in 1..n
      BY <2>8
    <3>2. CASE i = 1
      <4>1. t[j - 1] \in U \ {m}
        BY <2>6, <3>1
      <4>2. QED
        <5>1. t[j - 1] \in Nat /\ m \in Nat /\ m <= t[j - 1] /\ m # t[j - 1]
          BY <2>3, <4>1
        <5>2. s[i] = m
          BY <3>2
        <5>3. QED
          BY <3>1, <5>1, <5>2
    <3>3. CASE i # 1
      <4>1. s[i] = t[i - 1] /\ i - 1 \in 1..n /\ i - 1 < j - 1
        BY <2>8, <3>3
      <4>2. QED
        BY <2>6, <3>1, <4>1
    <3>4. QED
      BY <3>2, <3>3
  <2>9. InOrder(U, s)
    <3> HIDE DEF s
    <3>1. QED
      BY <2>1, <2>7, <2>8 DEF InOrder
  <2>10. QED
    BY <2>9
<1>3. \A n \in Nat : n \in T => n + 1 \in T
  BY <1>2
<1>4. Nat \subseteq T
  <2> HIDE DEF T
  <2>1. QED
    BY <1>1, <1>3, SetInduction
<1>5. QED
  BY <1>4, FS_CardinalityType

\* sorted() is a sequence of what it sorts, in order.
LEMMA SortedFacts ==
  ASSUME NEW S \in SUBSET Addresses
  PROVE  Sorted(S) \in Seq(S) /\ Increasing(Sorted(S))
<1>1. IsFiniteSet(S) /\ S \in SUBSET Nat /\ Cardinality(S) \in Nat
  BY SurveyAssumption, FS_Subset, FS_CardinalityType
<1>2. InOrder(S, Sorted(S))
  BY <1>1, OrderExists DEF InOrder, Sorted
<1>3. Sorted(S) \in Seq(S) /\ Len(Sorted(S)) = Cardinality(S)
  <2> DEFINE t == Sorted(S)
             n == Cardinality(S)
  <2>1. t \in [1..n -> S] /\ n \in Nat
    BY <1>1, <1>2 DEF InOrder
  <2> HIDE DEF t, n
  <2>2. t \in Seq(S) /\ Len(t) = n
    BY <2>1
  <2>3. QED
    BY <2>2 DEF t, n
<1>4. QED
  BY <1>2, <1>3 DEF InOrder, Increasing

\* The queue is in order, permitted and within the limit.
LEMMA QueueFacts ==
  ASSUME NEW heard \in SUBSET Addresses, permitted \in SUBSET Addresses
  PROVE  /\ QueueOf(heard) \in Seq(permitted) /\ Increasing(QueueOf(heard))
         /\ Len(QueueOf(heard)) <= MaxDevices
<1> DEFINE t == Sorted(heard \cap permitted)
<1>1. t \in Seq(heard \cap permitted) /\ Increasing(t)
  BY SortedFacts
<1>2. t \in Seq(permitted) /\ Len(t) \in Nat /\ MaxDevices \in Nat \ {0}
  <2> HIDE DEF t
  <2>1. QED
    BY <1>1, SurveyAssumption
<1>3. QueueOf(heard) = IF Len(t) > MaxDevices THEN SubSeq(t, 1, MaxDevices) ELSE t
  BY DEF QueueOf
<1> HIDE DEF t
<1>4. CASE Len(t) > MaxDevices
  <2>1. /\ SubSeq(t, 1, MaxDevices) \in Seq(permitted) /\ Len(SubSeq(t, 1, MaxDevices)) = MaxDevices
        /\ \A i \in 1..MaxDevices : SubSeq(t, 1, MaxDevices)[i] = t[i]
    BY <1>2, <1>4
  <2>2. \A i, j \in 1..MaxDevices : i < j => t[i] < t[j]
    BY <1>1, <1>2, <1>4 DEF Increasing
  <2>3. QED
    BY <1>2, <1>3, <1>4, <2>1, <2>2 DEF Increasing
<1>5. CASE ~(Len(t) > MaxDevices)
  BY <1>1, <1>2, <1>3, <1>5
<1>6. QED
  BY <1>4, <1>5

\* The second invariant holds before the discovery.
LEMMA EvidenceInit == Init => EvidenceInv
<1> SUFFICES ASSUME Init PROVE EvidenceInv
  OBVIOUS
<1>1. permitted \in SUBSET Addresses /\ authorized \in SUBSET Addresses
  BY DEF Init
<1>2. Places
  BY <1>1 DEF Init, Places, Preparing, Loop, Leaving
<1>3. Queued
  BY SurveyAssumption DEF Init, Queued, Preparing, Loop, Increasing
<1>4. DialledInOrder
  BY DEF Init, DialledInOrder, Increasing
<1>5. Counted
  <2>1. [ok |-> FALSE, safe |-> TRUE] \in Reports /\ <<>> \in Seq(Reports) /\ 1..0 = {}
    BY DEF Reports
  <2>2. QED
    BY <2>1 DEF Init, Counted, AllOk, Loop
<1>6. Manifested
  BY DEF Init, Manifested, NoManifest, Running, Loop
<1>7. Switches
  BY DEF Init, Switches
<1>8. QED
  BY <1>2, <1>3, <1>4, <1>5, <1>6, <1>7 DEF EvidenceInv

\* The exit status says success only of a survey that finished.
LEMMA ExitFacts ==
  ASSUME ending \in {"refused", "aborted", "finished"}, NEW written \in BOOLEAN
  PROVE  /\ ExitStatus(written) \in {0, 9, 11, 12, 13, 14}
         /\ ExitStatus(written) = 0 =>
              written /\ ending = "finished" /\ manifest'.phase = "completed" /\ \A k \in DOMAIN outcomes : outcomes[k].ok
<1>1. CASE ending = "refused"
  BY <1>1 DEF ExitStatus
<1>2. CASE ending # "refused" /\ ~written
  BY <1>2 DEF ExitStatus
<1>3. CASE ending = "aborted" /\ written
  BY <1>3 DEF ExitStatus
<1>4. CASE ending = "finished" /\ written
  BY <1>4 DEF ExitStatus
<1>5. QED
  BY <1>1, <1>2, <1>3, <1>4

\* Each place has its ending, its state of the interlock and its exit status.
LEMMA PlacesStep == Places /\ [Next]_vars => Places'
<1> SUFFICES ASSUME Places, [Next]_vars PROVE Places'
  OBVIOUS
<1> USE DEF Places, Loop, Preparing, Leaving, request, radio, interlock, progress, evidence, Exit, Abort,
        Running
<1>1. CASE Mark
  BY <1>1 DEF Mark
<1>2. CASE StartScanner
  BY <1>2 DEF StartScanner
<1>3. CASE Snapshot
  BY <1>3 DEF Snapshot
<1>4. CASE Authorize
  BY <1>4 DEF Authorize
<1>5. CASE FirstCheckpoint
  BY <1>5 DEF FirstCheckpoint
<1>6. CASE BeginInspection
  BY <1>6 DEF BeginInspection
<1>7. CASE ConnectDevice
  BY <1>7 DEF ConnectDevice
<1>8. CASE DisconnectDevice
  BY <1>8 DEF DisconnectDevice
<1>9. CASE PersistReport
  BY <1>9 DEF PersistReport
<1>10. CASE CheckpointOutcome
  BY <1>10 DEF CheckpointOutcome
<1>11. CASE StopScanner
  BY <1>11 DEF StopScanner
<1>12. CASE ReleaseLease
  BY <1>12 DEF ReleaseLease, OsError
<1>13. CASE LatchUnsafe
  BY <1>13 DEF LatchUnsafe, OsError
<1>14. CASE WriteManifest
  <2>1. PICK failure \in BOOLEAN : exit' = ExitStatus(~failure)
    BY <1>14 DEF WriteManifest, Failing
  <2>2. ending \in {"refused", "aborted", "finished"}
    BY <1>14 DEF WriteManifest
  <2>3. (~failure) \in BOOLEAN
    OBVIOUS
  <2>4. exit' \in {0, 9, 11, 12, 13, 14}
    BY <2>1, <2>2, <2>3, ExitFacts
  <2>5. QED
    BY <1>14, <2>4 DEF WriteManifest
<1>15. CASE Interrupt
  BY <1>15 DEF Interrupt
<1>16. CASE RadioStops
  BY <1>16 DEF RadioStops
<1>17. CASE Expire
  BY <1>17 DEF Expire
<1>18. CASE UNCHANGED vars
  BY <1>18 DEF vars
<1>19. QED
  BY <1>1, <1>2, <1>3, <1>4, <1>5, <1>6, <1>7, <1>8, <1>9, <1>10, <1>11, <1>12, <1>13,
     <1>14, <1>15, <1>16, <1>17, <1>18
  DEF Next, Survey

\* The switches stay Boolean.
LEMMA SwitchesStep == Switches /\ [Next]_vars => Switches'
<1> SUFFICES ASSUME Switches, [Next]_vars PROVE Switches'
  OBVIOUS
<1> USE DEF Next, Survey, vars, request, radio, interlock, progress, evidence, Exit, Abort, Release,
      Latch, OsError, Mark, StartScanner, Snapshot, Authorize, FirstCheckpoint, BeginInspection,
      ConnectDevice, DisconnectDevice, PersistReport, CheckpointOutcome, StopScanner, ReleaseLease,
      LatchUnsafe, WriteManifest, Interrupt, RadioStops, Expire
<1>1. auth' = auth \/ auth' = FALSE
  OBVIOUS
<1>2. scanning' = scanning \/ scanning' \in BOOLEAN
  OBVIOUS
<1>3. lease' = lease \/ lease' = FALSE
  OBVIOUS
<1>4. latch' = latch \/ latch' = TRUE
  OBVIOUS
<1> HIDE DEF vars, Next
<1>5. QED
  BY <1>1, <1>2, <1>3, <1>4, Zenon DEF Switches

\* The queue is frozen when the discovery window closes; only the index moves.
LEMMA QueuedStep == Places /\ Queued /\ [Next]_vars => Queued'
<1> SUFFICES ASSUME Places, Queued, [Next]_vars PROVE Queued'
  OBVIOUS
<1> USE DEF Queued, Loop, Preparing, request, radio, interlock, progress, evidence, Exit, Abort
<1>0. Len(queue) \in Nat /\ permitted \in SUBSET Addresses
  BY DEF Places
<1>3. CASE Snapshot
  <2>1. CASE queue' = queue
    BY <1>0, <1>3, <2>1 DEF Snapshot
  <2>2. CASE queue' # queue
    <3>1. PICK heard \in SUBSET Addresses : queue' = QueueOf(heard)
      BY <1>3, <2>2 DEF Snapshot
    <3>2. /\ queue' \in Seq(permitted) /\ Increasing(queue') /\ Len(queue') <= MaxDevices
      BY <1>0, <3>1, QueueFacts
    <3>3. /\ Len(queue') \in Nat
          /\ pc' = "authorize"
      <4>1. Len(queue') \in Nat
        BY <3>2
      <4>2. pc' = "authorize"
        BY <1>3, <2>2 DEF Snapshot
      <4>3. QED
        BY <4>1, <4>2
    <3>4. /\ permitted' = permitted /\ index' = 1 /\ outcomes' = <<>> /\ dialled' = <<>>
          /\ Increasing(queue)'
      BY <1>3, <3>2 DEF Snapshot, Increasing
    <3>5. QED
      BY <3>2, <3>3, <3>4
  <2>3. QED
    BY <2>1, <2>2
<1>6. CASE BeginInspection
  BY <1>0, <1>6 DEF BeginInspection, Increasing
<1>9. CASE PersistReport
  BY <1>0, <1>9 DEF PersistReport, Increasing
<1>10. CASE CheckpointOutcome
  BY <1>0, <1>10 DEF CheckpointOutcome, Increasing
<1>18. CASE ~(Snapshot \/ BeginInspection \/ PersistReport \/ CheckpointOutcome)
  <2>1. UNCHANGED <<permitted, queue, index, dialled, outcomes>>
    BY <1>18 DEF Next, Survey, vars, request, radio, interlock, progress, evidence, Exit, Abort, Release,
     Latch, OsError, Mark, StartScanner, Authorize, FirstCheckpoint,      ConnectDevice, DisconnectDevice, StopScanner, ReleaseLease,
     LatchUnsafe, WriteManifest, Interrupt, RadioStops, Expire
  <2>2. /\ pc' \in Loop \ {"inspect"} => pc \in Loop \ {"inspect"}
        /\ pc' \in Preparing => pc \in Preparing
        /\ pc' \in {"mark", "discover", "snapshot"} => pc \in {"mark", "discover", "snapshot"}
    BY <1>18 DEF Next, Survey, vars, request, radio, interlock, progress, evidence, Exit, Abort, Release,
     Latch, OsError, Mark, StartScanner, Authorize, FirstCheckpoint,      ConnectDevice, DisconnectDevice, StopScanner, ReleaseLease,
     LatchUnsafe, WriteManifest, Interrupt, RadioStops, Expire
  <2>3. QED
    BY <2>1, <2>2 DEF Increasing
<1>19. QED
  BY <1>3, <1>6, <1>9, <1>10, <1>18

\* A device is dialled after all that stand before it in the queue.
LEMMA DialStep == Places /\ Queued /\ DialledInOrder /\ [Next]_vars => DialledInOrder'
<1> SUFFICES ASSUME Places, Queued, DialledInOrder, [Next]_vars PROVE DialledInOrder'
  OBVIOUS
<1> USE DEF request, radio, interlock, progress, evidence, Exit, Abort
<1>0. /\ Len(queue) \in Nat /\ index \in Nat \ {0} /\ dialled \in Seq(Addresses)
      /\ Len(dialled) \in Nat /\ permitted \in SUBSET Addresses
  BY DEF Places, Queued, DialledInOrder
<1>3. CASE Snapshot
  <2>1. dialled = <<>> /\ dialled' = <<>> /\ index' = index /\ links' = links
    BY <1>3 DEF Snapshot, Queued, Preparing
  <2>2. links = {}
    BY <2>1 DEF DialledInOrder
  <2>3. pc' \in {"authorize", "latch"}
    BY <1>3 DEF Snapshot
  <2>4. QED
    BY <1>0, <2>1, <2>2, <2>3 DEF DialledInOrder, Increasing
<1>6. CASE BeginInspection
  <2>1. /\ pc = "inspect" /\ UNCHANGED <<queue, index, links>> /\ pc' # "inspect"
    BY <1>6 DEF BeginInspection
  <2>2. CASE dialled' = dialled
    <3>1. pc' \notin {"connecting", "disconnecting"}
      <4>1. SUFFICES ASSUME pc' \in {"connecting", "disconnecting"} PROVE FALSE
        OBVIOUS
      <4>2. dialled' = Append(dialled, queue[index])
        BY <1>6, <4>1 DEF BeginInspection
      <4>3. Len(dialled') = Len(dialled) + 1
        BY <1>0, <4>2
      <4>4. QED
        BY <1>0, <2>2, <4>3
    <3>2. dialled \in Seq(Addresses) /\ Increasing(dialled) /\ Len(dialled) <= index - 1
      BY <2>1 DEF DialledInOrder
    <3>3. \A k \in 1..Len(dialled) : \E j \in 1..Len(queue) : dialled[k] = queue[j] /\ j < index
      BY <2>1 DEF DialledInOrder
    <3>4. links \in SUBSET {dialled[k] : k \in 1..Len(dialled)}
      BY DEF DialledInOrder
    <3>5. Increasing(dialled)'
      BY <2>2, <3>2
    <3>6. Len(dialled) <= index /\ index \in Nat
      BY <1>0, <3>2
    <3>7. \A k \in 1..Len(dialled) : \E j \in 1..Len(queue) :
            dialled[k] = queue[j] /\ (IF pc' = "inspect" THEN j < index ELSE j <= index)
      BY <2>1, <3>3, <3>6
    <3>8. Len(dialled) <= IF pc' = "inspect" THEN index - 1 ELSE index
      BY <2>1, <3>6
    <3>9. QED
      <4>1. dialled' = dialled /\ queue' = queue /\ index' = index /\ links' = links
        BY <2>1, <2>2
      <4>2. /\ dialled' \in Seq(Addresses)
            /\ Len(dialled') <= IF pc' = "inspect" THEN index' - 1 ELSE index'
            /\ links' \in SUBSET {dialled'[k] : k \in 1..Len(dialled')}
        BY <4>1, <3>2, <3>4, <3>8
      <4>3. \A k \in 1..Len(dialled') : \E j \in 1..Len(queue') :
              dialled'[k] = queue'[j] /\ (IF pc' = "inspect" THEN j < index' ELSE j <= index')
        BY <4>1, <3>7
      <4>4. QED
        BY <3>1, <3>5, <4>2, <4>3 DEF DialledInOrder
  <2>3. CASE dialled' # dialled
    <3>1. dialled' = Append(dialled, queue[index]) /\ index <= Len(queue)
      BY <1>6, <2>3 DEF BeginInspection
    <3>2. index \in 1..Len(queue) /\ queue[index] \in Addresses
      BY <1>0, <3>1 DEF Queued
    <3> DEFINE n == Len(dialled)
    <3>3. /\ dialled' \in Seq(Addresses) /\ Len(dialled') = n + 1
          /\ \A k \in 1..n : dialled'[k] = dialled[k]
          /\ dialled'[n + 1] = queue[index]
      BY <1>0, <3>1, <3>2
    <3>4. \A k \in 1..n : \E j \in 1..Len(queue) : dialled[k] = queue[j] /\ j < index
      BY <2>1 DEF DialledInOrder
    <3>5. \A k \in 1..n : dialled[k] < queue[index]
      BY <3>2, <3>4 DEF Queued, Increasing
    <3>6. n <= index - 1
      BY <2>1 DEF DialledInOrder
    <3>7. n \in Nat
      BY <1>0
    <3>8. Increasing(dialled')
      <4>1. \A i, j \in 1..n : i < j => dialled[i] < dialled[j]
        BY DEF DialledInOrder, Increasing
      <4> HIDE DEF n
      <4>2. ASSUME NEW i \in 1..n + 1, NEW j \in 1..n + 1, i < j
            PROVE  dialled'[i] < dialled'[j]
        <5>1. i \in 1..n
          BY <3>7, <4>2
        <5>2. CASE j = n + 1
          BY <3>3, <3>5, <5>1, <5>2
        <5>3. CASE j # n + 1
          <6>1. j \in 1..n
            BY <3>7, <5>3
          <6>2. QED
            BY <3>3, <4>1, <4>2, <5>1, <6>1
        <5>4. QED
          BY <5>2, <5>3
      <4>3. QED
        BY <3>3, <4>2 DEF Increasing
    <3>9. links' \in SUBSET {dialled'[k] : k \in 1..Len(dialled')}
      <4>1. links \in SUBSET {dialled[k] : k \in 1..n}
        BY DEF DialledInOrder
      <4>2. \A k \in 1..n : dialled[k] \in {dialled'[i] : i \in 1..n + 1}
        BY <3>3, <3>7
      <4>3. QED
        BY <2>1, <3>3, <4>1, <4>2
    <3>10. \A k \in 1..n + 1 : \E j \in 1..Len(queue) : dialled'[k] = queue[j] /\ j <= index
      <4>1. ASSUME NEW k \in 1..n PROVE \E j \in 1..Len(queue) : dialled'[k] = queue[j] /\ j <= index
        <5>1. PICK j \in 1..Len(queue) : dialled[k] = queue[j] /\ j < index
          BY <3>4
        <5>2. dialled'[k] = queue[j] /\ j <= index
          BY <1>0, <3>3, <5>1
        <5>3. QED
          BY <5>2
      <4>2. dialled'[n + 1] = queue[index] /\ index <= index
        BY <1>0, <3>3
      <4>3. \A k \in 1..n + 1 : k \in 1..n \/ k = n + 1
        BY <3>7
      <4> HIDE DEF n
      <4>4. QED
        BY <3>2, <4>1, <4>2, <4>3
    <3>11. Len(dialled') <= index' /\ n + 1 \in 1..n + 1
      BY <1>0, <2>1, <3>3, <3>6, <3>7
    <3>12. queue' = queue /\ index' = index
      BY <2>1
    <3> HIDE DEF n
    <3>13. QED
      BY <2>1, <3>3, <3>8, <3>9, <3>10, <3>11, <3>12 DEF DialledInOrder
  <2>4. QED
    BY <2>2, <2>3
<1>7. CASE ConnectDevice
  <2>1. /\ pc = "connecting" /\ pc' = "disconnecting" /\ UNCHANGED <<queue, index, dialled>>
        /\ links' \in SUBSET (links \cup {queue[index]})
    <3>1. links' \in {links, links \cup {queue[index]}}
      BY <1>7 DEF ConnectDevice
    <3>2. QED
      BY <1>7, <3>1 DEF ConnectDevice
  <2>2. queue[index] \in {dialled[k] : k \in 1..Len(dialled)}
    BY <2>1 DEF DialledInOrder
  <2>3. links' \in SUBSET {dialled[k] : k \in 1..Len(dialled)}
    BY <2>1, <2>2 DEF DialledInOrder
  <2>4. QED
    BY <2>1, <2>3 DEF DialledInOrder, Increasing
<1>18. CASE ~(Snapshot \/ BeginInspection \/ ConnectDevice)
  <2>1. UNCHANGED <<queue, dialled>> /\ links' \in SUBSET links
    BY <1>18 DEF Next, Survey, vars, Mark, StartScanner, Authorize, FirstCheckpoint,
      DisconnectDevice, PersistReport, CheckpointOutcome, StopScanner, ReleaseLease, LatchUnsafe,
      WriteManifest, Interrupt, RadioStops, Expire, OsError, Release, Latch
  <2>2. \/ index' = index /\ (pc' # "inspect" \/ pc' = pc \/ pc = "first")
        \/ index' = index + 1 /\ pc # "inspect" /\ pc' = "inspect"
    BY <1>18 DEF Next, Survey, vars, Mark, StartScanner, Authorize, FirstCheckpoint,
      DisconnectDevice, PersistReport, CheckpointOutcome, StopScanner, ReleaseLease, LatchUnsafe,
      WriteManifest, Interrupt, RadioStops, Expire, OsError, Release, Latch
  <2>3. pc' \in {"connecting", "disconnecting"} => pc \in {"connecting", "disconnecting"} /\ index' = index
    BY <1>18 DEF Next, Survey, vars, Mark, StartScanner, Authorize, FirstCheckpoint,
      DisconnectDevice, PersistReport, CheckpointOutcome, StopScanner, ReleaseLease, LatchUnsafe,
      WriteManifest, Interrupt, RadioStops, Expire, OsError, Release, Latch
  <2>4. pc = "first" => Len(dialled) = 0 /\ index = 1
    BY DEF Queued, Preparing
  <2>5. /\ Len(dialled) <= IF pc' = "inspect" THEN index' - 1 ELSE index'
        /\ \A k \in 1..Len(dialled) : \E j \in 1..Len(queue) :
             dialled[k] = queue[j] /\ (IF pc' = "inspect" THEN j < index' ELSE j <= index')
    <3>1. CASE index' = index /\ pc' # "inspect"
      <4>1. Len(dialled) <= index
        BY <1>0 DEF DialledInOrder
      <4>2. ASSUME NEW k \in 1..Len(dialled)
            PROVE  \E j \in 1..Len(queue) : dialled[k] = queue[j] /\ j <= index
        <5>1. PICK j \in 1..Len(queue) :
                dialled[k] = queue[j] /\ (IF pc = "inspect" THEN j < index ELSE j <= index)
          BY DEF DialledInOrder
        <5>2. j <= index
          BY <1>0, <5>1
        <5>3. QED
          BY <5>1, <5>2
      <4>3. QED
        BY <3>1, <4>1, <4>2
    <3>2. CASE index' = index /\ pc' = pc
      BY <1>0, <3>2 DEF DialledInOrder
    <3>3. CASE index' = index /\ pc = "first"
      BY <1>0, <2>4, <3>3
    <3>4. CASE index' = index + 1 /\ pc # "inspect" /\ pc' = "inspect"
      BY <1>0, <3>4 DEF DialledInOrder
    <3>5. QED
      BY <2>2, <3>1, <3>2, <3>3, <3>4
  <2>6. Increasing(dialled') /\ links' \in SUBSET {dialled[k] : k \in 1..Len(dialled)}
    BY <2>1 DEF DialledInOrder, Increasing
  <2>7. QED
    BY <1>0, <2>1, <2>3, <2>5, <2>6 DEF DialledInOrder
<1>19. QED
  BY <1>3, <1>6, <1>7, <1>18

\* Reports, outcomes and the devices that were dialled are counted together.
LEMMA CountedStep == Places /\ Queued /\ DialledInOrder /\ Counted /\ [Next]_vars => Counted'
<1> SUFFICES ASSUME Places, Queued, DialledInOrder, Counted, [Next]_vars PROVE Counted'
  OBVIOUS
<1> USE DEF request, radio, interlock, progress, evidence, Exit, Abort
<1>0. /\ Len(queue) \in Nat /\ index \in Nat \ {0} /\ dialled \in Seq(Addresses)
      /\ Len(dialled) \in Nat /\ outcomes \in Seq(Reports) /\ Len(outcomes) \in Nat
  BY DEF Places, Queued, DialledInOrder, Counted
<1>3. CASE Snapshot
  <2>1. /\ outcomes = <<>> /\ UNCHANGED <<outcomes, report, files, dialled, index>>
        /\ dialled = <<>> /\ pc' \in {"authorize", "latch"}
    BY <1>3 DEF Snapshot, Queued, Preparing
  <2>2. Len(queue') >= 0
    <3>1. CASE queue' = queue
      BY <1>0, <3>1
    <3>2. CASE queue' # queue
      <4>1. PICK heard \in SUBSET Addresses : queue' = QueueOf(heard)
        BY <1>3, <3>2 DEF Snapshot
      <4>2. queue' \in Seq(permitted)
        BY <4>1, QueueFacts DEF Places
      <4>3. QED
        BY <4>2
    <3>3. QED
      BY <3>1, <3>2
  <2>3. QED
    BY <2>1, <2>2 DEF Counted, AllOk, Loop
<1>5. CASE FirstCheckpoint
  <2>1. /\ pc = "first" /\ index = 1 /\ outcomes = <<>> /\ dialled = <<>>
        /\ UNCHANGED <<queue, outcomes, report, files, dialled, index, ending>>
        /\ pc' \in {"inspect", "done"} /\ ending = "none"
    BY <1>5 DEF FirstCheckpoint, Queued, Preparing, Places
  <2>2. QED
    BY <2>1 DEF Counted, AllOk, Loop
<1>6. CASE BeginInspection
  <2>1. /\ pc = "inspect" /\ UNCHANGED <<queue, outcomes, files, index>> /\ ending = "none"
    BY <1>6 DEF BeginInspection, Places, Loop
  <2>2. CASE pc' = "stop"
    <3>1. UNCHANGED <<report, dialled>>
      BY <1>6, <2>2 DEF BeginInspection
    <3>2. QED
      BY <2>1, <2>2, <3>1 DEF Counted, AllOk, Loop
  <2>3. CASE pc' = "persist"
    <3>1. report' = [ok |-> FALSE, safe |-> TRUE] /\ dialled' = dialled /\ ending' = ending
      BY <1>6, <2>3 DEF BeginInspection
    <3>2. report' \in Reports /\ ~report'.ok
      BY <3>1 DEF Reports
    <3>3. QED
      BY <2>1, <2>3, <3>1, <3>2 DEF Counted, AllOk, Loop
  <2>4. CASE pc' = "connecting"
    <3>1. dialled' = Append(dialled, queue[index]) /\ report' = report /\ ending' = ending
          /\ index <= Len(queue)
      BY <1>6, <2>4 DEF BeginInspection
    <3>2. Len(dialled') = Len(dialled) + 1
      BY <1>0, <3>1
    <3>3. QED
      BY <2>1, <2>4, <3>1, <3>2 DEF Counted, AllOk, Loop
  <2>5. QED
    BY <1>6, <2>2, <2>3, <2>4 DEF BeginInspection
<1>7. CASE ConnectDevice
  <2>1. /\ pc = "connecting" /\ pc' = "disconnecting" /\ ending' = ending
        /\ UNCHANGED <<queue, outcomes, files, index, dialled>> /\ ending = "none"
    BY <1>7 DEF ConnectDevice, Places, Loop
  <2>2. report' \in Reports
    BY <1>7 DEF ConnectDevice, Reports
  <2>3. QED
    BY <2>1, <2>2 DEF Counted, AllOk, Loop
<1>8. CASE DisconnectDevice
  <2>1. /\ pc = "disconnecting" /\ pc' = "persist" /\ ending' = ending
        /\ UNCHANGED <<queue, outcomes, files, index, dialled>> /\ ending = "none"
    BY <1>8 DEF DisconnectDevice, Places, Loop
  <2>2. report' \in Reports
    <3>1. report' = [report EXCEPT !.safe = TRUE] \/ report' = [report EXCEPT !.ok = FALSE]
      BY <1>8 DEF DisconnectDevice
    <3>2. QED
      BY <3>1 DEF Counted, Reports
  <2>3. QED
    BY <2>1, <2>2 DEF Counted, AllOk, Loop
<1>9. CASE PersistReport
  <2>1. /\ pc = "persist" /\ index <= Len(queue) /\ Len(outcomes) = index - 1 /\ ending = "none"
        /\ UNCHANGED <<queue, report, index, dialled>>
    BY <1>9 DEF PersistReport, Places, Queued, Counted, Loop
  <2>2. CASE pc' = "stop"
    <3>1. UNCHANGED <<files, outcomes>> /\ ending' = "aborted"
      BY <1>9, <2>2 DEF PersistReport
    <3>2. QED
      BY <2>1, <2>2, <3>1 DEF Counted, AllOk, Loop
  <2>3. CASE pc' # "stop"
    <3>1. /\ files' = files \cup {index} /\ outcomes' = Append(outcomes, report)
          /\ pc' = "checkpoint" /\ ending' = ending
      BY <1>9, <2>3 DEF PersistReport
    <3> DEFINE n == Len(outcomes)
    <3>2. /\ outcomes' \in Seq(Reports) /\ Len(outcomes') = n + 1 /\ n \in Nat
          /\ \A k \in 1..n : outcomes'[k] = outcomes[k]
          /\ outcomes'[n + 1] = report
      <4>1. report \in Reports
        BY DEF Counted
      <4>2. QED
        BY <1>0, <3>1, <4>1
    <3>3. index = n + 1
      BY <1>0, <2>1
    <3>4. files' = 1..n + 1
      BY <3>1, <3>2, <3>3 DEF Counted
    <3>5. AllOk' => AllOk /\ report.ok
      <4>1. n + 1 \in 1..n + 1 /\ \A k \in 1..n : k \in 1..n + 1
        BY <3>2
      <4>2. QED
        BY <3>2, <4>1 DEF AllOk
    <3>6. AllOk' => Len(dialled') = n + 1
      BY <2>1, <3>5 DEF Counted
    <3>7. report' \in Reports /\ n + 1 <= Len(queue')
      BY <2>1, <3>3 DEF Counted
    <3>8. ending' = "none" /\ index' = n + 1
      BY <2>1, <3>1, <3>3
    <3> HIDE DEF n
    <3>9. QED
      BY <3>1, <3>2, <3>4, <3>6, <3>7, <3>8 DEF Counted, Loop
  <2>4. QED
    BY <2>2, <2>3
<1>10. CASE CheckpointOutcome
  <2>1. /\ pc = "checkpoint" /\ UNCHANGED <<outcomes, queue, report, files, dialled>>
        /\ ending = "none"
    BY <1>10 DEF CheckpointOutcome, Places, Loop
  <2>2. \/ pc' = "inspect" /\ index' = index + 1 /\ ending' = ending
        \/ pc' = "stop" /\ ending' \in {"finished", "aborted"} /\ index' = index
    BY <1>10, Zenon DEF CheckpointOutcome
  <2>3. QED
    BY <1>0, <2>1, <2>2 DEF Counted, AllOk, Loop
<1>18. CASE ~(Snapshot \/ FirstCheckpoint \/ BeginInspection \/ ConnectDevice \/ DisconnectDevice
              \/ PersistReport \/ CheckpointOutcome)
  <2>1. UNCHANGED <<queue, outcomes, report, files, dialled, index>>
    BY <1>18 DEF Next, Survey, vars, Mark, StartScanner, Authorize, StopScanner, ReleaseLease,
      LatchUnsafe, WriteManifest, Interrupt, RadioStops, Expire, OsError, Release, Latch
  <2>2. /\ pc' \in Loop => pc' = pc
        /\ ending' = "finished" => ending = "finished"
    BY <1>18 DEF Next, Survey, vars, Mark, StartScanner, Authorize, StopScanner, ReleaseLease,
      LatchUnsafe, WriteManifest, Interrupt, RadioStops, Expire, OsError, Release, Latch, Loop
  <2>3. AllOk' <=> AllOk
    BY <2>1 DEF AllOk
  <2>4. QED
    BY <2>1, <2>2, <2>3 DEF Counted, Loop
<1>19. QED
  BY <1>3, <1>5, <1>6, <1>7, <1>8, <1>9, <1>10, <1>18

\* What is written says how far the survey is, in the state the interlock is in.
LEMMA SummaryFacts ==
  ASSUME NEW phase
  PROVE  /\ Summary(phase).state = state
         /\ Summary(phase).recorded = Len(outcomes')
         /\ phase # "final" => Summary(phase).phase = phase
         /\ phase = "final" /\ Summary(phase).phase = "completed" =>
              /\ state = "clear" /\ Len(outcomes') = Len(queue)
              /\ \A k \in DOMAIN outcomes' : outcomes'[k].safe
<1>1. CASE phase # "final"
  BY <1>1 DEF Summary
<1>2. CASE phase = "final"
  BY <1>2 DEF Summary
<1>3. QED
  BY <1>1, <1>2

\* The final phase of a survey
LEMMA FinalFacts ==
  ASSUME ending \in {"refused", "aborted", "finished"}
  PROVE  FinalPhase \in {"authorization_failed", "aborted", "final"}
<1>1. CASE ending = "refused"
  BY <1>1 DEF FinalPhase
<1>2. CASE ending = "aborted"
  BY <1>2 DEF FinalPhase
<1>3. CASE ending = "finished"
  BY <1>3 DEF FinalPhase
<1>4. QED
  BY <1>1, <1>2, <1>3

\* The manifest keeps up with the survey and with the interlock.
LEMMA ManifestStep ==
  SurveyInv /\ Places /\ Queued /\ Counted /\ Manifested /\ [Next]_vars => Manifested'
<1> SUFFICES ASSUME SurveyInv, Places, Queued, Counted, Manifested, [Next]_vars
             PROVE  Manifested'
  OBVIOUS
<1> USE DEF request, radio, interlock, progress, evidence, Exit, Abort
<1>0. /\ Len(queue) \in Nat /\ index \in Nat \ {0}
      /\ outcomes \in Seq(Reports) /\ Len(outcomes) \in Nat /\ DOMAIN outcomes = 1..Len(outcomes)
  BY DEF Places, Queued, Counted
<1>1. pc \notin {"manifest", "done"} => state # "clear" /\ manifest.state # "clear"
  BY DEF Manifested
<1>2. /\ pc # "done" => manifest.phase # "completed" /\ exit # 0
  BY DEF Manifested
<1>5. CASE FirstCheckpoint
  <2>1. /\ pc = "first" /\ index' = index /\ index = 1 /\ outcomes = <<>> /\ outcomes' = outcomes
        /\ state' = state
    BY <1>5 DEF FirstCheckpoint, Queued, Preparing
  <2>2. CASE pc' = "inspect"
    <3>1. manifest' = Summary("executing") /\ exit' = exit
      BY <1>5, <2>2 DEF FirstCheckpoint
    <3>2. manifest'.phase = "executing" /\ manifest'.state = state /\ manifest'.recorded = 0
      BY <2>1, <3>1, SummaryFacts
    <3>3. QED
      BY <1>1, <1>2, <2>1, <2>2, <3>1, <3>2 DEF Manifested, Loop
  <2>3. CASE pc' # "inspect"
    <3>1. manifest' = manifest /\ exit' = 11 /\ pc' = "done"
      BY <1>5, <2>3 DEF FirstCheckpoint
    <3>2. QED
      BY <1>1, <1>2, <2>1, <3>1 DEF Manifested, Loop
  <2>4. QED
    BY <2>2, <2>3
<1>10. CASE CheckpointOutcome
  <2>1. /\ pc = "checkpoint" /\ outcomes' = outcomes /\ Len(outcomes) = index
        /\ state' = state /\ exit' = exit /\ pc' \in {"inspect", "stop"}
    BY <1>10 DEF CheckpointOutcome, Counted, Loop
  <2>2. CASE pc' = "inspect"
    <3>1. manifest' = Summary("executing") /\ index' = index + 1
      BY <1>10, <2>2 DEF CheckpointOutcome
    <3>2. manifest'.phase = "executing" /\ manifest'.state = state /\ manifest'.recorded = index
      BY <2>1, <3>1, SummaryFacts
    <3>3. QED
      BY <1>0, <1>1, <1>2, <2>1, <2>2, <3>1, <3>2 DEF Manifested, Loop
  <2>3. CASE pc' = "stop"
    <3>1. manifest' = manifest \/ manifest' = Summary("executing")
      BY <1>10, <2>3 DEF CheckpointOutcome
    <3>2. manifest'.phase # "completed" /\ manifest'.state # "clear"
      <4>1. Summary("executing").phase = "executing" /\ Summary("executing").state = state
        BY SummaryFacts
      <4>2. QED
        BY <1>1, <1>2, <2>1, <3>1, <4>1
    <3>3. QED
      BY <1>1, <1>2, <2>1, <2>3, <3>2 DEF Manifested, Loop
  <2>4. QED
    BY <2>1, <2>2, <2>3
<1>12. CASE ReleaseLease
  <2>1. /\ pc = "release" /\ confirmed /\ ~latch /\ UNCHANGED <<manifest, confirmed, latch>>
        /\ pc' \in {"manifest", "done"}
    BY <1>12 DEF ReleaseLease, Release, OsError, SurveyInv, Settled, Covered
  <2>2. state' = "clear" => ~lease' /\ pc' \in {"manifest", "done"}
    <3>1. state # "clear"
      BY <1>1, <2>1
    <3>2. QED
      BY <1>12, <3>1 DEF ReleaseLease, Release, OsError
  <2>3. exit' # 0
    <3>1. exit' = exit \/ exit' \in {1, 11}
      BY <1>12 DEF ReleaseLease, OsError
    <3>2. QED
      BY <1>2, <2>1, <3>1
  <2>4. QED
    BY <1>1, <1>2, <2>1, <2>2, <2>3 DEF Manifested, Loop
<1>13. CASE LatchUnsafe
  <2>1. /\ pc = "latch" /\ manifest' = manifest /\ pc' \in {"manifest", "done"}
    BY <1>13 DEF LatchUnsafe, OsError
  <2>2. state' # "clear"
    <3>1. state # "clear"
      BY <1>1, <2>1
    <3>2. QED
      BY <1>13, <3>1 DEF LatchUnsafe, OsError
  <2>3. exit' # 0
    <3>1. exit' = exit \/ exit' \in {1, 10, 11}
      BY <1>13 DEF LatchUnsafe, OsError
    <3>2. QED
      BY <1>2, <2>1, <3>1
  <2>4. QED
    BY <1>1, <1>2, <2>1, <2>2, <2>3 DEF Manifested, Loop
<1>14. CASE WriteManifest
  <2>1. /\ pc = "manifest" /\ pc' = "done" /\ ending' = ending
        /\ UNCHANGED <<outcomes, queue, state, confirmed, lease, latch>>
    BY <1>14 DEF WriteManifest
  <2>2. ending \in {"refused", "aborted", "finished"}
    BY <2>1 DEF Places, Leaving
  <2>3. PICK failure \in BOOLEAN : /\ manifest' = IF failure THEN manifest ELSE Summary(FinalPhase)
                                   /\ exit' = ExitStatus(~failure)
    BY <1>14 DEF WriteManifest, Failing
  <2>4. /\ manifest'.state = "clear" => state = "clear"
        /\ manifest'.phase = "completed" =>
             /\ manifest'.state = "clear" /\ Len(outcomes) = Len(queue)
             /\ \A k \in DOMAIN outcomes : outcomes[k].safe
    <3>1. CASE failure
      <4>1. manifest' = manifest
        BY <2>3, <3>1
      <4>2. QED
        BY <1>2, <2>1, <4>1 DEF Manifested
    <3>2. CASE ~failure
      <4>1. manifest' = Summary(FinalPhase)
        BY <2>3, <3>2
      <4>2. FinalPhase # "completed"
        BY <2>2, FinalFacts
      <4>3. /\ Summary(FinalPhase).state = state
            /\ FinalPhase # "final" => Summary(FinalPhase).phase = FinalPhase
            /\ FinalPhase = "final" /\ Summary(FinalPhase).phase = "completed" =>
                 /\ state = "clear" /\ Len(outcomes') = Len(queue)
                 /\ \A k \in DOMAIN outcomes' : outcomes'[k].safe
        BY SummaryFacts
      <4>4. QED
        BY <2>1, <4>1, <4>2, <4>3
    <3>3. QED
      BY <3>1, <3>2
  <2>5. exit' = 0 => /\ ending = "finished" /\ manifest'.phase = "completed"
                     /\ \A k \in DOMAIN outcomes : outcomes[k].ok
    <3>1. (~failure) \in BOOLEAN
      OBVIOUS
    <3>2. QED
      BY <2>2, <2>3, <3>1, ExitFacts
  <2>6. QED
    BY <1>0, <2>1, <2>4, <2>5 DEF Manifested, AllOk, Loop
<1>18. CASE ~(FirstCheckpoint \/ CheckpointOutcome \/ ReleaseLease \/ LatchUnsafe \/ WriteManifest)
  <2>1. UNCHANGED <<manifest, state, lease, latch>>
    BY <1>18 DEF Next, Survey, vars, Mark, StartScanner, Snapshot, Authorize, BeginInspection,
      ConnectDevice, DisconnectDevice, PersistReport, StopScanner, Interrupt, RadioStops, Expire
  <2>2. /\ pc' \in Loop \ {"checkpoint"} => pc \in Loop \ {"checkpoint"} /\ index' = index
        /\ pc = "manifest" => pc' \in {"manifest", "done"}
        /\ pc = "done" => pc' = "done" /\ UNCHANGED <<outcomes, queue, ending, exit>>
        /\ pc \in {"manifest", "done"} /\ confirmed => confirmed'
        /\ exit' \in {exit, 1, 14, 130}
    <3>1. pc' \in Loop \ {"checkpoint"} => pc \in Loop \ {"checkpoint"} /\ index' = index
      BY <1>18 DEF Next, Survey, vars, Mark, StartScanner, Snapshot, Authorize, BeginInspection,
        ConnectDevice, DisconnectDevice, PersistReport, StopScanner, Interrupt, RadioStops, Expire, Loop
    <3>2. pc = "manifest" => pc' \in {"manifest", "done"}
      BY <1>18 DEF Next, Survey, vars, Mark, StartScanner, Snapshot, Authorize, BeginInspection,
        ConnectDevice, DisconnectDevice, PersistReport, StopScanner, Interrupt, RadioStops, Expire
    <3>3. pc = "done" => pc' = "done" /\ UNCHANGED <<outcomes, queue, ending, exit>>
      BY <1>18 DEF Next, Survey, vars, Mark, StartScanner, Snapshot, Authorize, BeginInspection,
        ConnectDevice, DisconnectDevice, PersistReport, StopScanner, Interrupt, RadioStops, Expire
    <3>4. pc \in {"manifest", "done"} /\ confirmed => confirmed'
      BY <1>18 DEF Next, Survey, vars, Mark, StartScanner, Snapshot, Authorize, BeginInspection,
        ConnectDevice, DisconnectDevice, PersistReport, StopScanner, Interrupt, RadioStops, Expire
    <3>5. exit' \in {exit, 1, 14, 130}
      BY <1>18 DEF Next, Survey, vars, Mark, StartScanner, Snapshot, Authorize, BeginInspection,
        ConnectDevice, DisconnectDevice, PersistReport, StopScanner, Interrupt, RadioStops, Expire
    <3>6. QED
      BY <3>1, <3>2, <3>3, <3>4, <3>5
  <2>3. CASE pc = "done"
    <3>1. UNCHANGED <<outcomes, queue, ending, exit>> /\ pc' = "done" /\ (confirmed => confirmed')
      BY <2>2, <2>3
    <3>2. QED
      BY <2>1, <2>3, <3>1 DEF Manifested, AllOk, Loop
  <2>4. CASE pc # "done"
    <3>1. exit' # 0
      BY <1>2, <2>2, <2>4
    <3>2. QED
      BY <1>1, <1>2, <2>1, <2>2, <2>4, <3>1 DEF Manifested
  <2>5. QED
    BY <2>3, <2>4
<1>19. QED
  BY <1>5, <1>10, <1>12, <1>13, <1>14, <1>18

\* Both invariants are ones of the specification.
LEMMA EvidenceAlways == Spec => [](SurveyInv /\ EvidenceInv)
<1> DEFINE I == SurveyInv /\ EvidenceInv
<1>1. Init => I
  BY InitInv, EvidenceInit
<1>2. I /\ [Next]_vars => I'
  <2> SUFFICES ASSUME SurveyInv, EvidenceInv, [Next]_vars PROVE I'
    OBVIOUS
  <2>1. SurveyInv'
    BY NextInv
  <2>2. Places' /\ Switches'
    BY PlacesStep, SwitchesStep DEF EvidenceInv
  <2>3. Queued' /\ DialledInOrder'
    BY QueuedStep, DialStep DEF EvidenceInv
  <2>4. Counted' /\ Manifested'
    BY CountedStep, ManifestStep DEF EvidenceInv
  <2>5. QED
    BY <2>1, <2>2, <2>3, <2>4 DEF EvidenceInv
<1> HIDE DEF I
<1>3. Spec => []I
  BY <1>1, <1>2, PTL DEF Spec
<1>4. QED
  BY <1>3, PTL DEF I

\* The survey's variables have their types: each record of the queue is
\* permitted, and whatever was dialled or is connected stands in the queue.
THEOREM TypeCorrect == Spec => []TypeOK
<1>1. SurveyInv /\ EvidenceInv => TypeOK
  <2> SUFFICES ASSUME SurveyInv, EvidenceInv PROVE TypeOK
    OBVIOUS
  <2>1. Places /\ Switches /\ Queued /\ DialledInOrder /\ Counted
    BY DEF EvidenceInv
  <2>2. /\ permitted \subseteq Addresses /\ authorized \subseteq Addresses
        /\ ending \in {"none", "failed", "refused", "aborted", "finished"}
        /\ state \in {"active", "clear", "recovery_required", "uncertain"}
        /\ exit \in {Running, 0, 1, 9, 10, 11, 12, 13, 14, 130}
        /\ pc \in {"mark", "discover", "snapshot", "authorize", "first", "inspect",
             "connecting", "disconnecting", "persist", "checkpoint",
             "stop", "release", "latch", "manifest", "done"}
    BY <2>1 DEF Places, Loop, Preparing, Leaving
  <2>3. {auth, scanning, confirmed, lease, latch} \subseteq BOOLEAN
    BY <2>1, Zenon DEF Switches, SurveyInv, Settled
  <2>4. queue \in Seq(permitted) /\ index \in 1..Len(queue) + 1 /\ Len(queue) \in Nat
    BY <2>1 DEF Queued
  <2>5. links \subseteq ToSet(dialled)
    BY <2>1 DEF DialledInOrder, ToSet
  <2>6. dialled \in Seq(ToSet(queue))
    <3>1. \A k \in 1..Len(dialled) : dialled[k] \in ToSet(queue)
      <4>1. DOMAIN queue = 1..Len(queue)
        BY <2>4
      <4>2. \A k \in 1..Len(dialled) : \E j \in 1..Len(queue) : dialled[k] = queue[j]
        BY <2>1 DEF DialledInOrder
      <4>3. QED
        BY <4>1, <4>2 DEF ToSet
    <3>2. dialled \in Seq(Addresses)
      BY <2>1 DEF DialledInOrder
    <3> DEFINE Q == ToSet(queue)
    <3> HIDE DEF Q
    <3>3. \A k \in 1..Len(dialled) : dialled[k] \in Q
      BY <3>1 DEF Q
    <3>4. dialled \in Seq(Q)
      BY <3>2, <3>3
    <3>5. QED
      BY <3>4 DEF Q
  <2>7. /\ report \in [ok: BOOLEAN, safe: BOOLEAN] /\ outcomes \in Seq([ok: BOOLEAN, safe: BOOLEAN])
    BY <2>1 DEF Counted, Reports
  <2>8. files \subseteq DOMAIN queue
    <3>1. Len(outcomes) \in Nat /\ DOMAIN queue = 1..Len(queue)
      BY <2>4, <2>7
    <3>2. QED
      BY <2>1, <2>4, <3>1 DEF Counted
  <2>9. QED
    BY <2>2, <2>3, <2>4, <2>5, <2>6, <2>7, <2>8 DEF TypeOK
<1>2. QED
  BY EvidenceAlways, <1>1, PTL

\* The manifest on disk is true at every moment of the survey and after it:
\* a device is dialled only when all before it are reported and recorded, a
\* manifest that says "clear" is one of a quiet radio and a free interlock, and
\* success is reported only of a survey that inspected and left every device.
THEOREM ManifestHolds == Spec => []ManifestIsTrue
<1>1. SurveyInv /\ EvidenceInv => ManifestIsTrue
  <2> SUFFICES ASSUME SurveyInv, EvidenceInv PROVE ManifestIsTrue
    OBVIOUS
  <2>1. /\ Len(queue) \in Nat /\ DOMAIN queue = 1..Len(queue)
        /\ Len(outcomes) \in Nat /\ DOMAIN outcomes = 1..Len(outcomes)
        /\ Counted /\ Manifested
    BY DEF EvidenceInv, Queued, Counted
  <2>2. pc \in {"connecting", "disconnecting"} =>
          /\ files = 1..index - 1
          /\ manifest.phase = "executing" /\ manifest.recorded = index - 1
    BY <2>1 DEF Counted, Manifested, Loop
  <2>3. state = "clear" => Quiet /\ ~lease /\ ~latch
    BY <2>1 DEF Manifested, SurveyInv, Settled
  <2>4. manifest.state = "clear" => Quiet /\ ~lease /\ ~latch
    BY <2>1, <2>3 DEF Manifested
  <2>5. manifest.phase = "completed" =>
          /\ manifest.state = "clear" /\ files = DOMAIN queue
          /\ \A k \in DOMAIN outcomes : outcomes[k].safe
    BY <2>1 DEF Manifested, Counted
  <2>6. exit = 0 => /\ manifest.phase = "completed"
                    /\ Len(dialled) = Len(queue) /\ \A k \in DOMAIN outcomes : outcomes[k].ok
    BY <2>1 DEF Manifested, Counted, AllOk
  <2>7. QED
    BY <2>2, <2>4, <2>5, <2>6 DEF ManifestIsTrue
<1>2. QED
  BY EvidenceAlways, <1>1, PTL

\* Every device that is dialled is permitted and authorized at that moment,
\* comes after all that were dialled before it, and keeps the limit.
THEOREM ScopeIsRespected == Spec => ScopeRespected
<1> DEFINE InScope == dialled' # dialled =>
             LET device == dialled'[Len(dialled')]
             IN /\ auth /\ device \in permitted \cap authorized
                /\ \A k \in DOMAIN dialled : dialled[k] < device
                /\ Len(dialled') <= MaxDevices
<1>1. EvidenceInv /\ [Next]_vars => InScope
  <2> SUFFICES ASSUME EvidenceInv, [Next]_vars, dialled' # dialled PROVE InScope
    OBVIOUS
  <2>1. BeginInspection
    BY DEF Next, Survey, vars, request, radio, interlock, progress, evidence, Exit, Abort,
      Mark, StartScanner, Snapshot, Authorize, FirstCheckpoint, ConnectDevice, DisconnectDevice,
      PersistReport, CheckpointOutcome, StopScanner, ReleaseLease, LatchUnsafe, WriteManifest,
      Interrupt, RadioStops, Expire
  <2>2. /\ pc = "inspect" /\ index <= Len(queue) /\ Authorized({queue[index]})
        /\ dialled' = Append(dialled, queue[index])
    BY <2>1 DEF BeginInspection
  <2>3. auth /\ queue[index] \in authorized
    BY <2>2 DEF Authorized
  <2>4. /\ queue \in Seq(permitted) /\ index \in 1..Len(queue) /\ Len(queue) \in Nat
        /\ Len(queue) <= MaxDevices /\ Increasing(queue)
    BY <2>2 DEF EvidenceInv, Queued
  <2>5. queue[index] \in permitted /\ queue[index] \in Addresses
    BY <2>4 DEF EvidenceInv, Places
  <2>6. /\ dialled \in Seq(Addresses) /\ DOMAIN dialled = 1..Len(dialled) /\ Len(dialled) \in Nat
        /\ Len(dialled) <= index - 1
        /\ \A k \in 1..Len(dialled) : \E j \in 1..Len(queue) : dialled[k] = queue[j] /\ j < index
    BY <2>2 DEF EvidenceInv, DialledInOrder
  <2>7. \A k \in DOMAIN dialled : dialled[k] < queue[index]
    BY <2>4, <2>6 DEF Increasing
  <2>8. Len(dialled') = Len(dialled) + 1 /\ dialled'[Len(dialled')] = queue[index]
    <3> DEFINE a == queue[index]
    <3>1. a \in Addresses /\ dialled' = Append(dialled, a)
      BY <2>2, <2>5
    <3> HIDE DEF a
    <3>2. Len(dialled') = Len(dialled) + 1 /\ dialled'[Len(dialled) + 1] = a
      <4>1. dialled \in Seq(Addresses)
        BY <2>6
      <4>2. Len(Append(dialled, a)) = Len(dialled) + 1 /\ Append(dialled, a)[Len(dialled) + 1] = a
        BY <3>1, <4>1
      <4>3. QED
        BY <3>1, <4>2
    <3>3. QED
      BY <3>2 DEF a
  <2>9. Len(dialled') <= MaxDevices
    BY <2>4, <2>6, <2>8, SurveyAssumption
  <2>10. QED
    BY <2>3, <2>5, <2>7, <2>8, <2>9
<1> HIDE DEF InScope
<1>3. Spec => [][InScope]_vars
  BY EvidenceAlways, <1>1, PTL DEF Spec
<1>4. QED
  BY <1>3 DEF ScopeRespected, InScope

-----------------------------------------------------------------------------
(* The survey is a client of the interlock *)

\* A step between two places before the interlock is called again.
LEMMA StillWorking ==
  ASSUME pc \in Working, pc' \in Working
  PROVE  UNCHANGED Client!vars
  BY DEF Working, Stage, Session, Client!vars

\* After the scanner has been stopped, what the survey has settled stays.
LEMMA SessionStays ==
  ASSUME SurveyInv, SurveyInv', pc \in Ended, pc' \in Ended, UNCHANGED <<ending, confirmed>>
  PROVE  Session' = Session
<1>1. Stage \notin {"rf", "leased"} /\ Stage' \notin {"rf", "leased"}
  BY DEF Stage, Ended
<1>2. confirmed => Quiet /\ Quiet'
  BY DEF SurveyInv, Settled, Ended
<1>3. QED
  BY <1>1, <1>2 DEF Session

\* A survey that ends while its session is open.
LEMMA Abandons ==
  ASSUME pc \in Working, pc' = "done", ~confirmed'
  PROVE  Client!Abandon
<1>1. Stage = "rf" /\ Stage' = "over"
  BY DEF Stage, Working
<1>2. Session = "open" /\ Session' = "unconfirmed"
  BY <1>1 DEF Session
<1>3. QED
  BY <1>1, <1>2 DEF Client!Abandon

\* Each step is one of the interlock's client, or is not seen by it.
LEMMA StepRefines ==
  ASSUME SurveyInv, SurveyInv', [Next]_vars
  PROVE  [Client!Next \/ Client!Abandon]_(Client!vars)
<1> USE DEF request, radio, interlock, progress, evidence, Exit, Abort
<1>1. CASE Mark
  <2>1. ending = "none" /\ ending' = "none" /\ confirmed' = confirmed /\ pc = "mark"
    BY <1>1 DEF Mark, SurveyInv, Settled
  <2>2. Stage = "leased" /\ Session = "none"
    BY <2>1 DEF Stage, Session
  <2>3. CASE pc' = "discover"
    <3>1. Stage' = "rf" /\ Session' = "open"
      BY <2>3 DEF Stage, Session
    <3>2. QED
      BY <2>2, <3>1 DEF Client!Next, Client!StartRF
  <2>4. CASE pc' = "done"
    <3>1. confirmed
      BY <2>1 DEF SurveyInv, Settled
    <3>2. Stage' = "over" /\ Session' = "none"
      BY <2>1, <2>4, <3>1 DEF Stage, Session
    <3>3. QED
      BY <2>2, <3>2 DEF Client!Abandon
  <2>5. QED
    BY <1>1, <2>3, <2>4 DEF Mark
<1>2. CASE \/ Authorize \/ BeginInspection \/ ConnectDevice \/ DisconnectDevice
           \/ PersistReport \/ CheckpointOutcome
  <2>1. pc \in Working /\ pc' \in Working
    BY <1>2 DEF Authorize, BeginInspection, ConnectDevice, DisconnectDevice, PersistReport,
       CheckpointOutcome, Working
  <2>2. QED
    BY <2>1, StillWorking
<1>3. CASE FirstCheckpoint
  <2>1. CASE pc' = "inspect"
    BY <1>3, <2>1, StillWorking DEF FirstCheckpoint, Working
  <2>2. CASE pc' = "done"
    BY <1>3, <2>2, Abandons DEF FirstCheckpoint, Working
  <2>3. QED
    BY <1>3, <2>1, <2>2 DEF FirstCheckpoint
<1>4. CASE StartScanner \/ Snapshot \/ StopScanner
  <2>1. CASE pc' \in Working
    BY <1>4, <2>1, StillWorking DEF StartScanner, Snapshot, StopScanner, Working
  <2>2. CASE pc' \in {"release", "latch"}
    <3>1. Stage = "rf" /\ Session = "open"
      BY <1>4 DEF StartScanner, Snapshot, StopScanner, Stage, Session
    <3>2. ending' # "none"
      BY <2>2 DEF SurveyInv, Settled
    <3>3. CASE pc' = "latch"
      <4>1. Stage' = "latching" /\ ~confirmed'
        BY <3>3 DEF Stage, SurveyInv, Settled
      <4>2. Session' = "unconfirmed"
        BY <4>1 DEF Session
      <4>3. QED
        BY <3>1, <4>1, <4>2 DEF Client!Next, Client!EndUnconfirmed
    <3>4. CASE pc' = "release"
      <4>1. Stage' = "releasing" /\ confirmed' /\ Quiet'
        BY <3>4 DEF Stage, SurveyInv, Settled
      <4>2. Session' = "closed"
        BY <3>2, <4>1 DEF Session
      <4>3. QED
        BY <3>1, <4>1, <4>2 DEF Client!Next, Client!EndConfirmed
    <3>5. QED
      BY <2>2, <3>3, <3>4
  <2>3. QED
    BY <1>4, <2>1, <2>2 DEF StartScanner, Snapshot, StopScanner, Working
<1>5. CASE ReleaseLease \/ LatchUnsafe \/ WriteManifest
  <2>1. /\ pc \in {"release", "latch", "manifest"} /\ pc' \in {"manifest", "done"}
        /\ UNCHANGED <<ending, confirmed>>
    BY <1>5 DEF ReleaseLease, LatchUnsafe, WriteManifest, OsError
  <2>2. Session' = Session
    BY <2>1, SessionStays DEF Ended
  <2>3. Stage \in {"releasing", "latching", "over"} /\ Stage' = "over"
    BY <2>1 DEF Stage
  <2>4. QED
    BY <2>2, <2>3 DEF Client!Next, Client!Finish, Client!vars
<1>6. CASE Interrupt
  <2>1. pc' = "done" /\ ending' = ending
    BY <1>6 DEF Interrupt
  <2>2. CASE pc = "mark"
    <3>1. ending = "none" /\ confirmed' = confirmed /\ confirmed
      BY <1>6, <2>2 DEF Interrupt, SurveyInv, Settled
    <3>2. Stage = "leased" /\ Session = "none" /\ Stage' = "over" /\ Session' = "none"
      BY <2>1, <2>2, <3>1 DEF Stage, Session
    <3>3. QED
      BY <3>2 DEF Client!Abandon
  <2>3. CASE pc \in Working
    BY <1>6, <2>1, <2>3, Abandons DEF Interrupt, Working
  <2>4. CASE pc \in Ended
    <3>1. confirmed' = confirmed
      <4>1. CASE pc = "done"
        BY <1>6, <4>1 DEF Interrupt
      <4>2. CASE pc \in {"release", "latch", "manifest"}
        <5>1. confirmed \in BOOLEAN /\ confirmed' \in BOOLEAN
          BY DEF SurveyInv, Settled
        <5>2. confirmed' <=> confirmed
          BY <1>6, <4>2, Zenon DEF Interrupt
        <5>3. QED
          BY <5>1, <5>2, Zenon
      <4>3. QED
        BY <2>4, <4>1, <4>2 DEF Ended
    <3>2. Session' = Session
      BY <2>1, <2>4, <3>1, SessionStays DEF Ended
    <3>3. Stage \in {"releasing", "latching", "over"} /\ Stage' = "over"
      BY <2>1, <2>4 DEF Ended, Stage
    <3>4. QED
      BY <3>2, <3>3 DEF Client!Next, Client!Finish, Client!vars
  <2>5. QED
    BY <2>2, <2>3, <2>4 DEF SurveyInv, NoLink, Settled, Working, Ended
<1>7. CASE RadioStops \/ Expire \/ UNCHANGED vars
  <2>1. UNCHANGED <<pc, ending, confirmed>>
    BY <1>7 DEF RadioStops, Expire, vars
  <2>2. Stage' = Stage
    BY <2>1 DEF Stage
  <2>3. CASE pc \in Ended
    BY <2>1, <2>2, <2>3, SessionStays DEF Client!vars
  <2>4. CASE pc \notin Ended
    <3>1. Stage \in {"leased", "rf"}
      BY <2>4 DEF Stage, Ended
    <3>2. QED
      BY <2>2, <3>1 DEF Session, Client!vars
  <2>5. QED
    BY <2>3, <2>4
<1>8. QED
  BY <1>1, <1>2, <1>3, <1>4, <1>5, <1>6, <1>7 DEF Next, Survey

\* The survey marks the lease before it discovers, gives it back only after a
\* session that ended confirmed, and may be ended at any point with its lease in
\* place.
THEOREM Refinement == Spec => InterlockClientSpec
<1>1. Init => Client!Init
  BY DEF Init, Client!Init, Stage, Session
<1>2. SurveyInv /\ SurveyInv' /\ [Next]_vars => [Client!Next \/ Client!Abandon]_(Client!vars)
  BY StepRefines
<1>3. QED
  BY Invariance, <1>1, <1>2, PTL DEF Spec, InterlockClientSpec, Client!AbandoningSpec
=============================================================================
