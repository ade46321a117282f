------------------------- MODULE GattExecutorProofs -------------------------
(***************************************************************************)
(* Proofs about one call of execute_plan, for plans of any length, any      *)
(* capture limits and every failure: one link at most and a lease or latch  *)
(* while it is up, operations handed out once, in order and on durable      *)
(* evidence, a summary that is true, and the interlock used as              *)
(* InterlockClient says.                                                    *)
(***************************************************************************)
EXTENDS GattExecutor, FiniteSetTheorems, TLAPS

-----------------------------------------------------------------------------
(* The invariant *)

\* Where execute_plan is working on the operation index
InOperation == {"switch", "prepare", "discover", "connect", "reuse", "perform", "subscribed",
                "persist", "fail"}
\* Where it has not failed yet
Going == {"next", "switch", "prepare", "discover", "connect", "reuse", "perform",
          "subscribed", "persist"}

Typed ==
  /\ plan \in Plans /\ index \in 1..Len(plan) + 1
  /\ pc \in InOperation => index <= Len(plan)
  /\ success \in BOOLEAN
  /\ files \in [DOMAIN plan -> Record] /\ results \subseteq DOMAIN plan
  /\ handed \in [DOMAIN plan -> Nat] /\ dialled \in [DOMAIN plan -> Nat]

\* One link at most; unless the run is unsafe, it is the current client's, which
\* reports it.
Linked ==
  /\ links \subseteq Targets /\ notifying \subseteq links
  /\ \A s, t \in links : s = t
  /\ ~unsafe => links \subseteq {client}
  /\ ~unsafe /\ links # {} => connected
  /\ pc \in Going \cup {"setup", "aborted", "release"} => ~unsafe
  /\ pc \in {"setup", "aborted", "prepare", "discover", "connect", "release"} => links = {}
  /\ pc \in {"reuse", "perform", "subscribed", "persist"} => client = Op.target
  /\ pc \in {"latch", "final", "done"} /\ ~unsafe => links = {}

\* The lease stays until the link is down, or the latch is there.
Covered ==
  /\ pc \notin {"aborted", "latch", "final", "done"} => lease
  /\ links # {} => lease \/ latch
  /\ latch => recovery
  /\ recovery => pc \in {"latch", "final", "done"}
  /\ pc \in {"final", "done"} /\ ~recovery => ~lease /\ links = {}

Succeeded == [success |-> TRUE, effect |-> "succeeded"]

\* Behind the index are durable records of success, at it is what the place in the
\* code allows, and beyond it nothing.
Ordered ==
  \A k \in DOMAIN plan :
    /\ handed[k] <= 1 /\ dialled[k] <= 1
    /\ k < index => k \in results /\ files[k] = Succeeded
    /\ k > index => handed[k] = 0 /\ dialled[k] = 0 /\ files[k] = NoRecord /\ k \notin results
    /\ k = index /\ pc \in Going \cup {"setup"} =>
         files[k] = NoRecord /\ k \notin results
    /\ k = index /\ pc \in {"setup", "next", "switch", "prepare", "discover", "connect",
                            "reuse", "perform"} => handed[k] = 0
    /\ k = index /\ pc \in {"setup", "next", "switch", "prepare", "discover", "connect"} =>
         dialled[k] = 0
    /\ k = index /\ pc \in {"subscribed", "persist"} => handed[k] = 1
    /\ files[k].effect = "succeeded" => handed[k] = 1

\* connect is called only for a target other than that of the operation before.
Dialled ==
  /\ pc = "setup" => index = 1 /\ ~rfStarted
  /\ pc = "next" /\ index > 1 => client = plan[index - 1].target
  /\ pc \in {"switch", "prepare", "discover", "connect"} /\ index > 1 =>
       plan[index - 1].target # Op.target
  /\ \A k \in DOMAIN plan : dialled[k] = 1 /\ k > 1 => plan[k - 1].target # plan[k].target

\* What the summary will be made of
Told ==
  /\ pc \in Going \cup {"setup"} => ~failed
  /\ unsafe /\ pc \notin {"fail", "cleanup"} => failed
  /\ recovery => failed
  /\ \A k \in results :
       files[k] # NoRecord /\ (files[k].effect = "succeeded" \/ failed)
  /\ pc \in {"discover", "connect", "perform", "subscribed", "persist"} => rfStarted
  /\ ~rfStarted => /\ client = NoTarget /\ ~connected /\ ~unsafe /\ links = {}
                   /\ \A k \in DOMAIN plan : dialled[k] = 0
  /\ final # {} => pc = "done"
  /\ SummaryIsTrue

ExecutorInv == Typed /\ Linked /\ Covered /\ Ordered /\ Dialled /\ Told

-----------------------------------------------------------------------------
(* The invariant holds *)

\* A plan is a sequence of operations on peers.
LEMMA PlanFacts ==
  ASSUME plan \in Plans
  PROVE  /\ Len(plan) \in Nat /\ DOMAIN plan = 1..Len(plan)
         /\ \A k \in 1..Len(plan) : plan[k] \in Operations /\ plan[k].target \in Targets
<1>1. PICK n \in 1..MaxOps : plan \in [1..n -> Operations]
  BY DEF Plans
<1>2. n \in Nat /\ plan \in Seq(Operations) /\ Len(plan) = n
  BY <1>1, ExecutorAssumption
<1>3. QED
  BY <1>1, <1>2 DEF Operations

\* The lease has just been acquired for a plan, and nothing is done.
LEMMA InitInv == Init => ExecutorInv
<1> SUFFICES ASSUME Init PROVE ExecutorInv
  OBVIOUS
<1>0. Len(plan) \in Nat /\ DOMAIN plan = 1..Len(plan)
  BY PlanFacts DEF Init
<1>1. NoRecord \in Record
  BY DEF NoRecord, Record
<1>2. Typed
  <2>1. index \in 1..Len(plan) + 1
    BY <1>0 DEF Init
  <2>2. plan \in Plans /\ success \in BOOLEAN
    BY DEF Init
  <2>3. files \in [DOMAIN plan -> Record]
    BY <1>1 DEF Init
  <2>4. handed \in [DOMAIN plan -> Nat] /\ dialled \in [DOMAIN plan -> Nat]
    BY DEF Init
  <2>5. QED
    BY <2>1, <2>2, <2>3, <2>4 DEF Init, Typed, InOperation
<1>3. Linked /\ Covered
  BY DEF Init, Linked, Covered, Going
<1>4. Ordered
  BY <1>0 DEF Init, Ordered, NoRecord
<1>5. Dialled /\ Told
  BY DEF Init, Dialled, Told, SummaryIsTrue
<1>6. QED
  BY <1>2, <1>3, <1>4, <1>5 DEF ExecutorInv

\* Every step of the executor, the peers and the clock keeps the invariant.
LEMMA NextInv ==
  ASSUME ExecutorInv, [Next]_vars
  PROVE  ExecutorInv'
<1> USE DEF ExecutorInv, Typed, Linked, Covered, Ordered, Dialled, Told, InOperation, Going, Op,
            SummaryIsTrue,
            plant, interlock, evidence, progress, history
<1>0. /\ Len(plan) \in Nat /\ DOMAIN plan = 1..Len(plan) /\ index \in 1..Len(plan) + 1
      /\ \A k \in 1..Len(plan) : plan[k] \in Operations /\ plan[k].target \in Targets
  BY PlanFacts
<1>1. CASE SetUp
  <2>1. /\ pc = "setup" /\ links = {} /\ lease /\ ~recovery /\ ~latch /\ final = {}
        /\ ~failed /\ ~unsafe
        /\ UNCHANGED <<plan, index, success, client, plant, evidence, progress, history>>
    BY <1>1 DEF SetUp
  <2>2. /\ (pc' = "next" /\ lease' = lease) \/ pc' = "aborted"
        /\ UNCHANGED <<latch, recovery>>
    BY <1>1 DEF SetUp
  <2>3. Typed' /\ Linked' /\ Covered'
    BY <2>1, <2>2
  <2>4. Ordered'
    BY <2>1, <2>2
  <2>5. Dialled'
    BY <1>1, <2>1 DEF SetUp
  <2>6. Told
    OBVIOUS
  <2> HIDE DEF ExecutorInv, Typed, Linked, Covered, Ordered, Dialled
  <2>7. Told'
    BY <2>1, <2>2, <2>6
  <2>8. QED
    BY <2>3, <2>4, <2>5, <2>7 DEF ExecutorInv
<1>2. CASE BeginOp
  <2>1. Typed' /\ Covered'
    BY <1>0, <1>2 DEF BeginOp
  <2>2. Linked'
    BY <1>0, <1>2, ExecutorAssumption DEF BeginOp
  <2>3. Ordered'
    BY <1>0, <1>2 DEF BeginOp
  <2>4. Dialled'
    BY <1>0, <1>2, ExecutorAssumption DEF BeginOp
  <2>5. Told'
    BY <1>0, <1>2 DEF BeginOp
  <2>6. QED
    BY <2>1, <2>2, <2>3, <2>4, <2>5
<1>3. CASE SwitchTarget
  BY <1>0, <1>3, ExecutorAssumption DEF SwitchTarget, DisconnectCurrent
<1>4. CASE PrepareRF
  BY <1>0, <1>4, ExecutorAssumption DEF PrepareRF
<1>5. CASE Discover
  BY <1>0, <1>5, ExecutorAssumption DEF Discover
<1>6. CASE Connect
  <2>1. Op.target \in Targets /\ index \in DOMAIN plan
    BY <1>0, <1>6 DEF Connect
  <2>2. Typed'
    BY <1>6, <2>1 DEF Connect
  <2>3. Linked' /\ Covered'
    BY <1>6, <2>1 DEF Connect
  <2>4. Ordered'
    BY <1>0, <1>6 DEF Connect
  <2>5. Dialled'
    BY <1>0, <1>6 DEF Connect
  <2>6. Told'
    BY <1>0, <1>6 DEF Connect
  <2>7. QED
    BY <2>2, <2>3, <2>4, <2>5, <2>6
<1>7. CASE ReuseConnection
  BY <1>0, <1>7, ExecutorAssumption DEF ReuseConnection
<1>8. CASE RefuseOp
  BY <1>0, <1>8, ExecutorAssumption DEF RefuseOp
<1>9. CASE Request
  BY <1>0, <1>9, ExecutorAssumption DEF Request, HandToClient
<1>10. CASE Subscribe
  BY <1>0, <1>10, ExecutorAssumption DEF Subscribe, HandToClient
<1>11. CASE StopNotify
  BY <1>0, <1>11, ExecutorAssumption DEF StopNotify
<1>12. CASE PersistSuccess
  <2>1. /\ index \in DOMAIN plan /\ Succeeded \in Record
        /\ pc = "persist" /\ ~failed /\ ~unsafe /\ final = {} /\ rfStarted /\ ~recovery
    BY <1>0, <1>12 DEF PersistSuccess, Succeeded, Record
  <2>2. UNCHANGED <<plan, client, plant, rfStarted, unsafe, disconnect, interlock, final,
                    history>>
    BY <1>12 DEF PersistSuccess
  <2>3. files' = files \/ files' = [files EXCEPT ![index] = Succeeded]
    BY <1>12 DEF PersistSuccess, Appears, CreateOutcomes, Succeeded
  <2>4. files' \in [DOMAIN plan -> Record]
    BY <2>1, <2>3
  <2>5. Typed'
    BY <1>0, <1>12, <2>1, <2>4 DEF PersistSuccess
  <2>6. Linked' /\ Covered' /\ Dialled'
    BY <1>0, <1>12, <2>1 DEF PersistSuccess
  <2>7. CASE pc' = "fail"
    <3>1. index' = index /\ results' = results /\ failed' = failed
      BY <1>12, <2>7 DEF PersistSuccess
    <3>2. \A k \in DOMAIN plan : files'[k] = files[k] \/ (k = index /\ files'[k] = Succeeded)
      BY <2>1, <2>3
    <3>3. Ordered'
      BY <1>0, <2>1, <2>2, <2>7, <3>1, <3>2
    <3>4. Told'
      BY <2>1, <2>2, <2>3, <2>7, <3>1 DEF Succeeded, NoRecord
    <3>5. QED
      BY <2>5, <2>6, <3>3, <3>4
  <2>8. CASE pc' # "fail"
    <3>1. /\ files' = [files EXCEPT ![index] = Succeeded] /\ results' = results \cup {index}
          /\ pc' \in {"next", "cleanup"} /\ index' \in {index, index + 1}
          /\ pc' = "next" => index' = index + 1 /\ ~failed'
      BY <1>12, <2>1, <2>8 DEF PersistSuccess, Appears, CreateOutcomes, Succeeded
    <3>2. \A k \in DOMAIN plan : files'[k] = IF k = index THEN Succeeded ELSE files[k]
      BY <3>1
    <3>3. Ordered'
      BY <1>0, <2>1, <2>2, <3>1, <3>2
    <3>4. \A k \in results' : files'[k] # NoRecord /\ files'[k].effect = "succeeded"
      BY <2>1, <3>1, <3>2 DEF Succeeded, NoRecord
    <3>5. Told'
      BY <2>1, <2>2, <3>1, <3>4
    <3>6. QED
      BY <2>5, <2>6, <3>3, <3>5
  <2>9. QED
    BY <2>7, <2>8
<1>13. CASE RecordFailure
  <2> DEFINE failure == [success |-> success, effect |-> "failed"]
  <2>1. index \in DOMAIN plan /\ pc = "fail" /\ pc' = "cleanup" /\ failed'
    BY <1>0, <1>13 DEF RecordFailure
  <2>2. /\ \/ files' = files
           \/ files[index] = NoRecord /\ files' = [files EXCEPT ![index] = failure]
        /\ \/ results' = results
           \/ files' = [files EXCEPT ![index] = failure] /\ results' = results \cup {index}
    BY <1>13 DEF RecordFailure, Appears, CreateOutcomes
  <2>3. failure \in Record /\ failure.effect = "failed"
    BY DEF Record
  <2>4. failure # NoRecord
    BY <2>3 DEF NoRecord
  <2>5. UNCHANGED <<plan, index, client, plant, rfStarted, unsafe, success, interlock, final,
                    history>>
    BY <1>13 DEF RecordFailure
  <2> HIDE DEF failure
  <2>6. Typed' /\ Linked' /\ Covered' /\ Dialled'
    BY <2>1, <2>2, <2>3, <2>5
  <2>7. \A k \in DOMAIN plan : files'[k] = files[k] \/ (k = index /\ files'[k] = failure)
    BY <2>1, <2>2
  <2>8. Ordered'
    BY <1>0, <2>1, <2>2, <2>3, <2>5, <2>7
  <2>9. Told'
    BY <2>1, <2>2, <2>3, <2>4, <2>5, <2>7
  <2>10. QED
    BY <2>6, <2>8, <2>9
<1>14. CASE FinalDisconnect
  <2>1. /\ pc = "cleanup" /\ pc' = (IF unsafe' THEN "latch" ELSE "release")
        /\ unsafe' \/ failed => failed'
        /\ UNCHANGED <<plan, index, success, rfStarted, interlock, evidence, history>>
    BY <1>14 DEF FinalDisconnect
  <2>2. Linked'
    BY <1>14, ExecutorAssumption DEF FinalDisconnect, DisconnectCurrent
  <2>3. Typed' /\ Covered' /\ Ordered' /\ Dialled'
    BY <2>1, <2>2
  <2>4. ~rfStarted => client' = NoTarget /\ ~connected' /\ ~unsafe' /\ links' = {}
    BY <1>14 DEF FinalDisconnect, DisconnectCurrent
  <2>5. Told'
    BY <2>1, <2>4
  <2>6. QED
    BY <2>2, <2>3, <2>5
<1>15. CASE ReleaseLease
  <2>1. /\ pc = "release" /\ links = {} /\ ~latch /\ ~unsafe
        /\ UNCHANGED <<plan, index, client, plant, latch, evidence, rfStarted, unsafe, success,
                       disconnect, history>>
    BY <1>15 DEF ReleaseLease
  <2>2. \/ ~lease' /\ pc' = "final" /\ UNCHANGED <<failed, recovery>>
        \/ pc' = "latch" /\ failed' /\ recovery'
    BY <1>15 DEF ReleaseLease
  <2>3. Typed' /\ Linked' /\ Covered' /\ Ordered' /\ Dialled'
    BY <2>1, <2>2
  <2>4. Told'
    BY <2>1, <2>2
  <2>5. QED
    BY <2>3, <2>4
<1>16. CASE LatchUnsafe
  BY <1>0, <1>16, ExecutorAssumption DEF LatchUnsafe
<1>17. CASE WriteFinal
  <2>1. /\ pc = "final" /\ pc' = "done" /\ final = {}
        /\ UNCHANGED <<plan, index, client, plant, interlock, files, results, progress, history>>
    BY <1>17 DEF WriteFinal
  <2>2. \A f \in final' : f = Summary
    BY <1>17, <2>1 DEF WriteFinal
  <2>3. /\ Summary.recorded = results
        /\ Summary.successful = {k \in results : files[k].effect = "succeeded"}
        /\ Summary.complete => ~failed /\ results = DOMAIN plan
        /\ Summary.rfPerformed = rfStarted
        /\ Summary.state = IF recovery THEN "recovery_required" ELSE "clear"
    BY DEF Summary
  <2>4. ~failed => ~unsafe /\ ~recovery /\ \A k \in results : files[k].effect = "succeeded"
    BY <2>1
  <2>5. Summary.complete =>
          Summary.successful = DOMAIN plan /\ ~unsafe /\ Summary.state = "clear"
    BY <2>3, <2>4
  <2>6. /\ \A k \in Summary.recorded : files[k] # NoRecord
        /\ \A k \in Summary.successful : handed[k] = 1
    BY <2>3
  <2>7. Summary.state = "clear" => links = {} /\ notifying = {} /\ ~lease /\ ~latch
    BY <2>1, <2>3
  <2>8. ~Summary.rfPerformed => \A k \in DOMAIN plan : dialled[k] = 0
    BY <2>3
  <2> HIDE DEF Summary
  <2>9. SummaryIsTrue'
    BY <2>1, <2>2, <2>5, <2>6, <2>7, <2>8
  <2>10. Typed' /\ Linked' /\ Covered' /\ Ordered' /\ Dialled'
    BY <2>1
  <2>11. Told'
    BY <2>1, <2>9
  <2>12. QED
    BY <2>10, <2>11
<1>18. CASE Notification
  BY <1>0, <1>18, ExecutorAssumption DEF Notification
<1>19. CASE PeerDrops
  BY <1>0, <1>19, ExecutorAssumption DEF PeerDrops
<1>20. CASE NoticeLoss
  BY <1>0, <1>20, ExecutorAssumption DEF NoticeLoss
<1>21. CASE Expire
  BY <1>0, <1>21, ExecutorAssumption DEF Expire
<1>22. CASE UNCHANGED vars
  BY <1>22 DEF vars
<1>23. QED
  BY <1>1, <1>2, <1>3, <1>4, <1>5, <1>6, <1>7, <1>8, <1>9, <1>10, <1>11, <1>12, <1>13,
     <1>14, <1>15, <1>16, <1>17, <1>18, <1>19, <1>20, <1>21, <1>22
  DEF Next, Executor, Environment

\* The inductive invariant is one of the specification.
LEMMA Invariance == Spec => []ExecutorInv
<1>1. Init => ExecutorInv
  BY InitInv
<1>2. ExecutorInv /\ [Next]_vars => ExecutorInv'
  BY NextInv
<1>3. QED
  BY <1>1, <1>2, PTL DEF Spec

-----------------------------------------------------------------------------
(* What it implies *)

\* One link at most, and the next executor is kept out while it is up.
THEOREM LinksAreCovered == Spec => []RadioCovered
<1>1. ASSUME ExecutorInv PROVE RadioCovered
  <2>1. CASE links = {}
    BY <2>1, FS_EmptySet DEF RadioCovered
  <2>2. CASE links # {}
    <3>1. PICK t \in links : links = {t}
      BY <1>1, <2>2 DEF ExecutorInv, Linked
    <3>2. Cardinality(links) = 1
      BY <3>1, FS_Singleton
    <3>3. QED
      BY <1>1, <3>2 DEF RadioCovered, ExecutorInv, Covered
  <2>3. QED
    BY <2>1, <2>2
<1>2. QED
  BY Invariance, <1>1, PTL

\* An operation is handed out once, on the durable records of those before it,
\* and connect is called once for each run of operations on one target.
THEOREM EvidenceComesFirst == Spec => []EvidenceBeforeNext
<1>1. ASSUME ExecutorInv PROVE EvidenceBeforeNext
  <2> USE DEF ExecutorInv, Typed, Ordered
  <2>1. Len(plan) \in Nat /\ DOMAIN plan = 1..Len(plan) /\ index \in 1..Len(plan) + 1
    BY <1>1, PlanFacts
  <2>2. SUFFICES ASSUME NEW k \in DOMAIN plan
                 PROVE  /\ handed[k] <= 1 /\ dialled[k] <= 1
                        /\ handed[k] = 1 => \A j \in 1..k - 1 :
                             j \in results /\ files[j] = Succeeded
                        /\ dialled[k] = 1 /\ k > 1 => plan[k - 1].target # plan[k].target
    BY DEF EvidenceBeforeNext, Succeeded
  <2>3. handed[k] <= 1 /\ dialled[k] <= 1
    BY <1>1
  <2>4. ASSUME handed[k] = 1, NEW j \in 1..k - 1
        PROVE  j \in results /\ files[j] = Succeeded
    <3>1. k \in 1..Len(plan) /\ j \in 1..Len(plan) /\ j < k
      BY <2>1, <2>4
    <3>2. k <= index
      BY <1>1, <2>1, <2>4, <3>1
    <3>3. j < index
      BY <2>1, <3>1, <3>2
    <3>4. QED
      BY <1>1, <2>1, <3>1, <3>3
  <2>5. dialled[k] = 1 /\ k > 1 => plan[k - 1].target # plan[k].target
    BY <1>1 DEF Dialled
  <2>6. QED
    BY <2>3, <2>4, <2>5
<1>2. QED
  BY Invariance, <1>1, PTL

\* run-final.json counts what is there and is right about how the run ended.
THEOREM SummaryHolds == Spec => []SummaryIsTrue
<1>1. ExecutorInv => SummaryIsTrue
  BY DEF ExecutorInv, Told
<1>2. QED
  BY Invariance, <1>1, PTL

\* After the first failure nothing is dialled and nothing handed out, and a record
\* that is there stays as it is.
THEOREM FirstFailureStops == Spec => StopsAtFirstFailure
<1>1. ASSUME ExecutorInv, [Next]_vars,
             failed \/ unsafe \/ \E k \in DOMAIN plan : files[k].effect = "failed"
      PROVE  UNCHANGED history
  <2>1. pc \notin Going
    <3>1. SUFFICES ASSUME pc \in Going PROVE FALSE
      OBVIOUS
    <3>2. ~failed /\ ~unsafe
      BY <1>1, <3>1 DEF ExecutorInv, Told, Linked, Going
    <3>3. PICK k \in DOMAIN plan : files[k].effect = "failed"
      BY <1>1, <3>2
    <3>4. files[k] = Succeeded \/ files[k] = NoRecord
      BY <1>1, <3>1, PlanFacts DEF ExecutorInv, Typed, Ordered
    <3>5. QED
      BY <3>3, <3>4 DEF Succeeded, NoRecord
  <2>2. ~Connect /\ ~HandToClient
    BY <2>1 DEF Connect, HandToClient, Going
  <2>3. QED
    BY <1>1, <2>2 DEF Next, Executor, Environment, vars, history, progress, SetUp, BeginOp,
       SwitchTarget, PrepareRF, Discover, ReuseConnection, RefuseOp, Request, Subscribe,
       StopNotify, PersistSuccess, RecordFailure, FinalDisconnect, ReleaseLease, LatchUnsafe,
       WriteFinal, Notification, PeerDrops, NoticeLoss, Expire
<1>2. ASSUME ExecutorInv, [Next]_vars, NEW k \in DOMAIN plan, files[k] # NoRecord
      PROVE  files'[k] = files[k]
  <2>1. CASE PersistSuccess
    <3>1. k # index
      BY <1>2, <2>1 DEF PersistSuccess, ExecutorInv, Ordered, Going
    <3>2. QED
      BY <1>2, <2>1, <3>1 DEF PersistSuccess, Appears, ExecutorInv, Typed
  <2>2. CASE RecordFailure
    BY <1>2, <2>2 DEF RecordFailure, Appears, CreateOutcomes, ExecutorInv, Typed
  <2>3. CASE ~PersistSuccess /\ ~RecordFailure
    BY <1>2, <2>3 DEF Next, Executor, Environment, vars, evidence, SetUp, BeginOp,
       SwitchTarget, PrepareRF, Discover, Connect, ReuseConnection, RefuseOp, Request,
       Subscribe, StopNotify, FinalDisconnect, ReleaseLease, LatchUnsafe, WriteFinal,
       Notification, PeerDrops, NoticeLoss, Expire
  <2>4. QED
    BY <2>1, <2>2, <2>3
<1>3. ExecutorInv /\ [Next]_vars =>
        [/\ failed \/ unsafe \/ (\E k \in DOMAIN plan : files[k].effect = "failed")
              => UNCHANGED history
         /\ \A k \in DOMAIN plan : files[k] # NoRecord => files'[k] = files[k]]_vars
  BY <1>1, <1>2
<1>4. QED
  BY Invariance, <1>3, PTL DEF Spec, StopsAtFirstFailure

-----------------------------------------------------------------------------
(* The notifications of a subscription *)

\* Only a notification adds to the capture, and only within both limits.
CaptureInv ==
  /\ DOMAIN capture = {"events", "bytes", "truncated", "delivered"}
  /\ capture.events \in Nat /\ capture.bytes \in Nat
  /\ CaptureBounded

\* No record exceeds the limits on events and bytes, and one that misses a
\* notification says that it is truncated.
THEOREM CaptureStaysBounded == Spec => []CaptureBounded
<1>0. /\ DOMAIN EmptyCapture = {"events", "bytes", "truncated", "delivered"}
      /\ EmptyCapture.events = 0 /\ EmptyCapture.bytes = 0 /\ EmptyCapture.delivered = 0
  BY DEF EmptyCapture
<1>1. Init => CaptureInv
  BY <1>0, ExecutorAssumption DEF Init, CaptureInv, CaptureBounded
<1>2. ASSUME CaptureInv, [Next]_vars PROVE CaptureInv'
  <2>1. CASE BeginOp
    <3>1. capture' = capture \/ capture' = EmptyCapture
      BY <2>1 DEF BeginOp, plant
    <3>2. QED
      BY <1>0, <1>2, <3>1, ExecutorAssumption DEF CaptureInv, CaptureBounded
  <2>2. CASE Notification
    <3>1. PICK size \in Sizes :
            capture' = IF capture.events >= MaxEvents \/ capture.bytes + size > MaxBytes
                       THEN [capture EXCEPT !.truncated = TRUE, !.delivered = @ + 1]
                       ELSE [capture EXCEPT !.events = @ + 1, !.bytes = @ + size,
                                            !.delivered = @ + 1]
      BY <2>2 DEF Notification
    <3>2. size \in Nat
      BY ExecutorAssumption
    <3>3. CASE capture.events >= MaxEvents \/ capture.bytes + size > MaxBytes
      <4>1. capture' = [capture EXCEPT !.truncated = TRUE, !.delivered = @ + 1]
        BY <3>1, <3>3
      <4>2. /\ capture'.truncated /\ DOMAIN capture' = DOMAIN capture
            /\ capture'.events = capture.events /\ capture'.bytes = capture.bytes
        BY <1>2, <4>1 DEF CaptureInv
      <4>3. QED
        BY <1>2, <4>2 DEF CaptureInv, CaptureBounded
    <3>4. CASE ~(capture.events >= MaxEvents \/ capture.bytes + size > MaxBytes)
      <4>1. capture' = [capture EXCEPT !.events = @ + 1, !.bytes = @ + size, !.delivered = @ + 1]
        BY <3>1, <3>4
      <4>2. /\ capture'.events = capture.events + 1 /\ capture'.bytes = capture.bytes + size
            /\ capture'.delivered = capture.delivered + 1 /\ DOMAIN capture' = DOMAIN capture
            /\ capture'.truncated = capture.truncated
        BY <1>2, <4>1 DEF CaptureInv
      <4>3. capture'.delivered # capture'.events => capture'.truncated
        BY <1>2, <4>2 DEF CaptureInv, CaptureBounded
      <4>4. QED
        BY <1>2, <3>2, <3>4, <4>2, <4>3, ExecutorAssumption DEF CaptureInv, CaptureBounded
    <3>5. QED
      BY <3>3, <3>4
  <2>3. CASE ~BeginOp /\ ~Notification
    <3>1. UNCHANGED capture
      BY <1>2, <2>3 DEF Next, Executor, Environment, vars, plant, SetUp, SwitchTarget,
         PrepareRF, Discover, Connect, ReuseConnection, RefuseOp, Request, Subscribe,
         HandToClient, StopNotify, PersistSuccess, RecordFailure, FinalDisconnect,
         ReleaseLease, LatchUnsafe, WriteFinal, PeerDrops, NoticeLoss, Expire
    <3>2. QED
      BY <1>2, <3>1 DEF CaptureInv, CaptureBounded
  <2>4. QED
    BY <2>1, <2>2, <2>3
<1>3. CaptureInv => CaptureBounded
  BY DEF CaptureInv
<1>4. QED
  BY <1>1, <1>2, <1>3, PTL DEF Spec
\* TypeOK: what Typed and Linked leave open of it, from step to step.
Place ==
  /\ pc \in InOperation \cup {"setup", "aborted", "next", "cleanup", "release", "latch",
                              "final", "done"}
  /\ disconnect \in {"already_down", "confirmed", "unconfirmed"}
Switches ==
  /\ auth \in BOOLEAN /\ connected \in BOOLEAN /\ rfStarted \in BOOLEAN /\ unsafe \in BOOLEAN
  /\ failed \in BOOLEAN /\ success \in BOOLEAN
  /\ lease \in BOOLEAN /\ latch \in BOOLEAN /\ recovery \in BOOLEAN
CaptureType == [events: Nat, bytes: Nat, truncated: BOOLEAN, delivered: Nat]
ClientTyped == client \in Targets \cup {NoTarget}
CaptureTyped == capture \in CaptureType

\* The capture of a new subscription is a capture.
LEMMA EmptyCaptureType == EmptyCapture \in CaptureType
<1>1. 0 \in Nat /\ FALSE \in BOOLEAN
  OBVIOUS
<1>2. QED
  BY <1>1 DEF EmptyCapture, CaptureType

\* TypeOK: plan, place and index fit each other, the current client is a peer of
\* the plan, and records, counts and capture are what they are said to be.
THEOREM TypeCorrect == Spec => []TypeOK
<1>1. Init => Place /\ Switches /\ ClientTyped /\ CaptureTyped
  BY EmptyCaptureType DEF Init, Place, Switches, ClientTyped, CaptureTyped
<1>2. Place /\ [Next]_vars => Place'
  BY DEF Place, InOperation, Next, Executor, Environment, vars, plant, interlock, evidence, progress, history,
       SetUp, BeginOp, DisconnectCurrent, SwitchTarget, PrepareRF, Discover, Connect,
       ReuseConnection, RefuseOp, HandToClient, Request, Subscribe, Notification, StopNotify,
       PersistSuccess, RecordFailure, FinalDisconnect, ReleaseLease, LatchUnsafe, WriteFinal,
       PeerDrops, NoticeLoss, Expire
<1>3. Switches /\ [Next]_vars => Switches'
  <2> SUFFICES ASSUME Switches, [Next]_vars PROVE Switches'
    OBVIOUS
  <2> USE DEF Switches
  <2>1. \/ failed' = failed \/ failed' = TRUE
        \/ failed' = (failed \/ ~connected) \/ failed' = (failed \/ unsafe')
    BY DEF Next, Executor, Environment, vars, plant, interlock, evidence, progress, history,
       SetUp, BeginOp, DisconnectCurrent, SwitchTarget, PrepareRF, Discover, Connect,
       ReuseConnection, RefuseOp, HandToClient, Request, Subscribe, Notification, StopNotify,
       PersistSuccess, RecordFailure, FinalDisconnect, ReleaseLease, LatchUnsafe, WriteFinal,
       PeerDrops, NoticeLoss, Expire
  <2>2. unsafe' \in BOOLEAN /\ auth' \in BOOLEAN /\ connected' \in BOOLEAN
    BY DEF Next, Executor, Environment, vars, plant, interlock, evidence, progress, history,
       SetUp, BeginOp, DisconnectCurrent, SwitchTarget, PrepareRF, Discover, Connect,
       ReuseConnection, RefuseOp, HandToClient, Request, Subscribe, Notification, StopNotify,
       PersistSuccess, RecordFailure, FinalDisconnect, ReleaseLease, LatchUnsafe, WriteFinal,
       PeerDrops, NoticeLoss, Expire
  <2>3. rfStarted' \in BOOLEAN /\ success' \in BOOLEAN
    BY DEF Next, Executor, Environment, vars, plant, interlock, evidence, progress, history,
       SetUp, BeginOp, DisconnectCurrent, SwitchTarget, PrepareRF, Discover, Connect,
       ReuseConnection, RefuseOp, HandToClient, Request, Subscribe, Notification, StopNotify,
       PersistSuccess, RecordFailure, FinalDisconnect, ReleaseLease, LatchUnsafe, WriteFinal,
       PeerDrops, NoticeLoss, Expire
  <2>4. lease' \in BOOLEAN
    BY DEF Next, Executor, Environment, vars, plant, interlock, evidence, progress, history,
       SetUp, BeginOp, DisconnectCurrent, SwitchTarget, PrepareRF, Discover, Connect,
       ReuseConnection, RefuseOp, HandToClient, Request, Subscribe, Notification, StopNotify,
       PersistSuccess, RecordFailure, FinalDisconnect, ReleaseLease, LatchUnsafe, WriteFinal,
       PeerDrops, NoticeLoss, Expire
  <2>5. latch' \in BOOLEAN /\ recovery' \in BOOLEAN
    BY DEF Next, Executor, Environment, vars, plant, interlock, evidence, progress, history,
       SetUp, BeginOp, DisconnectCurrent, SwitchTarget, PrepareRF, Discover, Connect,
       ReuseConnection, RefuseOp, HandToClient, Request, Subscribe, Notification, StopNotify,
       PersistSuccess, RecordFailure, FinalDisconnect, ReleaseLease, LatchUnsafe, WriteFinal,
       PeerDrops, NoticeLoss, Expire
  <2>6. failed' \in BOOLEAN
    BY <2>1, Zenon
  <2>7. QED
    BY <2>2, <2>3, <2>4, <2>5, <2>6
<1>4. ExecutorInv /\ ClientTyped /\ [Next]_vars => ClientTyped'
  <2> SUFFICES ASSUME ExecutorInv, ClientTyped, [Next]_vars PROVE ClientTyped'
    OBVIOUS
  <2> USE DEF ClientTyped
  <2>1. CASE Connect
    <3>1. index \in 1..Len(plan)
      BY <2>1, PlanFacts DEF ExecutorInv, Typed, Connect, InOperation
    <3>2. QED
      BY <2>1, <3>1, PlanFacts DEF ExecutorInv, Typed, Connect, Op
  <2>2. CASE ~Connect
    BY <2>2 DEF Next, Executor, Environment, vars, plant, interlock, evidence, progress, history,
       SetUp, BeginOp, DisconnectCurrent, SwitchTarget, PrepareRF, Discover, ReuseConnection, RefuseOp, HandToClient, Request, Subscribe, Notification, StopNotify,
       PersistSuccess, RecordFailure, FinalDisconnect, ReleaseLease, LatchUnsafe, WriteFinal,
       PeerDrops, NoticeLoss, Expire
  <2>3. QED
    BY <2>1, <2>2
<1>5. CaptureTyped /\ [Next]_vars => CaptureTyped'
  <2> SUFFICES ASSUME CaptureTyped, [Next]_vars PROVE CaptureTyped'
    OBVIOUS
  <2> USE DEF CaptureTyped
  <2>1. CASE Notification
    <3>1. PICK size \in Sizes :
            \/ capture' = [capture EXCEPT !.truncated = TRUE, !.delivered = @ + 1]
            \/ capture' = [capture EXCEPT !.events = @ + 1, !.bytes = @ + size, !.delivered = @ + 1]
      BY <2>1 DEF Notification
    <3>2. size \in Nat
      BY ExecutorAssumption
    <3>3. CASE capture' = [capture EXCEPT !.truncated = TRUE, !.delivered = @ + 1]
      <4>1. capture.delivered + 1 \in Nat /\ TRUE \in BOOLEAN
        BY DEF CaptureType
      <4>2. QED
        BY <3>3, <4>1 DEF CaptureType
    <3>4. CASE capture' = [capture EXCEPT !.events = @ + 1, !.bytes = @ + size, !.delivered = @ + 1]
      <4>1. /\ capture.events + 1 \in Nat /\ capture.bytes + size \in Nat
            /\ capture.delivered + 1 \in Nat
        BY <3>2 DEF CaptureType
      <4>2. QED
        BY <3>4, <4>1 DEF CaptureType
    <3>5. QED
      BY <3>1, <3>3, <3>4
  <2>2. CASE ~Notification
    <3>1. capture' = capture \/ capture' = EmptyCapture
      BY <2>2 DEF Next, Executor, Environment, vars, plant, interlock, evidence, progress, history,
         SetUp, BeginOp, DisconnectCurrent, SwitchTarget, PrepareRF, Discover, Connect,
         ReuseConnection, RefuseOp, HandToClient, Request, Subscribe, StopNotify,
         PersistSuccess, RecordFailure, FinalDisconnect, ReleaseLease, LatchUnsafe, WriteFinal,
         PeerDrops, NoticeLoss, Expire
    <3>2. QED
      BY <3>1, EmptyCaptureType
  <2>3. QED
    BY <2>1, <2>2
<1>6. ExecutorInv /\ Place /\ Switches /\ ClientTyped /\ CaptureTyped => TypeOK
  <2> SUFFICES ASSUME ExecutorInv, Place, Switches, ClientTyped, CaptureTyped PROVE TypeOK
    OBVIOUS
  <2>1. {auth, connected, rfStarted, unsafe, failed, success, lease, latch, recovery} \subseteq BOOLEAN
    BY DEF Switches
  <2>2. QED
    BY <2>1 DEF ExecutorInv, Typed, Linked, Place, InOperation, ClientTyped, CaptureTyped, CaptureType,
       TypeOK
<1>7. QED
  BY <1>1, <1>2, <1>3, <1>4, <1>5, <1>6, Invariance, PTL DEF Spec

-----------------------------------------------------------------------------
(* The run is a client of the interlock *)

Ended == {"aborted", "release", "latch", "final", "done"}

\* A step between two places before the interlock is called again.
LEMMA StillWorking ==
  ASSUME ExecutorInv, ExecutorInv', pc \notin Ended, pc' \notin Ended, rfStarted' = rfStarted
  PROVE  UNCHANGED Client!vars
<1>1. Stage = (IF rfStarted THEN "rf" ELSE "leased") /\ Stage' = Stage
  BY DEF Stage, Ended
<1>2. ~rfStarted => links = {} /\ links' = {}
  BY DEF ExecutorInv, Told
<1>3. Session' = Session
  BY <1>1, <1>2 DEF Session
<1>4. QED
  BY <1>1, <1>3 DEF Client!vars

\* After the last disconnection the session is settled: a link that drops later
\* belongs to a run that is unsafe already.
LEMMA SessionStays ==
  ASSUME ExecutorInv, ExecutorInv', pc \in Ended, pc' \in Ended,
         UNCHANGED <<rfStarted, unsafe>>
  PROVE  Session' = Session
<1>1. Stage # "rf" /\ Stage' # "rf"
  BY DEF Stage, Ended
<1>2. ~rfStarted => links = {} /\ links' = {}
  BY DEF ExecutorInv, Told
<1>3. ~unsafe => links = {} /\ links' = {} /\ notifying = {} /\ notifying' = {}
  BY DEF ExecutorInv, Linked, Ended
<1>4. QED
  BY <1>1, <1>2, <1>3 DEF Session

\* Each step is one of the interlock's client, or is not seen by it.
LEMMA StepRefines ==
  ASSUME ExecutorInv, ExecutorInv', [Next]_vars
  PROVE  [Client!Next]_(Client!vars)
<1> USE DEF plant, interlock, evidence, progress, history
<1>1. CASE SetUp
  <2>1. CASE pc' = "aborted"
    <3>1. Stage = "leased" /\ Stage' = "over"
      BY <1>1, <2>1 DEF SetUp, Stage, ExecutorInv, Dialled
    <3>2. Session = "none" /\ Session' = "none"
      BY <1>1 DEF SetUp, Session, ExecutorInv, Dialled, Told
    <3>3. QED
      BY <3>1, <3>2 DEF Client!Next, Client!GiveUp
  <2>2. CASE pc' = "next"
    BY <1>1, <2>2, StillWorking DEF SetUp, Ended
  <2>3. QED
    BY <1>1, <2>1, <2>2 DEF SetUp
<1>2. CASE PrepareRF
  <2>1. CASE ~rfStarted /\ rfStarted'
    <3>1. Stage = "leased" /\ Stage' = "rf"
      BY <1>2, <2>1 DEF PrepareRF, Stage
    <3>2. Session = "none" /\ Session' = "open"
      BY <1>2, <2>1, <3>1 DEF Session, ExecutorInv, Told
    <3>3. QED
      BY <3>1, <3>2 DEF Client!Next, Client!StartRF
  <2>2. CASE rfStarted' = rfStarted
    BY <1>2, <2>2, StillWorking DEF PrepareRF, Ended
  <2>3. QED
    BY <1>2, <2>1, <2>2 DEF PrepareRF
<1>3. CASE \/ BeginOp \/ SwitchTarget \/ Discover \/ Connect \/ ReuseConnection \/ RefuseOp
           \/ Request \/ Subscribe \/ StopNotify \/ PersistSuccess \/ RecordFailure
  <2>1. pc \notin Ended /\ pc' \notin Ended /\ rfStarted' = rfStarted
    BY <1>3 DEF BeginOp, SwitchTarget, Discover, Connect, ReuseConnection, RefuseOp, Request,
       Subscribe, HandToClient, StopNotify, PersistSuccess, RecordFailure, Ended
  <2>2. QED
    BY <2>1, StillWorking
<1>4. CASE FinalDisconnect
  <2>1. /\ pc = "cleanup" /\ pc' = IF unsafe' THEN "latch" ELSE "release"
        /\ rfStarted' = rfStarted
    BY <1>4 DEF FinalDisconnect
  <2>2. /\ Stage = IF rfStarted THEN "rf" ELSE "leased"
        /\ Stage' = IF unsafe' THEN "latching" ELSE "releasing"
    BY <2>1 DEF Stage
  <2>3. ~rfStarted => links = {} /\ links' = {} /\ ~unsafe'
    BY <2>1 DEF ExecutorInv, Told
  <2>4. ~unsafe' => links' = {} /\ notifying' = {}
    BY <2>1 DEF ExecutorInv, Linked
  <2>5. /\ Session = IF rfStarted THEN "open" ELSE "none"
        /\ Session' = IF ~rfStarted THEN "none"
                      ELSE IF unsafe' THEN "unconfirmed" ELSE "closed"
    BY <2>1, <2>2, <2>3, <2>4 DEF Session
  <2>6. QED
    BY <2>2, <2>3, <2>5 DEF Client!Next, Client!GiveUp, Client!EndConfirmed, Client!EndUnconfirmed
<1>5. CASE ReleaseLease \/ LatchUnsafe \/ WriteFinal
  <2>1. /\ pc \in Ended /\ pc' \in Ended /\ UNCHANGED <<rfStarted, unsafe>>
        /\ \/ pc = "release" /\ pc' \in {"final", "latch"}
           \/ pc = "latch" /\ pc' = "final"
           \/ pc = "final" /\ pc' = "done"
    BY <1>5 DEF ReleaseLease, LatchUnsafe, WriteFinal, Ended
  <2>2. Session' = Session
    BY <2>1, SessionStays
  <2>3. \/ Stage = "releasing" /\ Stage' \in {"over", "latching"}
        \/ Stage = "latching" /\ Stage' = "over"
        \/ Stage = "over" /\ Stage' = "over"
    BY <2>1 DEF Stage
  <2>4. QED
    BY <2>2, <2>3 DEF Client!Next, Client!Finish, Client!ReleaseFails, Client!vars
<1>6. CASE Environment \/ UNCHANGED vars
  <2>1. UNCHANGED <<pc, rfStarted, unsafe>>
    BY <1>6 DEF Environment, Notification, PeerDrops, NoticeLoss, Expire, vars
  <2>2. CASE pc \in Ended
    <3>1. Session' = Session /\ Stage' = Stage
      BY <2>1, <2>2, SessionStays DEF Stage
    <3>2. QED
      BY <3>1 DEF Client!vars
  <2>3. CASE pc \notin Ended
    BY <2>1, <2>3, StillWorking
  <2>4. QED
    BY <2>2, <2>3
<1>7. QED
  BY <1>1, <1>2, <1>3, <1>4, <1>5, <1>6 DEF Next, Executor

\* The run marks the lease before it opens a session, gives the lease back only
\* after a session that ended confirmed, and latches one that did not.
THEOREM Refinement == Spec => InterlockClientSpec
<1>1. Init => Client!Init
  BY DEF Init, Client!Init, Stage, Session
<1>2. ExecutorInv /\ ExecutorInv' /\ [Next]_vars => [Client!Next]_(Client!vars)
  BY StepRefines
<1>3. QED
  BY Invariance, <1>1, <1>2, PTL DEF Spec, InterlockClientSpec, Client!Spec
=============================================================================
