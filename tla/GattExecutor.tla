----------------------------- MODULE GattExecutor -----------------------------
(***************************************************************************)
(* One call of execute_plan (kamal/gatt_executor.py), from the acquired     *)
(* lease to run-final.json.  The executor is one asyncio task; between two  *)
(* awaits nothing else of the process runs, but while it awaits, the peer    *)
(* may drop the link, the client library may learn of it later, notifica-   *)
(* tions arrive and the authorization may expire.  Every await is bounded    *)
(* by wait_for, so each ends: with a result, an error or a timeout, which    *)
(* may come although the peer did what was asked.                            *)
(***************************************************************************)
EXTENDS Naturals, Sequences, FiniteSets

CONSTANTS
  Targets,       \* peers of the plan
  NoTarget,      \* current_target is None
  MaxOps,        \* length of the longest plan
  MaxEvents,     \* MAX_NOTIFICATION_EVENTS
  MaxBytes,      \* MAX_NOTIFICATION_BYTES
  Sizes,         \* sizes of a notification
  MaxDelivered   \* notifications a peer sends to one subscription (bound of the model)

ASSUME ExecutorAssumption ==
  /\ NoTarget \notin Targets
  /\ MaxOps \in Nat /\ MaxEvents \in Nat /\ MaxBytes \in Nat /\ MaxDelivered \in Nat
  /\ Sizes \subseteq Nat

\* The three operations that are one request of the client, reads and writes,
\* differ only in what they return.
Operations == [target: Targets, type: {"request", "subscribe"}]
Plans == UNION {[1..n -> Operations] : n \in 1..MaxOps}

NoRecord == [success |-> FALSE, effect |-> "none"]
Record == [success: BOOLEAN, effect: {"none", "succeeded", "failed"}]

VARIABLES
  plan,        \* the validated plan
  pc, index,   \* where execute_plan stands, and in which operation
  auth,        \* the authorization is within its validity period
  links,       \* peers a BLE link is up to
  notifying,   \* peers that send notifications
  client,      \* the target of current_client, NoTarget if None
  connected,   \* current_client.is_connected
  rfStarted, unsafe, failed,   \* rf_started, unsafe, error is not None
  success,     \* rec["transport_success"]
  disconnect,  \* disconnect_record: already_down, confirmed, unconfirmed
  capture,     \* [events, bytes, truncated, delivered] of this subscription
  files,       \* operation-NNN.json, NoRecord if it does not exist
  results,     \* indices of the records in results
  final,       \* run-final.json: {} or {[...]}
  lease, latch, recovery,      \* the interlock files, recovery_required
  handed,      \* how often each operation was handed to the client
  dialled      \* how often connect was called for each operation

plant == <<auth, links, notifying, connected, capture>>
interlock == <<lease, latch, recovery>>
evidence == <<files, results, final>>
progress == <<rfStarted, unsafe, failed, success, disconnect>>
history == <<handed, dialled>>
vars == <<plan, pc, index, client, plant, interlock, evidence, progress, history>>

Op == plan[index]
EmptyCapture == [events |-> 0, bytes |-> 0, truncated |-> FALSE, delivered |-> 0]

\* atomic_create_json: durable; visible but the directory sync failed; not there
CreateOutcomes == {"synced", "unsynced", "failed"}

-----------------------------------------------------------------------------
(* Set-up *)

\* Output directory and run-start.json; whatever fails gives the lease back,
\* and no run-final.json is written.
SetUp ==
  /\ pc = "setup"
  /\ \/ pc' = "next" /\ UNCHANGED interlock
     \/ /\ pc' = "aborted"
        /\ lease' = FALSE \/ UNCHANGED lease
        /\ UNCHANGED <<latch, recovery>>
  /\ UNCHANGED <<plan, index, client, plant, evidence, progress, history>>

-----------------------------------------------------------------------------
(* Operations *)

\* The head of the loop: the authorization is looked at, then the record of the
\* next operation is begun.  Either may refuse, the first certainly once the
\* authorization has expired; the run then ends without a record for it.
BeginOp ==
  /\ pc = "next"
  /\ \/ /\ index > Len(plan)
        /\ pc' = "cleanup" /\ UNCHANGED <<progress, connected, capture>>
     \/ /\ index <= Len(plan)
        /\ pc' = "cleanup" /\ failed' = TRUE
        /\ UNCHANGED <<rfStarted, unsafe, success, disconnect, connected, capture>>
     \/ /\ index <= Len(plan) /\ auth
        /\ pc' = IF client = Op.target THEN "reuse"
                 ELSE IF client = NoTarget THEN "prepare" ELSE "switch"
        /\ success' = FALSE /\ capture' = EmptyCapture
        /\ UNCHANGED <<rfStarted, unsafe, failed, disconnect, connected>>
  /\ UNCHANGED <<plan, index, client, auth, links, notifying, interlock, evidence,
                 history>>

\* disconnect_current: nothing to do, done, or neither confirmed nor refuted
DisconnectCurrent ==
  /\ client' = NoTarget /\ connected' = FALSE
  /\ \/ /\ ~connected
        /\ disconnect' = "already_down"
        /\ UNCHANGED <<links, notifying, unsafe>>
     \/ /\ connected
        /\ disconnect' = "confirmed"
        /\ links' = links \ {client} /\ notifying' = notifying \ {client}
        /\ UNCHANGED unsafe
     \/ /\ connected
        /\ disconnect' = "unconfirmed" /\ unsafe' = TRUE
        /\ \/ links' = links \ {client} /\ notifying' = notifying \ {client}
           \/ UNCHANGED <<links, notifying>>

\* Another target: the old link must be confirmed down first.
SwitchTarget ==
  /\ pc = "switch"
  /\ DisconnectCurrent
  /\ pc' = IF unsafe' THEN "fail" ELSE "prepare"
  /\ UNCHANGED <<plan, index, auth, capture, rfStarted, failed, success,
                 interlock, evidence, history>>

\* Mutant of PrepareRF: mark_rf_started is left out.
PrepareRFUnmarked ==
  /\ pc = "prepare"
  /\ pc' = "fail" \/ (auth /\ pc' = "discover")
  /\ UNCHANGED <<plan, index, client, plant, progress, interlock, evidence, history>>

\* Authorization, the client library, mark_rf_started: each may raise, and RF
\* activity is marked before the first discovery.
PrepareRF ==
  /\ pc = "prepare"
  /\ \/ pc' = "fail" /\ UNCHANGED rfStarted
     \/ auth /\ pc' = "discover" /\ rfStarted' = TRUE
  /\ UNCHANGED <<plan, index, client, plant, unsafe, failed, success, disconnect,
                 interlock, evidence, history>>

\* The peer is found, or not, or the scan fails or times out.
Discover ==
  /\ pc = "discover"
  /\ pc' \in {"connect", "fail"}
  /\ UNCHANGED <<plan, index, client, plant, progress, interlock, evidence, history>>

\* connect returns connected, or raises or times out; a client that gave up
\* half-way may still report the link it set up.
Connect ==
  /\ pc = "connect"
  /\ client' = Op.target
  /\ dialled' = [dialled EXCEPT ![index] = @ + 1]
  /\ \/ /\ links' = links \cup {Op.target} /\ connected' = TRUE
        /\ pc' \in {"perform", "fail"}
     \/ /\ UNCHANGED links /\ connected' = FALSE
        /\ pc' = "fail"
  /\ UNCHANGED <<plan, index, auth, notifying, capture, progress, interlock,
                 evidence, handed>>

\* The same target: the link is used as it is, never set up again.
ReuseConnection ==
  /\ pc = "reuse"
  /\ pc' = IF connected THEN "perform" ELSE "fail"
  /\ UNCHANGED <<plan, index, client, plant, progress, interlock, evidence, history>>

\* Not handed to the client: not authorized any more, or no such attribute
RefuseOp ==
  /\ pc = "perform"
  /\ pc' = "fail"
  /\ UNCHANGED <<plan, index, client, plant, progress, interlock, evidence, history>>

HandToClient ==
  /\ pc = "perform" /\ auth
  /\ handed' = [handed EXCEPT ![index] = @ + 1]

\* A read or write that raises may have reached the peer.
Request ==
  /\ HandToClient
  /\ Op.type = "request"
  /\ pc' \in (IF client \in links THEN {"persist", "fail"} ELSE {"fail"})
  /\ UNCHANGED <<plan, index, client, plant, progress, interlock, evidence, dialled>>

Subscribe ==
  /\ HandToClient
  /\ Op.type = "subscribe"
  /\ \/ /\ client \in links
        /\ notifying' = notifying \cup {client}
        /\ pc' \in {"subscribed", "fail"}
     \/ pc' = "fail" /\ UNCHANGED notifying
  /\ UNCHANGED <<plan, index, client, auth, links, connected, capture, progress,
                 interlock, evidence, dialled>>

\* Mutant of Notification: one event too many.
NotificationOffByOne ==
  /\ pc = "subscribed" /\ client \in notifying
  /\ capture.delivered < MaxDelivered
  /\ \E size \in Sizes :
       capture' =
         IF capture.events > MaxEvents \/ capture.bytes + size > MaxBytes
         THEN [capture EXCEPT !.truncated = TRUE, !.delivered = @ + 1]
         ELSE [capture EXCEPT !.events = @ + 1, !.bytes = @ + size,
                              !.delivered = @ + 1]
  /\ UNCHANGED <<plan, pc, index, client, auth, links, notifying, connected,
                 progress, interlock, evidence, history>>

\* The callback of start_notify: what exceeds either bound is dropped.
Notification ==
  /\ pc = "subscribed" /\ client \in notifying
  /\ capture.delivered < MaxDelivered
  /\ \E size \in Sizes :
       capture' =
         IF capture.events >= MaxEvents \/ capture.bytes + size > MaxBytes
         THEN [capture EXCEPT !.truncated = TRUE, !.delivered = @ + 1]
         ELSE [capture EXCEPT !.events = @ + 1, !.bytes = @ + size,
                              !.delivered = @ + 1]
  /\ UNCHANGED <<plan, pc, index, client, auth, links, notifying, connected,
                 progress, interlock, evidence, history>>

\* The subscription period is over, or was cancelled; an unsubscription that
\* is not confirmed stops the run as unsafe.
StopNotify ==
  /\ pc = "subscribed"
  /\ \/ /\ client \in links
        /\ notifying' = notifying \ {client}
        /\ pc' \in {"persist", "fail"}
        /\ UNCHANGED unsafe
     \/ /\ unsafe' = TRUE /\ pc' = "fail"
        /\ notifying' \in {notifying, notifying \ {client}}
  /\ UNCHANGED <<plan, index, client, auth, links, connected, capture, rfStarted,
                 failed, success, disconnect, interlock, evidence, history>>

Appears(outcome, record) ==
  IF outcome = "failed" THEN UNCHANGED files
  ELSE files' = [files EXCEPT ![index] = record]

\* Mutant of PersistSuccess: an error of the write is ignored.
PersistSuccessUnchecked ==
  /\ pc = "persist"
  /\ success' = TRUE
  /\ \E outcome \in CreateOutcomes :
       Appears(outcome, [success |-> TRUE, effect |-> "succeeded"])
  /\ results' = results \cup {index}
  /\ IF connected THEN pc' = "next" /\ index' = index + 1
     ELSE pc' = "cleanup" /\ UNCHANGED index
  /\ failed' = (failed \/ ~connected)
  /\ UNCHANGED <<plan, client, plant, rfStarted, unsafe, disconnect, interlock,
                 final, history>>

\* Mutant of PersistSuccess: the index moves on although the loop ends.
PersistSuccessTwice ==
  /\ pc = "persist"
  /\ success' = TRUE
  /\ Appears("synced", [success |-> TRUE, effect |-> "succeeded"])
  /\ results' = results \cup {index}
  /\ pc' = IF connected THEN "next" ELSE "cleanup"
  /\ index' = index + 2
  /\ failed' = (failed \/ ~connected)
  /\ UNCHANGED <<plan, client, plant, rfStarted, unsafe, disconnect, interlock,
                 final, history>>

\* The record of a successful operation is durable before the next begins; a
\* link found lost only then ends the run but leaves the record as it is.
PersistSuccess ==
  /\ pc = "persist"
  /\ success' = TRUE
  /\ \E outcome \in CreateOutcomes :
       /\ Appears(outcome, [success |-> TRUE, effect |-> "succeeded"])
       /\ \/ /\ outcome = "synced"
             /\ results' = results \cup {index}
             /\ IF connected THEN pc' = "next" /\ index' = index + 1
                ELSE pc' = "cleanup" /\ UNCHANGED index
             /\ failed' = (failed \/ ~connected)
          \/ /\ outcome # "synced"
             /\ pc' = "fail"
             /\ UNCHANGED <<results, index, failed>>
  /\ UNCHANGED <<plan, client, plant, rfStarted, unsafe, disconnect, interlock,
                 final, history>>

\* Mutant of RecordFailure: the plan goes on with the next operation.
RecordFailureContinuing ==
  /\ pc = "fail"
  /\ pc' = "next" /\ index' = index + 1
  /\ files' = [files EXCEPT ![index] = [success |-> success, effect |-> "failed"]]
  /\ results' = results \cup {index}
  /\ UNCHANGED <<plan, client, plant, progress, interlock, final, history>>

\* Mutant of RecordFailure: the operation is tried again.
RecordFailureRetrying ==
  /\ pc = "fail"
  /\ pc' = "next"
  /\ UNCHANGED <<plan, index, client, plant, progress, interlock, evidence, history>>

\* The inner handler writes the failure record once; a file that is already
\* there makes the link(2) of atomic_create_json fail.
RecordFailure ==
  /\ pc = "fail"
  /\ failed' = TRUE /\ pc' = "cleanup"
  /\ \E outcome \in IF files[index] = NoRecord THEN CreateOutcomes ELSE {"failed"} :
       /\ Appears(outcome, [success |-> success, effect |-> "failed"])
       /\ results' = IF outcome = "synced" THEN results \cup {index} ELSE results
  /\ UNCHANGED <<plan, index, client, plant, rfStarted, unsafe, success, disconnect,
                 interlock, final, history>>

-----------------------------------------------------------------------------
(* The finally block *)

\* Mutant of FinalDisconnect: the lease is released whatever the outcome.
FinalDisconnectReleasing ==
  /\ pc = "cleanup"
  /\ DisconnectCurrent
  /\ failed' = (failed \/ unsafe')
  /\ pc' = "release"
  /\ UNCHANGED <<plan, index, auth, capture, rfStarted, success,
                 interlock, evidence, history>>

FinalDisconnect ==
  /\ pc = "cleanup"
  /\ DisconnectCurrent
  /\ failed' = (failed \/ unsafe')
  /\ pc' = IF unsafe' THEN "latch" ELSE "release"
  /\ UNCHANGED <<plan, index, auth, capture, rfStarted, success,
                 interlock, evidence, history>>

\* release_active_run; an error, also of the directory sync of a lease that is
\* already gone, sends the run to the latch.
ReleaseLease ==
  /\ pc = "release"
  /\ \/ lease' = FALSE /\ pc' = "final" /\ UNCHANGED <<failed, recovery>>
     \/ /\ (lease' = FALSE \/ UNCHANGED lease) /\ pc' = "latch"
        /\ failed' = TRUE /\ recovery' = TRUE
  /\ UNCHANGED <<plan, index, client, plant, latch, evidence, rfStarted, unsafe,
                 success, disconnect, history>>

\* latch_unsafe_stop: the lease goes only once the latch is there
LatchUnsafe ==
  /\ pc = "latch"
  /\ recovery' = TRUE /\ pc' = "final" /\ failed' = TRUE
  /\ \/ latch' = TRUE /\ (lease' = FALSE \/ UNCHANGED lease)
     \/ UNCHANGED <<latch, lease>>
  /\ UNCHANGED <<plan, index, client, plant, evidence, rfStarted, unsafe, success,
                 disconnect, history>>

\* Mutant of Summary: complete once every operation has its record.
SummaryOfRecords ==
  [recorded |-> results,
   successful |-> {k \in results : files[k].effect = "succeeded"},
   complete |-> results = DOMAIN plan,
   rfPerformed |-> rfStarted, unsafe |-> unsafe, disconnect |-> disconnect,
   state |-> IF recovery THEN "recovery_required" ELSE "clear"]

Summary ==
  [recorded |-> results,
   successful |-> {k \in results : files[k].effect = "succeeded"},
   complete |-> ~failed /\ results = DOMAIN plan,
   rfPerformed |-> rfStarted, unsafe |-> unsafe, disconnect |-> disconnect,
   state |-> IF recovery THEN "recovery_required" ELSE "clear"]

WriteFinal ==
  /\ pc = "final"
  /\ pc' = "done"
  /\ final' = {Summary} \/ UNCHANGED final
  /\ UNCHANGED <<plan, index, client, plant, interlock, files, results, progress,
                 history>>

-----------------------------------------------------------------------------
(* What happens while the executor waits *)

\* The peer, or the radio, drops the link.
PeerDrops ==
  /\ \E t \in links : links' = links \ {t} /\ notifying' = notifying \ {t}
  /\ UNCHANGED <<plan, pc, index, client, auth, connected, capture, interlock,
                 evidence, progress, history>>

\* The client library learns of it.
NoticeLoss ==
  /\ connected /\ client \notin links
  /\ connected' = FALSE
  /\ UNCHANGED <<plan, pc, index, client, auth, links, notifying, capture,
                 interlock, evidence, progress, history>>

Expire ==
  /\ auth /\ auth' = FALSE
  /\ UNCHANGED <<plan, pc, index, client, links, notifying, connected, capture,
                 interlock, evidence, progress, history>>

-----------------------------------------------------------------------------

Init ==
  /\ plan \in Plans
  /\ pc = "setup" /\ index = 1
  /\ auth = TRUE /\ links = {} /\ notifying = {}
  /\ client = NoTarget /\ connected = FALSE
  /\ rfStarted = FALSE /\ unsafe = FALSE /\ failed = FALSE /\ success = FALSE
  /\ disconnect = "already_down"
  /\ capture = EmptyCapture
  /\ files = [k \in DOMAIN plan |-> NoRecord]
  /\ results = {} /\ final = {}
  /\ lease = TRUE /\ latch = FALSE /\ recovery = FALSE
  /\ handed = [k \in DOMAIN plan |-> 0]
  /\ dialled = [k \in DOMAIN plan |-> 0]

Executor ==
  \/ SetUp \/ BeginOp \/ SwitchTarget \/ PrepareRF \/ Discover \/ Connect
  \/ ReuseConnection \/ RefuseOp \/ Request \/ Subscribe \/ StopNotify
  \/ PersistSuccess \/ RecordFailure
  \/ FinalDisconnect \/ ReleaseLease \/ LatchUnsafe \/ WriteFinal

Environment == Notification \/ PeerDrops \/ NoticeLoss \/ Expire

Next == Executor \/ Environment

Spec == Init /\ [][Next]_vars

\* The task is scheduled, and every await has a time limit.
FairSpec == Spec /\ WF_vars(Executor)
-----------------------------------------------------------------------------
(* Properties *)

TypeOK ==
  /\ plan \in Plans
  /\ pc \in {"setup", "aborted", "next", "switch", "prepare", "discover", "connect",
             "reuse", "perform", "subscribed", "persist", "fail",
             "cleanup", "release", "latch", "final", "done"}
  /\ index \in 1..Len(plan) + 1
  /\ links \subseteq Targets /\ notifying \subseteq links
  /\ client \in Targets \cup {NoTarget}
  /\ {auth, connected, rfStarted, unsafe, failed, success,
      lease, latch, recovery} \subseteq BOOLEAN
  /\ disconnect \in {"already_down", "confirmed", "unconfirmed"}
  /\ capture \in [events: Nat, bytes: Nat, truncated: BOOLEAN, delivered: Nat]
  /\ files \in [DOMAIN plan -> Record]
  /\ results \subseteq DOMAIN plan
  /\ handed \in [DOMAIN plan -> Nat] /\ dialled \in [DOMAIN plan -> Nat]

\* "A second executor cannot start while that file exists"
\* (docs/gatt-safety-interlock.md:9-10): at most one peer is connected, another
\* one dialled only after that link is confirmed down, and a link the run uses or
\* has left up keeps the next executor out.
RadioCovered ==
  /\ Cardinality(links) <= 1
  /\ links # {} => lease \/ latch

\* An operation is handed to the client at most once, and only after the records
\* of all operations before it are durable and say they succeeded; and a lost
\* link is never set up again, connect is called once for a run of operations on
\* one target ("it does not automatically reconnect", docs/gatt-executor.md:19).
EvidenceBeforeNext ==
  \A k \in DOMAIN plan :
    /\ handed[k] <= 1 /\ dialled[k] <= 1
    /\ handed[k] = 1 => \A j \in 1..k - 1 :
         j \in results /\ files[j] = [success |-> TRUE, effect |-> "succeeded"]
    /\ dialled[k] = 1 /\ k > 1 => plan[k - 1].target # plan[k].target

\* "Stops the plan on the first operation failure" (docs/gatt-executor.md:18):
\* once an operation is recorded as failed, or cleanup was not confirmed, no peer
\* is dialled and no operation handed out.  And "artifacts are never overwritten"
\* (line 14), though the handler writes the same path again after a failed write.
StopsAtFirstFailure ==
  [][/\ failed \/ unsafe \/ (\E k \in DOMAIN plan : files[k].effect = "failed")
          => UNCHANGED history
     /\ \A k \in DOMAIN plan : files[k] # NoRecord => files'[k] = files[k]]_vars

\* The summary tells no success that did not happen: what it counts is there, a
\* complete run handed out every operation, and a run said to be without RF
\* dialled nobody.  "If cleanup is confirmed safe, the persistent lease is
\* cleared" (docs/gatt-executor.md:19): a summary that says "clear" is right
\* about the links, the subscriptions and both interlock files.
SummaryIsTrue ==
  \A f \in final :
    /\ \A k \in f.recorded : files[k] # NoRecord
    /\ \A k \in f.successful : handed[k] = 1
    /\ f.complete => f.successful = DOMAIN plan /\ ~unsafe /\ f.state = "clear"
    /\ ~f.rfPerformed => \A k \in DOMAIN plan : dialled[k] = 0
    /\ f.state = "clear" => links = {} /\ notifying = {} /\ ~lease /\ ~latch

\* "Bounded to 256 events and 65536 bytes" (docs/gatt-executor.md:49), and a
\* notification is missing only from a record that says it is truncated.
CaptureBounded ==
  /\ capture.events <= MaxEvents /\ capture.bytes <= MaxBytes
  /\ capture.delivered # capture.events => capture.truncated

\* Every await ends, so every run ends, whatever the peers do.
RunEnds == <>(pc \in {"done", "aborted"})

\* "run-final.json records completion, cleanup" (docs/gatt-executor.md:14): a
\* run that left a link up says that its disconnection was not confirmed.
DisconnectTold ==
  \A f \in final : links # {} => f.disconnect = "unconfirmed"

\* The calls to the interlock, in the order SafetyInterlock gives them.
Stage ==
  CASE pc = "release" -> "releasing"
    [] pc = "latch" -> "latching"
    [] pc \in {"aborted", "final", "done"} -> "over"
    [] OTHER -> IF rfStarted THEN "rf" ELSE "leased"

Session ==
  IF ~rfStarted /\ links = {} THEN "none"
  ELSE IF Stage = "rf" THEN "open"
  ELSE IF unsafe THEN "unconfirmed"
  ELSE IF links = {} /\ notifying = {} THEN "closed" ELSE "open"

Client == INSTANCE InterlockClient WITH stage <- Stage, session <- Session
InterlockClientSpec == Client!Spec
=============================================================================
