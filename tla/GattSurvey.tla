------------------------------ MODULE GattSurvey ------------------------------
(***************************************************************************)
(* One active survey, `kamal-gatt survey --execute` (bin/kamal-gatt with     *)
(* kamal/gatt_survey.py), from the acquired lease to its exit status.  The   *)
(* scanner that found the targets keeps running while they are inspected     *)
(* one after the other, so what has to be cleaned up at every way out is a   *)
(* link and a scanner.  There are four ways out, `ending`: the discovery     *)
(* failed, the discovered queue was refused, the inspection was aborted, or  *)
(* it finished; and the outer handlers leave without any of them.            *)
(***************************************************************************)
EXTENDS Integers, SequencesExt

CONSTANTS
  Addresses,        \* numbered in the order sorted() gives them
  MaxDevices,       \* --max-devices
  InterlockFaults,  \* BOOLEAN: calls to the safety interlock may fail
  OutputFaults      \* BOOLEAN: evidence and manifest writes may fail

ASSUME SurveyAssumption ==
  /\ Addresses \subseteq Nat /\ IsFiniteSet(Addresses) /\ MaxDevices \in Nat \ {0}
  /\ InterlockFaults \in BOOLEAN /\ OutputFaults \in BOOLEAN

VARIABLES
  permitted,    \* addresses the survey policy permits
  authorized,   \* addresses inside the authorization's scope
  auth,         \* the authorization is within its validity period
  pc, ending,   \* where async_main stands, and which way out it is on
  queue, index, \* the frozen records, and the one being inspected
  scanning,     \* the adapter is discovering
  links,        \* devices a BLE link is up to
  report,       \* the current device: [ok, safe], status = 0 and cleanup_is_safe
  outcomes,     \* outcomes of run_survey_records
  confirmed,    \* all cleanup so far is confirmed
  state,        \* manifest["safety_interlock"]["state"]
  files,        \* which device-NNN.json exist
  manifest,     \* survey-manifest.json
  lease, latch, \* the interlock files
  exit,         \* exit status
  dialled       \* connect was called for these, in this order

request == <<permitted, authorized>>
radio == <<scanning, links>>
interlock == <<lease, latch>>
progress == <<ending, queue, index, report, outcomes, confirmed, state>>
evidence == <<files, manifest>>
vars == <<request, auth, pc, progress, radio, evidence, interlock, exit, dialled>>

NoManifest == [phase |-> "none", state |-> "none", recorded |-> 0, complete |-> FALSE]
Running == -1

\* validate_gatt_survey_authorization
Authorized(addresses) == auth /\ addresses \subseteq authorized

Failing(faults) == IF faults THEN BOOLEAN ELSE {FALSE}

Exit(status) == pc' = "done" /\ exit' = status

-----------------------------------------------------------------------------
(* The interlock: what its calls can do to the two files, and how they end *)

Release(result) ==
  /\ UNCHANGED latch
  /\ \/ result = "returns" /\ lease' = FALSE
     \/ result = "refuses" /\ InterlockFaults /\ UNCHANGED lease
     \/ result = "os_error" /\ InterlockFaults /\ lease' \in {FALSE, lease}

Latch(result) ==
  \/ result = "returns" /\ latch' = TRUE /\ lease' = FALSE
  \/ result \in {"refuses", "os_error"} /\ InterlockFaults /\ UNCHANGED interlock
  \/ result = "os_error" /\ InterlockFaults /\ latch' = TRUE /\ lease' \in {FALSE, lease}

-----------------------------------------------------------------------------
(* Discovery *)

\* mark_rf_started, before the first RF; if it fails the lease stays.  An OSError
\* of it is caught nowhere and ends the program.
Mark ==
  /\ pc = "mark"
  /\ \/ pc' = "discover" /\ UNCHANGED exit
     \/ InterlockFaults /\ \E code \in {1, 14} : Exit(code)
  /\ UNCHANGED <<request, auth, progress, radio, evidence, interlock, dialled>>

\* A start that raises may have reached the adapter.
StartScanner ==
  /\ pc = "discover"
  /\ \/ pc' = "snapshot" /\ scanning' = TRUE /\ UNCHANGED <<ending, confirmed>>
     \/ /\ pc' = "latch" /\ ending' = "failed" /\ confirmed' = FALSE
        /\ scanning' \in BOOLEAN
  /\ UNCHANGED <<request, auth, queue, index, report, outcomes, state, links,
                 evidence, interlock, exit, dialled>>

\* sorted() of a set of addresses
Sorted(S) ==
  CHOOSE s \in [1..Cardinality(S) -> S] :
    \A i, j \in 1..Cardinality(S) : i < j => s[i] < s[j]

\* Mutant of QueueOf: the limit cuts what the policy has not filtered.
QueueOfUnfiltered(heard) ==
  LET sorted == Sorted(heard)
  IN IF Len(sorted) > MaxDevices THEN SubSeq(sorted, 1, MaxDevices) ELSE sorted

\* build_target_queue: the policy filters, then the limit cuts the sorted rest.
QueueOf(heard) ==
  LET sorted == Sorted(heard \cap permitted)
  IN IF Len(sorted) > MaxDevices THEN SubSeq(sorted, 1, MaxDevices) ELSE sorted

\* What has been heard when the window closes is frozen; the scanner goes on.
\* A failure here stops it, whose own failure only changes the message.
Snapshot ==
  /\ pc = "snapshot"
  /\ \/ /\ \E heard \in SUBSET Addresses : queue' = QueueOf(heard)
        /\ pc' = "authorize"
        /\ UNCHANGED <<scanning, ending, confirmed>>
     \/ /\ pc' = "latch" /\ ending' = "failed" /\ confirmed' = FALSE
        /\ scanning' \in {FALSE, scanning}
        /\ UNCHANGED queue
  /\ UNCHANGED <<request, auth, index, report, outcomes, state, links, evidence,
                 interlock, exit, dialled>>

\* Mutant of Authorize: the refused survey gives the lease back at once.
AuthorizeReleasing ==
  /\ pc = "authorize"
  /\ \/ Authorized(ToSet(queue)) /\ pc' = "first" /\ UNCHANGED ending
     \/ ~Authorized(ToSet(queue)) /\ pc' = "release" /\ ending' = "refused"
  /\ UNCHANGED <<request, auth, queue, index, report, outcomes, confirmed, state, radio,
                 evidence, interlock, exit, dialled>>

\* The whole queue is authorized, or nobody on it is dialled.
Authorize ==
  /\ pc = "authorize"
  /\ \/ Authorized(ToSet(queue)) /\ pc' = "first" /\ UNCHANGED ending
     \/ ~Authorized(ToSet(queue)) /\ pc' = "stop" /\ ending' = "refused"
  /\ UNCHANGED <<request, auth, queue, index, report, outcomes, confirmed, state, radio,
                 evidence, interlock, exit, dialled>>

\* build_execution_manifest and the phase that checkpoint derives from it
Summary(phase) ==
  LET complete == /\ phase \notin {"aborted", "authorization_failed"}
                  /\ Len(outcomes') = Len(queue)
                  /\ \A k \in DOMAIN outcomes' : outcomes'[k].safe
  IN [phase |-> IF phase # "final" THEN phase
                ELSE IF complete /\ state = "clear" THEN "completed" ELSE "stopped_unsafe",
      state |-> state, recorded |-> Len(outcomes'), complete |-> complete]

\* The checkpoint that exists before the first connection; an error leaves by
\* the outer handler.
FirstCheckpoint ==
  /\ pc = "first"
  /\ UNCHANGED outcomes
  /\ \/ manifest' = Summary("executing") /\ pc' = "inspect" /\ UNCHANGED <<exit, confirmed>>
     \/ OutputFaults /\ Exit(11) /\ confirmed' = FALSE /\ UNCHANGED manifest
  /\ UNCHANGED <<request, auth, ending, queue, index, report, state, radio, files,
                 interlock, dialled>>

-----------------------------------------------------------------------------
(* Inspection *)

Abort == pc' = "stop" /\ ending' = "aborted"

\* Mutant of BeginInspection: the authorization is not looked at again.
BeginInspectionUnchecked ==
  /\ pc = "inspect"
  /\ IF index > Len(queue) THEN pc' = "stop" /\ ending' = "finished" /\ UNCHANGED dialled
     ELSE /\ dialled' = Append(dialled, queue[index])
          /\ pc' = "connecting" /\ UNCHANGED ending
  /\ UNCHANGED <<request, auth, queue, index, report, outcomes, confirmed, state, radio,
                 evidence, interlock, exit>>

\* The queue is done; or its authorization has expired; or something else is
\* raised on the way to the client, and that abort does not count as clean; or
\* the client cannot be constructed, which a report without a connection
\* records; or dial.
BeginInspection ==
  /\ pc = "inspect"
  /\ \/ /\ index > Len(queue)
        /\ pc' = "stop" /\ ending' = "finished"
        /\ UNCHANGED <<report, confirmed, dialled>>
     \/ /\ index <= Len(queue) /\ ~Authorized({queue[index]})
        /\ Abort
        /\ UNCHANGED <<report, confirmed, dialled>>
     \/ /\ index <= Len(queue) /\ Authorized({queue[index]})
        /\ Abort /\ confirmed' = FALSE
        /\ UNCHANGED <<report, dialled>>
     \/ /\ index <= Len(queue) /\ Authorized({queue[index]})
        /\ report' = [ok |-> FALSE, safe |-> TRUE]
        /\ pc' = "persist"
        /\ UNCHANGED <<ending, confirmed, dialled>>
     \/ /\ index <= Len(queue) /\ Authorized({queue[index]})
        /\ dialled' = Append(dialled, queue[index])
        /\ pc' = "connecting"
        /\ UNCHANGED <<ending, confirmed, report>>
  /\ UNCHANGED <<request, auth, queue, index, outcomes, state, radio, evidence, interlock,
                 exit>>

\* connect and the enumeration of services: both may fail, with or without a
\* link; the disconnection follows in any case.
ConnectDevice ==
  /\ pc = "connecting" /\ pc' = "disconnecting"
  /\ \E ok \in BOOLEAN : report' = [ok |-> ok, safe |-> FALSE]
  /\ IF report'.ok THEN links' = links \cup {queue[index]}
     ELSE links' \in {links, links \cup {queue[index]}}
  /\ UNCHANGED <<request, auth, ending, queue, index, outcomes, confirmed, state,
                 scanning, evidence, interlock, exit, dialled>>

\* Mutant of DisconnectDevice: connects again to disconnect once more.
DisconnectDeviceAgain ==
  /\ pc = "disconnecting"
  /\ \/ /\ links' = links \ {queue[index]}
        /\ report' = [report EXCEPT !.safe = TRUE]
        /\ pc' = "persist"
     \/ /\ links' \in {links, links \ {queue[index]}}
        /\ report' = [report EXCEPT !.ok = FALSE]
        /\ pc' = "connecting"
  /\ UNCHANGED <<request, auth, ending, queue, index, outcomes, confirmed, state,
                 scanning, evidence, interlock, exit, dialled>>

\* disconnect: confirmed, or raised, timed out, or returned while connected
DisconnectDevice ==
  /\ pc = "disconnecting" /\ pc' = "persist"
  /\ \/ /\ links' = links \ {queue[index]}
        /\ report' = [report EXCEPT !.safe = TRUE]
     \/ /\ links' \in {links, links \ {queue[index]}}
        /\ report' = [report EXCEPT !.ok = FALSE]
  /\ UNCHANGED <<request, auth, ending, queue, index, outcomes, confirmed, state,
                 scanning, evidence, interlock, exit, dialled>>

\* A device whose report cannot be written has no outcome: its cleanup counts
\* as unconfirmed, whatever the report says.
PersistReport ==
  /\ pc = "persist"
  /\ \/ /\ files' = files \cup {index}
        /\ outcomes' = Append(outcomes, report)
        /\ pc' = "checkpoint"
        /\ UNCHANGED <<ending, confirmed>>
     \/ /\ OutputFaults /\ Abort /\ confirmed' = FALSE
        /\ UNCHANGED <<files, outcomes>>
  /\ UNCHANGED <<request, auth, queue, index, report, state, radio, manifest,
                 interlock, exit, dialled>>

\* Mutant of CheckpointOutcome: a failed checkpoint is made up for later.
CheckpointOutcomeLazy ==
  /\ pc = "checkpoint"
  /\ confirmed' = (confirmed /\ report.safe)
  /\ UNCHANGED outcomes
  /\ manifest' = Summary("executing") \/ (OutputFaults /\ UNCHANGED manifest)
  /\ IF report.safe THEN pc' = "inspect" /\ index' = index + 1 /\ UNCHANGED ending
     ELSE pc' = "stop" /\ ending' = "finished" /\ UNCHANGED index
  /\ UNCHANGED <<request, auth, queue, report, state, radio, files, interlock, exit,
                 dialled>>

\* on_outcome; only a device with confirmed cleanup lets the queue go on.
CheckpointOutcome ==
  /\ pc = "checkpoint"
  /\ confirmed' = (confirmed /\ report.safe)
  /\ UNCHANGED outcomes
  /\ \/ /\ manifest' = Summary("executing")
        /\ IF report.safe THEN pc' = "inspect" /\ index' = index + 1 /\ UNCHANGED ending
           ELSE pc' = "stop" /\ ending' = "finished" /\ UNCHANGED index
     \/ OutputFaults /\ Abort /\ UNCHANGED <<index, manifest>>
  /\ UNCHANGED <<request, auth, queue, report, state, radio, files, interlock, exit,
                 dialled>>

-----------------------------------------------------------------------------
(* Clean-up *)

\* Mutant of StopScanner: an error of stop() is only noted.
StopScannerNoting ==
  /\ pc = "stop"
  /\ pc' = IF confirmed THEN "release" ELSE "latch"
  /\ scanning' \in {FALSE, scanning}
  /\ UNCHANGED <<request, auth, ending, queue, index, report, outcomes, confirmed, state,
                 links, evidence, interlock, exit, dialled>>

\* stop_active_survey_scanner, and the decision it takes part in
StopScanner ==
  /\ pc = "stop"
  /\ \/ /\ scanning' = FALSE
        /\ pc' = IF confirmed THEN "release" ELSE "latch"
        /\ UNCHANGED confirmed
     \/ /\ scanning' \in {FALSE, scanning}
        /\ pc' = "latch" /\ confirmed' = FALSE
  /\ UNCHANGED <<request, auth, ending, queue, index, report, outcomes, state,
                 links, evidence, interlock, exit, dialled>>

\* Only SafetyInterlockError is handled at the call; an OSError reaches the
\* outer handler, or on the refused and failed ways nobody.
OsError ==
  /\ Exit(IF ending \in {"refused", "failed"} THEN 1 ELSE 11)
  /\ UNCHANGED state

ReleaseLease ==
  /\ pc = "release"
  /\ \/ Release("returns") /\ state' = "clear" /\ pc' = "manifest" /\ UNCHANGED exit
     \/ Release("refuses") /\ state' = "uncertain" /\ pc' = "manifest" /\ UNCHANGED exit
     \/ Release("os_error") /\ OsError
  /\ UNCHANGED <<request, auth, ending, queue, index, report, outcomes, confirmed, radio,
                 evidence, dialled>>

\* After a failed discovery there is no manifest to write.
LatchUnsafe ==
  /\ pc = "latch"
  /\ \/ /\ Latch("returns") /\ state' = "recovery_required"
        /\ IF ending = "failed" THEN Exit(10) ELSE pc' = "manifest" /\ UNCHANGED exit
     \/ /\ Latch("refuses") /\ state' = "uncertain"
        /\ IF ending = "failed" THEN Exit(10) ELSE pc' = "manifest" /\ UNCHANGED exit
     \/ Latch("os_error") /\ OsError
  /\ UNCHANGED <<request, auth, ending, queue, index, report, outcomes, confirmed, radio,
                 evidence, dialled>>

FinalPhase ==
  CASE ending = "refused" -> "authorization_failed"
    [] ending = "aborted" -> "aborted"
    [] OTHER -> "final"

\* A survey that was refused does not mind a manifest it cannot write.
ExitStatus(written) ==
  CASE ending = "refused" -> IF state = "clear" THEN 9 ELSE 14
    [] ending # "refused" /\ ~written -> 11
    [] ending = "aborted" /\ written -> 13
    [] ending = "finished" /\ written ->
         IF state = "uncertain" THEN 14
         ELSE IF manifest'.phase = "completed" /\ \A k \in DOMAIN outcomes : outcomes[k].ok
              THEN 0 ELSE 12

WriteManifest ==
  /\ pc = "manifest"
  /\ UNCHANGED outcomes
  /\ \E failure \in Failing(OutputFaults) :
       /\ manifest' = IF failure THEN manifest ELSE Summary(FinalPhase)
       /\ Exit(ExitStatus(~failure))
  /\ UNCHANGED <<request, auth, ending, queue, index, report, confirmed, state, radio,
                 files, interlock, dialled>>

-----------------------------------------------------------------------------
(* What happens to the survey *)

\* Cancelled (at an await) or killed (anywhere): no handler of the survey runs.
Interrupt ==
  /\ pc # "done" /\ Exit(130)
  /\ confirmed' = (confirmed /\ pc \in {"mark", "release", "latch", "manifest"})
  /\ UNCHANGED <<request, auth, ending, queue, index, report, outcomes, state, radio,
                 evidence, interlock, dialled>>

\* A peer drops its link, or the adapter stops discovering.
RadioStops ==
  /\ \/ \E a \in links : links' = links \ {a} /\ UNCHANGED scanning
     \/ scanning /\ scanning' = FALSE /\ UNCHANGED links
  /\ UNCHANGED <<request, auth, pc, progress, evidence, interlock, exit, dialled>>

Expire ==
  /\ auth /\ auth' = FALSE
  /\ UNCHANGED <<request, pc, progress, radio, evidence, interlock, exit, dialled>>

-----------------------------------------------------------------------------

\* Before RF the policy and the authorization were checked against each other:
\* all discovered devices are permitted, or an allowlist that is authorized.
Init ==
  /\ authorized \in SUBSET Addresses
  /\ permitted \in {Addresses} \cup (SUBSET authorized \ {{}})
  /\ auth = TRUE /\ pc = "mark" /\ ending = "none"
  /\ queue = <<>> /\ index = 1
  /\ scanning = FALSE /\ links = {}
  /\ report = [ok |-> FALSE, safe |-> TRUE] /\ outcomes = <<>>
  /\ confirmed = TRUE /\ state = "active"
  /\ files = {} /\ manifest = NoManifest
  /\ lease = TRUE /\ latch = FALSE
  /\ exit = Running /\ dialled = <<>>

Survey ==
  \/ Mark \/ StartScanner \/ Snapshot \/ Authorize \/ FirstCheckpoint
  \/ BeginInspection \/ ConnectDevice \/ DisconnectDevice
  \/ PersistReport \/ CheckpointOutcome
  \/ StopScanner \/ ReleaseLease \/ LatchUnsafe \/ WriteManifest

Next == Survey \/ Interrupt \/ RadioStops \/ Expire

Spec == Init /\ [][Next]_vars

\* One task: connect and disconnect have time limits, the discovery window ends,
\* and the calls that start and stop the scanner are taken to return.
FairSpec == Spec /\ WF_vars(Survey)
-----------------------------------------------------------------------------
(* Properties *)

TypeOK ==
  /\ permitted \subseteq Addresses /\ authorized \subseteq Addresses
  /\ {auth, scanning, confirmed, lease, latch} \subseteq BOOLEAN
  /\ pc \in {"mark", "discover", "snapshot", "authorize", "first", "inspect",
             "connecting", "disconnecting", "persist", "checkpoint",
             "stop", "release", "latch", "manifest", "done"}
  /\ ending \in {"none", "failed", "refused", "aborted", "finished"}
  /\ queue \in Seq(permitted) /\ index \in 1..Len(queue) + 1
  /\ links \subseteq ToSet(dialled) /\ dialled \in Seq(ToSet(queue))
  /\ report \in [ok: BOOLEAN, safe: BOOLEAN]
  /\ outcomes \in Seq([ok: BOOLEAN, safe: BOOLEAN])
  /\ state \in {"active", "clear", "recovery_required", "uncertain"}
  /\ files \subseteq DOMAIN queue
  /\ exit \in {Running, 0, 1, 9, 10, 11, 12, 13, 14, 130}

Quiet == links = {} /\ ~scanning

\* "The lease is not released as clear until scanner stop is confirmed"
\* (docs/gatt-safety-interlock.md:28-29), nor while a link may be up: whatever
\* way the survey ends, a radio in use keeps the other active tools out.  And two
\* devices are never connected at once, however connect and disconnect failed.
SurveyCovered ==
  /\ ~Quiet => lease \/ latch
  /\ \A a, b \in links : a = b

\* The manifest on disk is right at every moment.  "Persist and checkpoint before
\* the next target" (gatt_survey.py:289): while a device is being inspected, it
\* counts the reports of all devices before it, and they are there.  When it says
\* "clear", links, scanner and interlock are; when it says "completed", each
\* device has its report and its disconnection was confirmed; exit status 0 means
\* also that each inspection succeeded.
ManifestIsTrue ==
  /\ pc \in {"connecting", "disconnecting"} =>
       /\ files = 1..index - 1
       /\ manifest.phase = "executing" /\ manifest.recorded = index - 1
  /\ manifest.state = "clear" => Quiet /\ ~lease /\ ~latch
  /\ manifest.phase = "completed" =>
       /\ manifest.state = "clear" /\ files = DOMAIN queue
       /\ \A k \in DOMAIN outcomes : outcomes[k].safe
  /\ exit = 0 =>
       /\ manifest.phase = "completed"
       /\ Len(dialled) = Len(queue) /\ \A k \in DOMAIN outcomes : outcomes[k].ok

\* Whenever the survey dials, its authorization is still valid (it "revalidates
\* the current target before every connection", docs/active-gatt-contracts.md:
\* 148-149), the device is inside policy and authorization and was not dialled
\* before, and the limit is kept; what is heard after the window "does not expand
\* the authorized queue" (gatt_survey.py:151-152).
ScopeRespected ==
  [][dialled' # dialled =>
       LET device == dialled'[Len(dialled')]
       IN /\ auth /\ device \in permitted \cap authorized
          /\ \A k \in DOMAIN dialled : dialled[k] < device
          /\ Len(dialled') <= MaxDevices]_vars

\* Every await ends, so every survey ends, whatever devices and files do.
SurveyEnds == <>(pc = "done")

\* The survey is a client of the interlock like the bounded executor, except
\* that it may end with the lease in place.
Stage ==
  CASE pc = "mark" -> "leased"
    [] pc = "release" -> "releasing"
    [] pc = "latch" -> "latching"
    [] pc \in {"manifest", "done"} -> "over"
    [] OTHER -> "rf"

Session ==
  IF Stage = "rf" THEN "open"
  ELSE IF Stage = "leased" \/ (ending = "none" /\ confirmed) THEN "none"
  ELSE IF ~confirmed THEN "unconfirmed"
  ELSE IF Quiet THEN "closed" ELSE "open"

Client == INSTANCE InterlockClient WITH stage <- Stage, session <- Session
InterlockClientSpec == Client!AbandoningSpec
=============================================================================
