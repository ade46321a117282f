# A verification project for K'amal

K'amal is the software of a Raspberry-Pi field node for the assessment of
Bluetooth LE devices: passive capture with three sniffers, authorized active
work (GATT surveys, bounded GATT operations, one pairing attempt), and offline
analysis of the evidence. What can hurt is the active part: it uses a radio, on
other people's devices, inside a period of authorization, from processes that
may die. These modules state what that part promises and check it against what
the code does. Paths are relative to the repository.

## 1. Inventory

| Component | State | Operations | Interacts through |
|---|---|---|---|
| Safety interlock: `kamal/gatt_safety.py`, `kamal/evidence_contracts.py`, `bin/kamal-resolve-gatt-unsafe` | `active-run.json`, `unsafe-stop.json`, `resolutions/<sha>.json` in a directory shared by every active tool | acquire, mark, release, latch, resolve | the file system only |
| Bounded GATT executor: `kamal/gatt_executor.py`, `bin/kamal-execute-gatt` | one task: current client and target, `unsafe`, `error`, records; `run-start`, `operation-NNN`, `run-final.json` | read, write, subscribe, disconnect, record, finish | interlock, BLE client library, plan |
| Active survey: `kamal/gatt_survey.py`, `bin/kamal-gatt` | running scanner, frozen target queue, outcomes, manifest | discover, inspect each, checkpoint, stop | interlock, client library, authorization |
| Pairing executor: `kamal/pairing_executor.py`, `bin/kamal-execute-pairing` | agent, scanner, pairing call, two states of the device, `session_status` | discover, Pair, CancelPairing, Disconnect, clean up, write | interlock, BlueZ over D-Bus, other D-Bus clients |
| Contracts: `kamal/active_contracts.py`, `kamal/pairing_contracts.py`, `bin/kamal-plan-gatt`, `bin/kamal-plan-pairing` | the files people edit between two commands | validate an authorization, build a plan, verify it | files, the clock |
| Result semantics: `kamal/result_semantics.py`, `bin/kamal-review-gatt-result` | one operation record and its review | begin, succeed, fail, review | executor, review tool |
| Bluetooth SIG importer: `tools/import_bluetooth_sig.py` | immutable snapshots and the set of active flat files | build, verify, activate, roll back | file system, other importers |
| Catalog and provenance: `kamal/identifiers.py`, `kamal/catalog_provenance.py` | what a scan loaded, the snapshot a report is bound to | load, bind | the active files, the snapshots |
| BlueZ store inspection: `kamal/bluez_security_state.py`, `kamal/bluez_key_evidence.py` | none | read and parse files that bluetoothd owns | file system |
| Three-radio capture: `bin/kamal-capture`, `setup/kamal-nrf-fixed-adv.c` | three receiver processes, ready files, pcaps, exit status | start, wait, stop by INT/TERM/KILL, traps | signals, files, an LD_PRELOAD shim |
| Security contracts: `kamal/bluetooth_security.py` | none | validate one record | offline tools |
| Assessment, correlation, intelligence, BSAM mapping | none | transform evidence | files |
| Acceptance report, passive scan and reports, set-up scripts | none worth a model | parse, format, install | files, apt, udev |

What is hard:

* The interlock is a lock made of files. Its users are processes that start,
  crash and lose power independently. Every operation is several system calls,
  each preceded by an `exists()`, and a rename replaces whatever it finds.
  Correct means: one BLE session at a time; a session that ended unconfirmed
  blocks until an operator has reviewed it; recovery leaves a record and can be
  retried.
* The executor awaits calls that may time out although the peer did what was
  asked. Peers drop links, and the client library notices late. The
  authorization may expire during any await, and each file write of the error
  paths may itself fail. Correct means: at most one link, no link left behind
  uncovered, no operation after a failure, evidence written once, a summary
  that is true.
* Survey and pairing repeat the executor's pattern with one more resource each,
  a running scanner and a D-Bus agent, and with error paths of their own. Pairing
  changes a state that outlives it, of which it knows only what BlueZ answers,
  and other D-Bus clients may change that state at the same time.
* Authorizations and plans are files that people edit between commands. Planner,
  executor and survey each check them again, with code of their own, against a
  clock that somebody may set. Correct means: nothing is done on the radio that
  the authorization in force did not permit, and the two sides agree.
* Importers publish several files by several renames without a lock, roll back
  when one fails, and are killed; readers load the files one by one. Store
  inspection reads files while their owner replaces them.
* Capture: three processes, signals with escalation, and traps that may fire
  while another is running.

`PROJECT.json` lists all components and, under "hazards", each such place at its
line.

## 2. Plan

| Step | Modules | Abstract counterpart | State |
|---|---|---|---|
| 1 | `SafetyInterlock`, `MCSafetyInterlock`, `MCRecovery`, `SafetyInterlockProofs` | `ExclusiveUse` | modelled, checked, proved |
| 2 | `GattExecutor`, `MCGattExecutor`, `GattExecutorProofs` | `InterlockClient` | modelled, checked, proved |
| 3 | `GattSurvey`, `MCGattSurvey`, `GattSurveyProofs` | `InterlockClient` | modelled, checked, proved |
| 4 | `PairingExecutor`, `MCPairingExecutor`, `PairingExecutorProofs` | `InterlockClient` | modelled, checked, proved |
| 5 | `GattContracts`, `PairingContracts`, `ResultSemantics`, composed in `PlanLifecycle`, `MCPlanLifecycle`, `PlanLifecycleProofs` | what an authorization permits (`Permits`) | modelled, checked, proved |
| 6 | `SigCatalog`, `MCSigCatalog`, `SigCatalogProofs` | | modelled, checked, proved |
| 7 | `BluezStore`, `MCBluezStore`, `BluezStoreProofs` | | modelled, checked, proved |
| 8 | the three receivers of the capture | | not modelled, see section 9 |

Composition. `SafetyInterlock` contains the executor's calls to the interlock as
a small state machine of its own, with the session reduced to open, closed or
unconfirmed. `InterlockClient` is that state machine seen from the other side.
`GattExecutor`, `GattSurvey` and `PairingExecutor` are each checked and proved to
implement it, survey and pairing with one more step: they may end with the lease in place,
which for the interlock is a process that died. What the interlock is proved to
guarantee then holds whichever of the tools uses it. `PlanLifecycle` is the other
composition: it puts the contracts of both kinds of plan, the planners, the
executors' own verification and the review of results into one behaviour of
files, people and a clock; there, an operation on the radio is one step that is
performed or fails, and the executors' modules say what is in that step.

## 3. SafetyInterlock

Two kinds of processes: `Runs`, invocations of the executor, and `Resolvers`,
invocations of the recovery tool. They share `dir`, the two paths, and
`resolutions`. Each call on the directory is one action:

| Code | Actions |
|---|---|
| `assert_execution_allowed`, `acquire_active_run` | `CheckUnsafe`, `CheckActive`, `CreateLease` |
| output set-up of `execute_plan` | `SetUpOutput`, then the release with its errors re-raised |
| `mark_rf_started`, `replace_active_run` | `ReadLease`, `MarkCheckUnsafe`, `MarkCheckActive`, `ReplaceLease` |
| the operations and `disconnect_current` | `StopBeforeRF`, `CleanUpSession`, `CleanUpNothing` |
| `release_active_run` | `ReleaseCheckUnsafe`, `ReleaseCheckActive`, `ReleaseUnlink` |
| `latch_unsafe_stop` | `LatchQuoteLease`, `LatchCheckUnsafe`, `LatchCreate`, `LatchConfirm`, `LatchUnlink` |
| `resolve_interlock` | `BeginResolve`, `SelectSource`, `ReadSource`, `FindResolution`, `RecordResolution`, `ResolveUnlinkActive`, `ResolveUnlinkUnsafe` |
| outside the code | `CrashRun`, `CrashResolver`, `LosePower` |

A file is reduced to what decides anything: the lease to its owner and
`rf_started`, the latch to the run that published it, an artifact to the SHA-256
of its source and of its request. `atomic_create_json` (write a temporary file,
link, sync the directory) is atomic in what it makes visible, and ends in one of
three ways: durable, visible without its directory sync, not visible. The
history variables `session` and `acknowledged` say what happened to each run's
BLE session and which targets an operator has since reviewed.

Assumptions about what is outside:

* Directory changes reach the disk in the order they were made, as on a
  journalling file system, so that `persisted`, the directories a power loss may
  leave, holds the last synced one and those that followed it. A directory sync
  makes the present one the only one. Recovery artifacts, in a directory of
  their own, are taken to survive a power loss once they are visible.
* The operator starts the recovery tool when a file blocks and no executor is
  running, which is what the recovery request's two confirmations say.
* With `OperatorWaits = TRUE`, also that nothing else is started while the
  recovery tool runs. The code does not enforce this; the runs
  `late_unlink` and `recovery` do without it. `recovery` has a history variable
  (`disturbed`, in `MCRecovery`) for the tools that ran while a run or another tool
  did, since only an undisturbed recovery is sure to finish.

`ExclusiveUse` is what this amounts to for the radio: a set of open sessions,
never more than one, and a set of unresolved ones that keeps it empty. The
refinement maps a session to open while its process runs, and to unresolved
when the process died in it or could not confirm its end, until the operator
has signed a recovery request.

## 4. GattExecutor

One call of `execute_plan`, with one action per await or per group of
statements without one. `pc` is the place in the function, `index` the loop
variable, and `client`, `connected`, `unsafe`, `failed` (an error is set),
`success` (`rec["transport_success"]`), `disconnect` are its locals. `links` and
`notifying` are the physical truth, `connected` what the client library says.

| Code | Actions |
|---|---|
| output set-up | `SetUp` |
| loop head, target switch, prepare and mark | `BeginOp`, `SwitchTarget`, `PrepareRF` |
| discovery, connect, reuse | `Discover`, `Connect`, `ReuseConnection` |
| authorization again, selector, the operation | `RefuseOp`, `Request`, `Subscribe`, `Notification`, `StopNotify` |
| success record, failure record | `PersistSuccess`, `RecordFailure` |
| `finally` | `FinalDisconnect`, `ReleaseLease`, `LatchUnsafe`, `WriteFinal` |
| the world | `PeerDrops`, `NoticeLoss`, `Expire`, `Notification` |

The plan is any sequence of up to `MaxOps` operations. An operation keeps its
target and whether it is one request or a subscription: reads and writes differ
only in what their records hold. Payloads, UUIDs and effect semantics beyond
succeeded and failed are left out; `PlanLifecycle` has the latter. An await may
return, fail or time out, and a failure may come with or without its effect.

Assumption: when `is_connected` is false the link is down. The client library
reports a link late but does not deny one; in particular it takes down what a
connect that timed out had begun. `disconnect_current` relies on this where it
returns "already disconnected". Kills are not modelled here but in
`SafetyInterlock`: the executor writes nothing when killed.

## 5. GattSurvey and PairingExecutor

`GattSurvey` is one `kamal-gatt survey --execute`, from the acquired lease to the
exit status.

| Code | Actions |
|---|---|
| `mark_rf_started`, `start_live_target_record_discovery`, `build_target_queue` | `Mark`, `StartScanner`, `Snapshot` |
| authorization of the queue, first `checkpoint` | `Authorize`, `FirstCheckpoint` |
| `inspect_record`, `inspect_discovered_device` | `BeginInspection`, `ConnectDevice`, `DisconnectDevice` |
| `run_survey_records` | `PersistReport`, `CheckpointOutcome` |
| clean-up, on each of the ways out | `StopScanner`, `ReleaseLease`, `LatchUnsafe`, `WriteManifest` |
| the world | `Interrupt`, `RadioStops`, `Expire` |

`async_main` spells out its clean-up once for a refused queue, once for an aborted
inspection and once for a finished one. The model has it once, with `ending` the
way out; where the three differ (what an error does, which manifest is written,
the exit status) the definitions ask `ending`. `confirmed` is the conjunction that
the code forms from `cleanup_is_safe` of the outcomes, the result of the scanner
stop and, in an abort, the kind of its cause.

Addresses are numbers, since the queue is sorted before it is cut. Reports keep
whether the inspection succeeded and whether its clean-up is safe. The two ways
in which a call on the interlock may raise are kept apart, because the survey
handles `SafetyInterlockError` only: an `OSError` ends it by the outer handler.
Left out: validation of arguments and registries before the lease is taken, the
discovery-only mode, and `kamal-gatt inspect`, which takes no lease.

`PairingExecutor` is one `execute_pairing_plan` with its BlueZ backend, from the
acquired lease to the last artifact. `device` is the truth: which of the target's
`Paired`, `Bonded`, `Trusted` and `Connected` hold; `before` and `after` are the
copies the run has read.

| Code | Actions |
|---|---|
| `run-start.json`, `prepare` and `mark_rf_started`, `discover` | `WriteRunStart`, `Prepare`, `Discover` |
| state before, preconditions | `ReadBefore` |
| `register_agent`, `Pair` with its time limit, `cancel_pairing` | `CallPair`, `AwaitPair`, `CancelPairing` |
| state after and its verdict, `session_status` | `ReadAfter` |
| current state, `disconnect` with its polling, state once more | `DecideDisconnect`, `CallDisconnect`, `AwaitDisconnect`, `PollDisconnected`, `ReadFinalState` |
| `stop_discovery`, `close` | `StopDiscovery`, `CloseBackend` |
| `pairing-session.json`, interlock, `run-final.json` | `WriteSession`, `ReleaseLease`, `LatchUnsafe`, `WriteFinal` |
| BlueZ, the peer, other clients, the operator | `LinkUp`, `PairingSucceeds`, `PairingFails`, `LinkDrops`, `OtherClient`, `Cancelled`, `Killed` |

An answer of BlueZ may come after the run has stopped waiting for it; a call that
fails may have had its effect; each read of the state may fail. `OtherClient` is
one step of one other D-Bus client, at any moment. A `CancelledError` in the `try`
block goes through its `finally`; one in the `finally` leaves at once. Plans that
ask for a pairing without a bond are left out, since the backend refuses them before
anything is sent (`PlanLifecycle` has them). Left out, too: what the artifacts hold
besides the states and verdicts, and the agent's dialogue: it answers no question a
user would.

Assumptions: for the survey as for the GATT executor. For both, `lease` and `latch`
change only by the run's own hand, which `SafetyInterlock` examines. Calls for
which the code sets no time limit return: the survey's start and stop of its
scanner; in pairing `GetAll`, `CancelPairing`, `UnregisterAgent` and the calls on
the scanner. BlueZ forgets the keys of a device that is paired and not bonded when
its link goes down.

## 6. The other modules and the runs

**PlanLifecycle.** Three workflows, one per behaviour: `kamal-plan-gatt` and
`kamal-execute-gatt`; `kamal-plan-pairing` and `kamal-execute-pairing`; and
`kamal-gatt survey`, which has no plan. Every command reads its files one after the
other (`PlannerLoads`, `PlannerBuilds`, `ExecutorLoadsPlan`,
`ExecutorLoadsAuthorization`, `Verify`, `SurveyStarts`), anybody may replace a file
between two reads (`Edit`) and set the clock (`Tick`). `BeginOperation` and
`SurveyVisits` look at the authorization again where the code does; `Send` and `Pair`
are the radio; `ReviewResult` is the review tool. The predicates are the contracts:

| Code | Definitions |
|---|---|
| `validate_authorization_scope`, `validate_gatt_survey_authorization` | `AuthorizationValid`, `SurveyAuthorized` |
| `build_gatt_operation_plan`, `_verify_plan` | `CanPlan`, `PlanOf`; `VerifiesPlan`, `VerifiesOperation` |
| `validate_pairing_authorization`, `build_pairing_plan`, `validate_pairing_plan` | `PairingAuthorizationValid`, `CanPlanPairing`, `VerifiesPairingPlan` |
| `result_semantics.py` | `Baseline`, `Succeeded`, `Failed`, `SemanticsValid`, `ReviewAccepted`, `ReviewOf` |

A document is the record that is parsed of it, and its SHA-256 stands for the
document: two documents with one digest are one. `shape` is FALSE for a document with
a field that is unknown, missing, repeated or of another type. GATT selectors are
left out: what one resolves to is for the peer to say. The executor's `_verify_plan`
and the planner are not the same code: the former lets a write of an unknown mode
or with a payload that is not hexadecimal pass, which is refused only when its
record is begun (`RecordCanBegin`) or its bytes are made (`CanSend`). The model
keeps both places, and `WithinAuthorization` holds because of the later one.

**SigCatalog.** Importers run without a lock against each other. `BuildSnapshot` is
one step, since all is written under another name and renamed; its verification is
another. `ReadPrevious`, `Replace`, `NoteReplaced` and `Rollback` go file by file, and the
note that a file has been replaced is a step after its replacement, since an interrupt
may come between. `Interrupt` is a KeyboardInterrupt at any place: before the loop of
replacements it ends the import, in the loop it starts the rollback
(`InterruptReplacing`), which does not know of a file that is not noted yet, and in the
rollback (`InterruptRollback`) it is one more rollback error while a file is being
restored, and leaves the handler anywhere else. `entries` is what a power loss may find
under each name: no directory is synced, nor the files of a snapshot. A scan loads some
of the files in an order of its own (`LoadRegistry`), and its report is then bound to a
snapshot or rejected (`Bind`). Two histories: `found` is what an importer is held to,
the set it began with, as long as nobody else has published; `missed` names the
registries that an interrupt kept from its rollback, and those that the message of an
incomplete rollback names. `AllOrNothing` is what the documentation promises, and fails
(section 7); `RollbackRestores` is what the code keeps: everything but `missed` is as it
was found. `Bind` is not the subject of a property, since it compares and refuses in one
step; `LoadedIsBacked` says that what a scan has loaded can be bound at all: no importer
that builds, verifies or gives up the same revision takes its snapshot away.

**BluezStore.** The inspection and the key analysis each go through lstat, open and
fstat, two reads, and the second fstat, for `cache` and `info`, while bluetoothd
replaces, removes and creates the files and somebody writes them in place
(`ReplaceRecord`, `RemoveRecord`, `WriteInPlace`). Inodes that nothing holds are used
again at once. A document is a sequence of lines; of a document longer than
`ChunkLines` a read sees the first part before and the rest after a change. Both
parsers are modelled line by line with where they differ: the analysis takes names as
they are spelled and a field once, the inspection takes `key` in any spelling
and the last of repeated fields. Assumption: every change has a ctime of its own
(the kernel's clock is finer than two changes). Cache and info need not be of the same
moment, and the code does not claim it.

| Run | Question | Bounds | States |
|---|---|---|---|
| `interlock` | exclusion, blocking, the rf_started mark, both ways of clearing, refinement of `ExclusiveUse` | three runs, one tool, every failure, crash and power loss | 629 376 |
| `recovery` | one blocking file, one request; a killed recovery can be finished; a lease comes back | two runs, two tools, two requests, no operator discipline, working file system, crashes | 385 424 |
| `executor` | cover, evidence, summary, capture limits, order of failures, `InterlockClient`, its end | plans of up to three operations on two peers, two events, three bytes | 1 556 252 |
| `survey` | cover, manifest, scope, `InterlockClient`, its end | four devices, of which up to three are queued; every policy and scope | 730 448 |
| `pairing` | cover, truth of the final record, the bond, `InterlockClient`, its end | every plan, agent mode and state of the device | 906 458 |
| `contracts` | nothing beyond the authorization; planner and executor agree; records are modest | 34 authorizations, 36 requests and sets of options, one edit, four clock readings | 515 116 |
| `catalog` | a rollback restores what it knows of, nothing torn, what is loaded has its snapshot | two importers, two revisions, three registries, one interrupt, kill or power loss | 4.4 million |
| `bluez_store` | what is reported was there; the two parsers agree | two changes, seven info and two cache documents | 2.7 million |
| `late_unlink` | violated: blocking, when a run starts while a tool is between its unlinks | two runs, one tool | |
| `disconnect_overwritten` | violated: the summary tells a failed disconnection | plans of up to two operations | |
| `interrupt_mixes` | violated: the whole new set, or the set that was found | one importer, one interrupt, kill or power loss | |
| `complete_outdated` | violated: a complete pairing run reports a bonded device | every plan, working interlock and file system | |

The properties, by hazard:

* Something is left on the air and nothing keeps the next tool out:
  `OneSessionAtATime`, `UncertainStaysBlocked`, `LeaseTellsOfRF`, `RadioCovered`,
  `SurveyCovered`, `PairingCovered`, and `InterlockClientSpec` of each tool.
* A blocking file disappears without a review, or a recovery can neither be
  finished nor repeated: `BlockersClearedSafely`, `OneRequestPerSource`,
  `RetryFinishesRecovery`.
* The records of a run say what did not happen, or leave out what did:
  `SummaryIsTrue`, `EvidenceBeforeNext`, `ManifestIsTrue`, `FinalIsTrue`,
  `BondIsReported`, `EvidenceIsModest`.
* A run goes on where it must stop, or beyond what it may do: `StopsAtFirstFailure`,
  `CaptureBounded`, `ScopeRespected`, `WithinAuthorization`.
* Two pieces of code that must agree, written twice: `PlansAreAccepted`,
  `KeysImplyBonded`.
* Several files as if they were one: `AllOrNothing` (violated), `RollbackRestores`,
  `NothingTornIsActive`, `LoadedIsBacked`, `ReportsAreWhole`.
* Nobody waits for ever: `LeaseComesBack`, `RunEnds`, `SurveyEnds`, `PairingEnds`.

Why the bounds are enough to meet the cases. Three runs: one that ends badly, one
that waits at the lease and takes part in the race for it, one that starts after
either. One tool per run of the model is enough for recovery to interleave with
crashes at each of its steps; two are needed for the races between them, and for
retry. Three operations on two targets: the first connection, its reuse, a
switch, and a return to the first peer. Two events and three bytes with
notifications of one or two bytes reach both limits of the capture, each before
the other, and a small notification that still fits after a large one did not;
three deliveries per subscription (`MaxDelivered`) are one more than fit. Four
devices with a limit of three: the limit cuts, the policy filters, and there is a
device before and one after the one that fails. `PairingExecutor` has no counter but
`OtherClient`, which acts once: between any two reads. Two importers, and after a kill or power loss one
that is run again, meet each other at every file; three files are the least with a first, a
middle and a last one for the rollback, and `Loaded` visits two of them in the other
order. `MCView` leaves `entries` and `unsynced` out of the state once no crash can come:
only `PowerLoss` reads them, and no property mentions them but `TypeOK`. Two changes suffice to take a file away and put another there, also at the same
inode; the documents differ in the first part only, in the second only, or in both.
Each authorization of `MCPlanLifecycle` differs from a valid one in one or two fields, the
limits are met and exceeded by one, and four readings of the clock are before, at the
start of, within and at the end of the window. The interlock has as many states as its
invocations allow, so no counter needs a bound. All of these programs end, so deadlock
is not checked.

Fairness. An executor or tool that has begun is scheduled until it ends (weak
fairness of its steps): operating-system processes and one asyncio task. Nothing
makes the operator start one. In `GattExecutor` weak fairness of the executor's
own steps stands for the time limit that the code puts on every await;
the environment has no fairness at all. In `GattSurvey` it stands for the limits
on connect and disconnect, the fixed discovery window, and the assumption on the
scanner calls; in `PairingExecutor` for the limits on Pair, Disconnect, the polling
and the discovery, and the assumption on the other calls. Contracts, catalog and
store have no liveness property: their commands await nothing.

## 7. What the runs found

* `late_unlink`: `resolve_interlock` unlinks the two paths by name, whatever they
  hold by then. A latch that an executor published after the tool had read the lease
  it was asked to clear is removed without a record. The documentation's statements
  about the recovery artifact hold if the operator starts nothing while the tool runs.
* `disconnect_overwritten`: when the disconnection before a target switch is not
  confirmed, the run stops and latches as it must, but the `finally` block asks
  `disconnect_current` again, with no client left, and stores its "already
  disconnected" over the failure. Both `run-final.json` and the latch then tell
  the operator that the link was down.
* `complete_outdated`: a pairing run is judged on the state it reads after Pair. The
  state it reports is read once more after the disconnection and not judged: a
  complete run may report a device that is no longer bonded, or whose Trusted changed,
  when another D-Bus client removed the bond or changed Trusted in between.
* `interrupt_mixes`: an interrupt between `os.replace` and `replaced.append`
  (`import_bluetooth_sig.py:360-361`) starts a rollback that does not know of the file
  just replaced, and one that arrives in the rollback outside its inner `try` ends it
  early. The import then ends as a plain failure, without the message about an
  incomplete rollback, and the active set is of two revisions.

Also met while modelling, kept in the models, and not the subject of a run:

* With two recovery tools at once, the slower one unlinks a lease that a live run
  has created since (`gatt_safety.py:339`). `OneSessionAtATime` is therefore proved
  under `OperatorWaits`.
* When the survey's first checkpoint cannot be written, its scanner keeps running and
  no latch is published (`bin/kamal-gatt:911`). The lease stays, so the next active
  tool is blocked (`SurveyCovered`), but the operator finds an orphaned run instead of
  a recorded unsafe stop.
* An operation record that was published although its directory could not be synced is
  treated as if it did not exist (`gatt_executor.py:482`): the summary counts its
  operation as unattempted. `SummaryIsTrue` says that what is counted is there, and not
  that what is there is counted.
* The GATT executor looks at its authorization before a discovery that may take
  `timeout_seconds + 1`, and not again before `connect` (`gatt_executor.py:335-357`); it
  does look again before the operation. The survey looks again before each connection.
  Pairing does not look again after the verification of its plan. `WithinAuthorization`
  holds for the last validation, not for the instant of the request.

## 8. Proofs

Seven modules hold the theorems. Each proves, for every value of the constants that
the assumptions allow, that an invariant is preserved by every action, and reads the
properties off it. Every invariant and action property of the passing runs, and every
refinement, is stated by one of them. TLC checked the parts of the invariants before
they were proved.

What is assumed of the constants, beyond their types: the addresses of a survey and
the devices of `PlanLifecycle` are finite sets (`SurveyAssumption`,
`LifecycleAssumption`), since a scan hears finitely many; a scan loads at least one
registry, and a torn file is not a revision (`CatalogAssumption`); the records of the store
are sequences of lines (`StoreAssumption`); and an authorization whose fields are in
order names an address type that exists, as the options of a survey are the five that
the command has (`LifecycleAssumption`). `InterlockAssumption`,
`ExecutorAssumption`, `PairingAssumption`, `HardMaxAssumption` and
`HardMaxPairingAssumption` give types, and keep apart what stands for "none". TLC evaluates each of
them on the values of the runs.

**SafetyInterlockProofs**, for any sets of runs, tools and requests, with every failure,
crash and power loss:

* `TypeCorrect`: `Spec => []TypeOK`;
* `MutualExclusion`, `UncertainBlocks`, `LeaseIsMarked`: the three safety
  invariants of the run `interlock`;
* `ClearedSafely`: `Spec => BlockersClearedSafely`; `OneRequest`:
  `Spec => []OneRequestPerSource`;
* `Refinement`: `Spec => ExclusiveUseSpec`.

All but `TypeCorrect` and `OneRequest` assume `OperatorWaits`; without it exclusion
fails (section 7).

`OneSessionAtATime` follows from `InterlockInv`, whose parts answer one question each.
Why can no second run enter? Because a run that enters has looked at the latch after
reading the lease: there was no latch, and `HolderCovered` says that every run that still
holds, or ended uncertainly, is covered by the latch or by its own lease at the path.
Only one lease fits there, so the run found its own (`SeenIsOwn`), and everybody else
who holds relies on a latch that is not there: nobody else holds (`EntersAlone`). What
may take a lease away? Its own run; a run that has just seen a latch
(`LatchConfirmed`); or a recovery, during which nothing runs (`RecoveryIsQuiet`). All of
it is stated for each directory of `persisted`, which makes a power loss one more step.
`Remembered` and `SessionFollowsPc` say what control points imply. `ClearedSafely` adds
`ActsOnWhatItRead`: since nothing else runs meanwhile, the file that the tool unlinks is
the one it has read and recorded, and it removes a lease next to a latch before the latch.

**GattExecutorProofs**, for any number of peers, plans of any length (`MaxOps` is any
number), any capture limits and sizes of notifications:

* `LinksAreCovered` (`RadioCovered`), `EvidenceComesFirst` (`EvidenceBeforeNext`),
  `SummaryHolds` (`SummaryIsTrue`), `FirstFailureStops` (`StopsAtFirstFailure`),
  `CaptureStaysBounded` (`CaptureBounded`), and `Refinement` (`InterlockClientSpec`).

`RadioCovered` is not inductive: that a second peer may be dialled depends on whose link
the run believes to have. `Linked` says that, unless the run is already unsafe, a link is
the current client's and is reported as connected, so that `disconnect_current` cannot
overlook it; `Covered` ties the lease to the places in the code. For
`EvidenceBeforeNext`, `Ordered` describes the whole list of operations at any moment:
before `index` durable records of success, after it nothing, and at `index` as
much as the place in the loop body allows; `Dialled` relates the current client to the
operation before. `Told` is the summary before it is written: `failed` is set
whenever the run is unsafe, needs recovery or holds a record of a failure.

**GattSurveyProofs**, for any number of devices, any limit and any scope:

* `SurveyIsCovered` (`SurveyCovered`), `ManifestHolds` (`ManifestIsTrue`),
  `ScopeIsRespected` (`ScopeRespected`), and `Refinement` (`InterlockClientSpec`).

For the radio, `NoLink` says at which places the report's `safe`, or `confirmed`, guarantees
that no link is up; `Settled` that a survey which is confirmed has stopped its scanner as
well by the time it releases, and that `confirmed` decides between release and latch.
For the evidence there is a second invariant, `EvidenceInv`. `Queued` has what
the queue is from the moment it is frozen: permitted, increasing, within the limit;
`DialledInOrder` that whatever was dialled stands in it before the index, so that the next
device is greater than all before it. `Counted` relates the number of outcomes, of
reports on disk and, as long as every inspection succeeded, of devices that were
dialled to the index, at each place of the loop: this is what makes exit status 0
imply that all of the queue was inspected. `Manifested` is the manifest at the moment it was
written, and `state = "clear"` only after a confirmed release; that the radio is quiet
then is `Settled` again. That `sorted()` yields an increasing sequence is
`SortedFacts`, from `OrderExists`: every finite set of numbers has its elements in
order, by induction over its size.

**PairingExecutorProofs**, for every plan and every failure, cancellation and kill:

* `PairingIsCovered` (`PairingCovered`), `FinalRecordIsTrue` (`FinalIsTrue`),
  `BondsAreReported` (`BondIsReported`), and `Refinement` (`InterlockClientSpec`).

`Settled` is the heart of `PairingInv`: a run that is neither unsafe nor interrupted has
ended, at each place of its clean-up, all that the places before were for (first the
Pair call, then the connection, the scan, the agent); it needs `Unstarted`, which says what
cannot exist yet, and `BlueZSays`. `Judged` and `Reported` follow the two states of
the device from where they are read to the artifacts.

In the refinements, most steps are not seen by the interlock: they change neither
`Stage` nor `Session` (`StillWorking`, `SessionStays`). That the session does not change
after the interlock was called is where the invariant is needed, since links may still
drop. With these refinements and that of the interlock itself, what the interlock
guarantees is proved on both sides of its interface.

**PlanLifecycleProofs**, for any documents, limits and number of edits, and every reading
of the clock:

* `NothingBeyondAuthorization` (`WithinAuthorization`), `PlannerAndExecutorAgree`
  (`PlansAreAccepted`), `RecordsAreModest` (`EvidenceIsModest`).

`LifecycleInv` keeps, for each workflow, what has been validated and when. `GattInv`: from
"run" on, the plan was verified against the authorization at some time, and before
something is sent the window was found open, and the record could begin; the budget
follows from the number of operations of a verified plan. `PairingInv`: the plan is
verified at the time of the only attempt. `SurveyInv`: what is visited and what is left to
visit are together within the budget, which is where the survey's third validation
counts. That these validations imply `Permits`, which is written independently of
them, is the content of `GattPermits`, `PairingPermits` and `SurveyPermits`.
`BuiltInv` says what the planner's plan was made from; the two verifications accept
such a plan whenever the window is open. `ResultsInv` follows a success from the radio to
the record and from there to the review.

**SigCatalogProofs**, for any number of importers, revisions, registries and crashes:

* `RollbackIsComplete` (`RollbackRestores`), `TornIsNeverActive`
  (`NothingTornIsActive`), `LoadedHasItsSnapshot` (`LoadedIsBacked`).

`Alone` is the heart of `CatalogInv`: while nobody else has published, the active set is, at
each place of the importer's loops, the new revision up to `next` and what it found
beyond, or, in the rollback, what it found except for the files still to be
restored, whose previous bytes it has, and for those that failed or that an interrupt
kept from it. It needs `Looping` (which files are noted as
replaced) and `Working` (from the verification on the snapshot is whole). `Sound` says
that whatever is active, staged, kept for a rollback or left under a name by a power loss
is `Good`: not torn, and of a revision whose snapshot was written; `Backed`, that what
a scan has loaded is `Good` too.

**BluezStoreProofs**, for records of any content and length, read in parts of any size, and
any number of changes by others:

* `ReportsAreOfOneMoment` (`ReportsAreWhole`), `KeysAreOfABond` (`KeysImplyBonded`).

`Consistent` is why a read without a lock is sound: as long as the open inode has the
ctime that the first fstat saw, its document is one the path has held since the
tool began, and the buffer is that document up to where it has been read. For the
parsers, `LinesAgree` takes one line: what the strict parser knows of a section, the other
knows too; `ParsersAgree` is its induction over the lines of a record.

`TypeCorrect` (`Spec => []TypeOK`) is proved in each of the seven modules.

Two definitions have the form they have because of the proofs. `Parsed` is a
recursive function over the lines, and `Sorted` the increasing enumeration of a set,
where the community modules have a fold and a sort of their own, whose definitions
the provers cannot see through. Inductions over data (`ParsersAgree`, `OrderExists`)
go through `SetInduction`: a set of natural numbers that contains 0 and the
successor of each of its members contains all of them, which follows from the
least member of its complement.

With TLC only: the liveness properties (`LeaseComesBack`, `RunEnds`, `SurveyEnds`,
`PairingEnds`), because the prover has no rule for fairness and ENABLED;
`RetryFinishesRecovery`, which speaks of the history of one run; and the four violations of
section 7.

## 9. Not modelled

* Three-radio capture: a Bash script that is all processes, signals and traps, and a
  C shim that the vendor's sniffer loads. What it does depends on the shell's rules
  for traps and `wait` and on a program that is not in the repository; a model would state
  our reading of those rules more than the code.
* Security contracts (`bluetooth_security.py`), assessment, correlation, intelligence,
  BSAM mapping, acceptance, reports: sequential transformations of one set of files into
  another, or validation of one record at a time; their hazards are in formats, which
  tests reach.
* Set-up scripts, the passive scan: input and output of the operating system.
* Of what is modelled in part: the survey's discovery-only mode and `kamal-gatt inspect`,
  which take no lease; field syntax of the contracts (one flag per document) and GATT
  selectors; Git access and the translation of YAML in the importer; the look-up of
  names in the registries, and with it the binding of a connection's report to a snapshot
  (`_validate_active_binding`, which resolves its UUIDs again); directory checks, metadata fields, fingerprints and patterns of the
  store inspection.
* In what is modelled: file contents beyond the fields named above, time stamps,
  symbolic links, permissions of the state directory, texts of error messages.
