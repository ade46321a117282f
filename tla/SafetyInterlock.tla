--------------------------- MODULE SafetyInterlock ---------------------------
(***************************************************************************)
(* The persistent safety interlock of kamal/gatt_safety.py, as the bounded *)
(* GATT executor (kamal/gatt_executor.py) and the recovery tool            *)
(* (bin/kamal-resolve-gatt-unsafe) use it.                                 *)
(*                                                                         *)
(* A run is one invocation of the executor, a resolver one invocation of   *)
(* the recovery tool: operating-system processes that share nothing but    *)
(* the safety-state directory.  Every exists(), read, link, replace and    *)
(* unlink on that directory is a step of its own, so other processes may   *)
(* run between the check of a file and the use of what the check said.     *)
(* Processes may be killed and the machine may lose power between any two  *)
(* steps.                                                                  *)
(***************************************************************************)
EXTENDS FiniteSets

CONSTANTS
  Runs,              \* invocations of the executor
  Resolvers,         \* invocations of the recovery tool
  Requests,          \* recovery-request files, told apart by their SHA-256
  NoFile,            \* the path does not exist
  Faults,            \* BOOLEAN: file-system calls may fail
  Crashes,           \* BOOLEAN: processes may be killed, power may be lost
  OperatorWaits      \* BOOLEAN: nothing is started while the recovery tool runs

ASSUME InterlockAssumption ==
  /\ NoFile \notin Runs
  /\ NoFile \notin [owner: Runs, rf: BOOLEAN]
  /\ Faults \in BOOLEAN /\ Crashes \in BOOLEAN /\ OperatorWaits \in BOOLEAN

VARIABLES
  dir,          \* [active, unsafe]: active-run.json and unsafe-stop.json
  persisted,    \* the directory contents a power loss may leave behind
  resolutions,  \* resolutions/<sha>.json: {[source, request]}
  pc,           \* where each run stands
  seen,         \* the lease each run read in mark_rf_started
  session,      \* the BLE session of each run
  acknowledged, \* runs whose target an operator has since reviewed
  vpc, vsource, vrequest   \* the same for the resolvers

dirVars == <<dir, persisted>>
resolverVars == <<resolutions, acknowledged, vpc, vsource, vrequest>>
vars == <<dir, persisted, resolutions, pc, seen, session, acknowledged,
          vpc, vsource, vrequest>>

Lease == [owner: Runs, rf: BOOLEAN]
Directory == [active: Lease \cup {NoFile}, unsafe: Runs \cup {NoFile}]

\* What a resolution artifact is bound to: the content of the blocking file.
Source == [kind: {"orphaned_active_run"}, content: Lease]
          \cup [kind: {"unsafe_stop"}, content: Runs]

\* The lease is this run's to give back.
HoldingPcs ==
  {"setup", "ready", "markUnsafe", "markActive", "replace", "rf", "cleanup",
   "setupRelUnsafe", "setupRelActive", "setupRelUnlink",
   "relUnsafe", "relActive", "relUnlink"}

LatchPcs == {"latch", "latchRead", "latchCheck", "latchCreate", "latchConfirm",
             "latchUnlink"}

RunPcs == HoldingPcs \cup
  {"start", "checkActive", "create"} \cup LatchPcs \cup {"done", "crashed"}

ResolverPcs == {"start", "selectUnsafe", "selectActive", "readUnsafe", "readActive",
                "find", "record", "unlinkActive", "unlinkUnsafe", "done", "crashed"}

Alive(r) == pc[r] \notin {"start", "done", "crashed"}
Resolving(v) == vpc[v] \notin {"start", "done", "crashed"}

\* A BLE session that a running process owns.
Open(r) == session[r] = "open" /\ Alive(r)

OpenRuns == {r \in Runs : Open(r)}

\* A session nobody knows to be closed: the process died in it, or could not
\* confirm its own cleanup.
Uncertain(r) ==
  \/ session[r] = "unconfirmed"
  \/ session[r] = "open" /\ pc[r] = "crashed"

Unresolved == {r \in Runs : Uncertain(r) /\ r \notin acknowledged}

Exists(file) == dir[file] # NoFile

-----------------------------------------------------------------------------
(* The file system *)

\* How link+fsync, replace+fsync or unlink+fsync can end: done and durable;
\* visible but the directory sync failed; not done at all.
Outcomes == IF Faults THEN {"synced", "unsynced", "failed"} ELSE {"synced"}

\* A directory sync makes the present contents the only ones a power loss can
\* leave; without it the changes survive as some prefix of their order.
DirWrite(file, content, outcome) ==
  LET d == [dir EXCEPT ![file] = content] IN
  \/ outcome = "synced"   /\ dir' = d /\ persisted' = {d}
  \/ outcome = "unsynced" /\ dir' = d /\ persisted' = persisted \cup {d}
  \/ outcome = "failed"   /\ UNCHANGED dirVars

\* _unlink_durable: a path that is already gone is no error and no sync.
UnlinkDurable(file, outcome) ==
  \/ Exists(file) /\ DirWrite(file, NoFile, outcome)
  \/ ~Exists(file) /\ outcome = "synced" /\ UNCHANGED dirVars

Goto(r, label) == pc' = [pc EXCEPT ![r] = label]

-----------------------------------------------------------------------------
(* The executor *)

\* The operator's discipline: with OperatorWaits nothing is started while the
\* recovery tool runs.  The code does not enforce it.
OperatorMayStart == OperatorWaits => \A v \in Resolvers : ~Resolving(v)

\* assert_execution_allowed, first test
CheckUnsafe(r) ==
  /\ pc[r] = "start"
  /\ OperatorMayStart
  /\ Goto(r, IF Exists("unsafe") THEN "done" ELSE "checkActive")
  /\ UNCHANGED <<dirVars, seen, session, resolverVars>>

\* assert_execution_allowed, second test
CheckActive(r) ==
  /\ pc[r] = "checkActive"
  /\ Goto(r, IF Exists("active") THEN "done" ELSE "create")
  /\ UNCHANGED <<dirVars, seen, session, resolverVars>>

\* Mutant of CreateLease: rename instead of link, so nothing fails.
CreateLeaseOverwriting(r) ==
  /\ pc[r] = "create"
  /\ \E outcome \in Outcomes :
       /\ DirWrite("active", [owner |-> r, rf |-> FALSE], outcome)
       /\ Goto(r, IF outcome = "synced" THEN "setup" ELSE "done")
  /\ UNCHANGED <<seen, session, resolverVars>>

\* Mutant of CreateLease: written in place, a failure leaves half a lease.
CreateLeaseInPlace(r) ==
  /\ pc[r] = "create" /\ ~Exists("active")
  /\ \/ DirWrite("active", [owner |-> r, rf |-> FALSE], "synced") /\ Goto(r, "setup")
     \/ /\ DirWrite("active", [owner |-> NoFile, rf |-> FALSE], "unsynced")
        /\ Goto(r, "done")
  /\ UNCHANGED <<seen, session, resolverVars>>

\* acquire_active_run: the hard link fails if another lease got there first;
\* a lease published without its directory sync stays behind and blocks.
CreateLease(r) ==
  /\ pc[r] = "create"
  /\ \/ /\ Exists("active")
        /\ Goto(r, "done")
        /\ UNCHANGED dirVars
     \/ /\ ~Exists("active")
        /\ \E outcome \in Outcomes :
             /\ DirWrite("active", [owner |-> r, rf |-> FALSE], outcome)
             /\ Goto(r, IF outcome = "synced" THEN "setup" ELSE "done")
  /\ UNCHANGED <<seen, session, resolverVars>>

\* Mutant of SetUpOutput: a failed set-up forgets the lease.
SetUpOutputKeepingLease(r) ==
  /\ pc[r] = "setup"
  /\ Goto(r, "ready") \/ Goto(r, "done")
  /\ UNCHANGED <<dirVars, seen, session, resolverVars>>

\* execute_plan creates its output directory and run-start.json, or releases
SetUpOutput(r) ==
  /\ pc[r] = "setup"
  /\ Goto(r, "ready") \/ Goto(r, "setupRelUnsafe")
  /\ UNCHANGED <<dirVars, seen, session, resolverVars>>

\* Authorization no longer valid, or the BLE client library cannot be loaded
StopBeforeRF(r) ==
  /\ pc[r] = "ready"
  /\ Goto(r, "cleanup")
  /\ UNCHANGED <<dirVars, seen, session, resolverVars>>

\* mark_rf_started reads the lease, whoever wrote it
ReadLease(r) ==
  /\ pc[r] = "ready"
  /\ seen' = [seen EXCEPT ![r] = dir.active]
  /\ Goto(r, IF Exists("active") THEN "markUnsafe" ELSE "cleanup")
  /\ UNCHANGED <<dirVars, session, resolverVars>>

\* Mutant of MarkCheckUnsafe: the latch is not looked at a second time.
MarkCheckUnsafeSkipped(r) ==
  /\ pc[r] = "markUnsafe"
  /\ Goto(r, "markActive")
  /\ UNCHANGED <<dirVars, seen, session, resolverVars>>

\* replace_active_run, first test
MarkCheckUnsafe(r) ==
  /\ pc[r] = "markUnsafe"
  /\ Goto(r, IF Exists("unsafe") THEN "cleanup" ELSE "markActive")
  /\ UNCHANGED <<dirVars, seen, session, resolverVars>>

\* replace_active_run, second test
MarkCheckActive(r) ==
  /\ pc[r] = "markActive"
  /\ Goto(r, IF Exists("active") THEN "replace" ELSE "cleanup")
  /\ UNCHANGED <<dirVars, seen, session, resolverVars>>

\* Mutant of ReplaceLease: a failed directory sync is ignored.
ReplaceLeaseUnsynced(r) ==
  /\ pc[r] = "replace"
  /\ \E outcome \in Outcomes :
       /\ DirWrite("active", [seen[r] EXCEPT !.rf = TRUE], outcome)
       /\ session' = [session EXCEPT ![r] = IF outcome = "failed" THEN @ ELSE "open"]
       /\ Goto(r, IF outcome = "failed" THEN "cleanup" ELSE "rf")
  /\ UNCHANGED <<seen, resolverVars>>

\* replace_active_run: the rename does not ask whose lease it replaces, nor
\* whether there still is one.  Once mark_rf_started returns, discovery and
\* connection follow: the session may be open.
ReplaceLease(r) ==
  /\ pc[r] = "replace"
  /\ \E outcome \in Outcomes :
       /\ DirWrite("active", [seen[r] EXCEPT !.rf = TRUE], outcome)
       /\ \/ /\ outcome = "synced"
             /\ session' = [session EXCEPT ![r] = "open"]
             /\ Goto(r, "rf")
          \/ /\ outcome # "synced"
             /\ Goto(r, "cleanup")
             /\ UNCHANGED session
  /\ UNCHANGED <<seen, resolverVars>>

\* Mutant of CleanUpSession: the unsafe flag is dropped.
CleanUpSessionOptimistic(r) ==
  /\ pc[r] = "rf"
  /\ \E end \in {"closed", "unconfirmed"} : session' = [session EXCEPT ![r] = end]
  /\ Goto(r, "relUnsafe")
  /\ UNCHANGED <<dirVars, seen, resolverVars>>

\* The operations end, well or badly, and disconnect_current either confirms
\* that the link is down or leaves unsafe = True.
CleanUpSession(r) ==
  /\ pc[r] = "rf"
  /\ \/ session' = [session EXCEPT ![r] = "closed"] /\ Goto(r, "relUnsafe")
     \/ session' = [session EXCEPT ![r] = "unconfirmed"] /\ Goto(r, "latch")
  /\ UNCHANGED <<dirVars, seen, resolverVars>>

\* No client was ever created: disconnect_current has nothing to do.
CleanUpNothing(r) ==
  /\ pc[r] = "cleanup"
  /\ Goto(r, "relUnsafe")
  /\ UNCHANGED <<dirVars, seen, session, resolverVars>>

\* release_active_run: whatever it raises makes the executor latch instead;
\* after a failed set-up it is only reported.
ReleaseCheckUnsafe(r) ==
  /\ \/ pc[r] = "relUnsafe"
        /\ Goto(r, IF Exists("unsafe") THEN "latch" ELSE "relActive")
     \/ pc[r] = "setupRelUnsafe"
        /\ Goto(r, IF Exists("unsafe") THEN "done" ELSE "setupRelActive")
  /\ UNCHANGED <<dirVars, seen, session, resolverVars>>

ReleaseCheckActive(r) ==
  /\ \/ pc[r] = "relActive"
        /\ Goto(r, IF Exists("active") THEN "relUnlink" ELSE "latch")
     \/ pc[r] = "setupRelActive"
        /\ Goto(r, IF Exists("active") THEN "setupRelUnlink" ELSE "done")
  /\ UNCHANGED <<dirVars, seen, session, resolverVars>>

\* A lease unlinked without its directory sync is gone all the same: another
\* run may already own the path when this one goes on to latch.
ReleaseUnlink(r) ==
  /\ \E outcome \in Outcomes :
       /\ UnlinkDurable("active", outcome)
       /\ \/ pc[r] = "relUnlink"
             /\ Goto(r, IF outcome = "synced" THEN "done" ELSE "latch")
          \/ pc[r] = "setupRelUnlink" /\ Goto(r, "done")
  /\ UNCHANGED <<seen, session, resolverVars>>

\* latch_unsafe_stop quotes the lease in the latch; a lease that vanishes
\* between exists() and the read makes it raise, and nothing is latched.
LatchQuoteLease(r) ==
  /\ \/ pc[r] = "latch"
        /\ Goto(r, IF Exists("active") THEN "latchRead" ELSE "latchCheck")
     \/ pc[r] = "latchRead"
        /\ Goto(r, IF Exists("active") THEN "latchCheck" ELSE "done")
  /\ UNCHANGED <<dirVars, seen, session, resolverVars>>

\* An existing latch is left as it is.
LatchCheckUnsafe(r) ==
  /\ pc[r] = "latchCheck"
  /\ Goto(r, IF Exists("unsafe") THEN "latchConfirm" ELSE "latchCreate")
  /\ UNCHANGED <<dirVars, seen, session, resolverVars>>

\* A latch that cannot be published, or that another process publishes first
\* (FileExistsError), leaves the lease in place.  So does an OSError between the
\* link and the sync of the directory; a sync that fails does not.
LatchCreate(r) ==
  /\ pc[r] = "latchCreate"
  /\ \/ /\ Exists("unsafe")
        /\ Goto(r, "done")
        /\ UNCHANGED dirVars
     \/ /\ ~Exists("unsafe")
        /\ \E outcome \in Outcomes :
             /\ DirWrite("unsafe", r, outcome)
             /\ \/ outcome # "failed" /\ Goto(r, "latchConfirm")
                \/ outcome # "synced" /\ Goto(r, "done")
  /\ UNCHANGED <<seen, session, resolverVars>>

\* The lease path is unlinked only after the latch was seen to be there.
LatchConfirm(r) ==
  /\ pc[r] = "latchConfirm"
  /\ Goto(r, IF Exists("unsafe") THEN "latchUnlink" ELSE "done")
  /\ UNCHANGED <<dirVars, seen, session, resolverVars>>

LatchUnlink(r) ==
  /\ pc[r] = "latchUnlink"
  /\ \E outcome \in Outcomes : UnlinkDurable("active", outcome)
  /\ Goto(r, "done")
  /\ UNCHANGED <<seen, session, resolverVars>>

-----------------------------------------------------------------------------
(* The recovery tool *)

\* The recovery request confirms no_active_ble_session and
\* target_state_reviewed: the operator starts the tool when an interlock blocks
\* and no executor process is running.
OperatorMayResolve ==
  /\ OperatorMayStart
  /\ Exists("active") \/ Exists("unsafe")
  /\ \A r \in Runs : ~Alive(r)

\* The operator has reviewed every target whose state was uncertain, signs the
\* request and starts the tool.
BeginResolve(v) ==
  /\ vpc[v] = "start"
  /\ OperatorMayResolve
  /\ \E q \in Requests : vrequest' = [vrequest EXCEPT ![v] = q]
  /\ acknowledged' = acknowledged \cup {r \in Runs : Uncertain(r)}
  /\ vpc' = [vpc EXCEPT ![v] = "selectUnsafe"]
  /\ UNCHANGED <<dirVars, pc, seen, session, resolutions, vsource>>

\* resolve_interlock chooses the blocking file: the latch before the lease
SelectSource(v) ==
  /\ \/ /\ vpc[v] = "selectUnsafe"
        /\ vpc' = [vpc EXCEPT ![v] = IF Exists("unsafe") THEN "readUnsafe" ELSE "selectActive"]
     \/ /\ vpc[v] = "selectActive"
        /\ vpc' = [vpc EXCEPT ![v] = IF Exists("active") THEN "readActive" ELSE "done"]
  /\ UNCHANGED <<dirVars, pc, seen, session, resolutions, acknowledged, vsource, vrequest>>

\* The file chosen is read as it is now, and may be gone.
ReadBlocking(v, file, kind) ==
  \/ /\ Exists(file)
     /\ vsource' = [vsource EXCEPT ![v] = [kind |-> kind, content |-> dir[file]]]
     /\ vpc' = [vpc EXCEPT ![v] = "find"]
  \/ /\ ~Exists(file)
     /\ vpc' = [vpc EXCEPT ![v] = "done"]
     /\ UNCHANGED vsource

ReadSource(v) ==
  /\ \/ vpc[v] = "readUnsafe" /\ ReadBlocking(v, "unsafe", "unsafe_stop")
     \/ vpc[v] = "readActive" /\ ReadBlocking(v, "active", "orphaned_active_run")
  /\ UNCHANGED <<dirVars, pc, seen, session, resolutions, acknowledged, vrequest>>

Artifact(v) == [source |-> vsource[v], request |-> vrequest[v]]
RecordOf(source) == {a \in resolutions : a.source = source}

\* Mutant of FindResolution: an artifact that exists is always a conflict.
FindResolutionOnce(v) ==
  /\ vpc[v] = "find"
  /\ vpc' = [vpc EXCEPT ![v] = IF RecordOf(vsource[v]) = {} THEN "record" ELSE "done"]
  /\ UNCHANGED <<dirVars, pc, seen, session, resolutions, acknowledged,
                 vsource, vrequest>>

\* Mutant of FindResolution: a missing artifact is not written.
FindResolutionUnrecorded(v) ==
  /\ vpc[v] = "find"
  /\ vpc' = [vpc EXCEPT ![v] = "unlinkActive"]
  /\ UNCHANGED <<dirVars, pc, seen, session, resolutions, acknowledged,
                 vsource, vrequest>>

\* An artifact of an earlier attempt serves again, for the same request only.
FindResolution(v) ==
  /\ vpc[v] = "find"
  /\ vpc' = [vpc EXCEPT ![v] =
       IF RecordOf(vsource[v]) = {} THEN "record"
       ELSE IF Artifact(v) \in resolutions THEN "unlinkActive"
       ELSE "done"]
  /\ UNCHANGED <<dirVars, pc, seen, session, resolutions, acknowledged,
                 vsource, vrequest>>

\* Mutant of RecordResolution: an artifact that appeared meanwhile is no obstacle.
RecordResolutionAnyway(v) ==
  /\ vpc[v] = "record"
  /\ resolutions' = resolutions \cup {Artifact(v)}
  /\ vpc' = [vpc EXCEPT ![v] = "unlinkActive"]
  /\ UNCHANGED <<dirVars, pc, seen, session, acknowledged, vsource, vrequest>>

\* The hard link fails if another invocation recorded the source meanwhile.  An
\* artifact published without its directory sync stays, but the tool stops.
RecordResolution(v) ==
  /\ vpc[v] = "record"
  /\ \/ /\ RecordOf(vsource[v]) # {}
        /\ vpc' = [vpc EXCEPT ![v] = "done"]
        /\ UNCHANGED resolutions
     \/ /\ RecordOf(vsource[v]) = {}
        /\ \E outcome \in Outcomes :
             /\ resolutions' = IF outcome = "failed" THEN resolutions
                               ELSE resolutions \cup {Artifact(v)}
             /\ vpc' = [vpc EXCEPT ![v] =
                          IF outcome = "synced" THEN "unlinkActive" ELSE "done"]
  /\ UNCHANGED <<dirVars, pc, seen, session, acknowledged, vsource, vrequest>>

\* Both paths are unlinked, whatever they now hold.
ResolveUnlinkActive(v) ==
  /\ vpc[v] = "unlinkActive"
  /\ \E outcome \in Outcomes :
       /\ UnlinkDurable("active", outcome)
       /\ vpc' = [vpc EXCEPT ![v] =
                    IF outcome = "synced" THEN "unlinkUnsafe" ELSE "done"]
  /\ UNCHANGED <<pc, seen, session, resolutions, acknowledged, vsource, vrequest>>

ResolveUnlinkUnsafe(v) ==
  /\ vpc[v] = "unlinkUnsafe"
  /\ \E outcome \in Outcomes : UnlinkDurable("unsafe", outcome)
  /\ vpc' = [vpc EXCEPT ![v] = "done"]
  /\ UNCHANGED <<pc, seen, session, resolutions, acknowledged, vsource, vrequest>>

-----------------------------------------------------------------------------
(* Crashes *)

\* A process is killed; the radio link it may have opened is not.
CrashRun(r) ==
  /\ Crashes /\ Alive(r)
  /\ Goto(r, "crashed")
  /\ UNCHANGED <<dirVars, seen, session, resolverVars>>

CrashResolver(v) ==
  /\ Crashes /\ Resolving(v)
  /\ vpc' = [vpc EXCEPT ![v] = "crashed"]
  /\ UNCHANGED <<dirVars, pc, seen, session, resolutions, acknowledged,
                 vsource, vrequest>>

\* Every process dies and the directory comes back with some of its unsynced
\* changes.
LosePower ==
  /\ Crashes
  /\ \E d \in persisted : dir' = d /\ persisted' = {d}
  /\ pc' = [r \in Runs |-> IF Alive(r) THEN "crashed" ELSE pc[r]]
  /\ vpc' = [v \in Resolvers |-> IF Resolving(v) THEN "crashed" ELSE vpc[v]]
  /\ UNCHANGED <<seen, session, resolutions, acknowledged, vsource, vrequest>>

-----------------------------------------------------------------------------

Init ==
  /\ dir = [active |-> NoFile, unsafe |-> NoFile]
  /\ persisted = {dir}
  /\ resolutions = {}
  /\ pc = [r \in Runs |-> "start"]
  /\ seen = [r \in Runs |-> NoFile]
  /\ session = [r \in Runs |-> "none"]
  /\ acknowledged = {}
  /\ vpc = [v \in Resolvers |-> "start"]
  /\ vsource = [v \in Resolvers |-> NoFile]
  /\ vrequest = [v \in Resolvers |-> NoFile]

RunStep(r) ==
  \/ CheckUnsafe(r) \/ CheckActive(r) \/ CreateLease(r) \/ SetUpOutput(r)
  \/ StopBeforeRF(r) \/ ReadLease(r)
  \/ MarkCheckUnsafe(r) \/ MarkCheckActive(r) \/ ReplaceLease(r)
  \/ CleanUpSession(r) \/ CleanUpNothing(r)
  \/ ReleaseCheckUnsafe(r) \/ ReleaseCheckActive(r) \/ ReleaseUnlink(r)
  \/ LatchQuoteLease(r) \/ LatchCheckUnsafe(r) \/ LatchCreate(r)
  \/ LatchConfirm(r) \/ LatchUnlink(r)

ResolverStep(v) ==
  \/ BeginResolve(v) \/ SelectSource(v) \/ ReadSource(v) \/ FindResolution(v)
  \/ RecordResolution(v) \/ ResolveUnlinkActive(v) \/ ResolveUnlinkUnsafe(v)

Next ==
  \/ \E r \in Runs : RunStep(r) \/ CrashRun(r)
  \/ \E v \in Resolvers : ResolverStep(v) \/ CrashResolver(v)
  \/ LosePower

Spec == Init /\ [][Next]_vars

\* A process that has begun is scheduled until it ends; nothing makes the
\* operator start one.
Fairness ==
  /\ \A r \in Runs : WF_vars(pc[r] # "start" /\ RunStep(r))
  /\ \A v \in Resolvers : WF_vars(vpc[v] # "start" /\ ResolverStep(v))

-----------------------------------------------------------------------------
(* Properties *)

TypeOK ==
  /\ dir \in Directory
  /\ persisted \subseteq Directory /\ dir \in persisted
  /\ resolutions \subseteq [source: Source, request: Requests]
  /\ pc \in [Runs -> RunPcs]
  /\ seen \in [Runs -> Lease \cup {NoFile}]
  /\ session \in [Runs -> {"none", "open", "closed", "unconfirmed"}]
  /\ acknowledged \subseteq Runs
  /\ vpc \in [Resolvers -> ResolverPcs]
  /\ vsource \in [Resolvers -> Source \cup {NoFile}]
  /\ vrequest \in [Resolvers -> Requests \cup {NoFile}]

\* "It serializes active execution" (gatt_safety.py:4): no two running
\* executors have a BLE session at the same time.
OneSessionAtATime == \A r, q \in Runs : Open(r) /\ Open(q) => r = q

\* "Survives process crashes" (gatt_safety.py:4): as long as a session is open,
\* or ended without a confirmed disconnection and nobody has reviewed it, a
\* lease or a latch blocks the next executor, also in every directory that a
\* loss of power at this moment can leave behind.
Blocks(d) == d.active # NoFile \/ d.unsafe # NoFile

UncertainStaysBlocked ==
  \A r \in Runs : Open(r) \/ r \in Unresolved => \A d \in persisted : Blocks(d)

\* The lease of a run that ever opened a session says so (rf_started), on disk
\* as well: mark_rf_started is durable before discovery starts, so an operator
\* who finds an orphaned lease without the mark knows that no RF was used.
LeaseTellsOfRF ==
  \A r \in Runs : session[r] # "none" =>
    \A d \in persisted :
      d.active # NoFile /\ d.active.owner = r => d.active.rf

\* A latch leaves its path only after a recovery artifact bound to it exists
\* (docs/gatt-safety-interlock.md: the tool "binds it to the exact blocking state
\* [...], then clears the latch"); a lease leaves its path in one of three ways:
\* its own run gives it back with no session left open, a latch takes its place,
\* or a recovery artifact acknowledges it.  A power loss may still take a file
\* whose directory sync failed.
BlockersClearedSafely ==
  [][/\ dir.unsafe # NoFile /\ dir'.unsafe # dir.unsafe =>
          \/ RecordOf([kind |-> "unsafe_stop", content |-> dir.unsafe]) # {}
          \/ LosePower
     /\ dir.active # NoFile /\ dir'.active = NoFile =>
          \/ LosePower
          \/ dir'.unsafe # NoFile
          \/ RecordOf([kind |-> "orphaned_active_run", content |-> dir.active]) # {}
          \/ session[dir.active.owner] \in {"none", "closed"}]_vars

\* One blocking file is acknowledged by one request, even when two invocations
\* of the tool race for it: the second finds the artifact or fails to link it.
OneRequestPerSource ==
  \A a, b \in resolutions : a.source = b.source => a = b

\* Seen from the radio, the protocol is ExclusiveUse.
Use == INSTANCE ExclusiveUse
         WITH open <- OpenRuns, unresolved <- Unresolved
ExclusiveUseSpec == Use!Spec

-----------------------------------------------------------------------------
(* The inductive invariant *)

LeaseOf(d, r) == d.active # NoFile /\ d.active.owner = r

\* The latch, or this run's own lease, blocks the others.
Covered(d, r) == d.unsafe # NoFile \/ LeaseOf(d, r)

\* Past the second look at the latch, up to the end of the session
EnteringPcs == {"markActive", "replace", "rf"}

\* What a process goes on to use, it has read before.
Remembered ==
  /\ \A r \in Runs :
       pc[r] \in {"markUnsafe", "markActive", "replace"} => seen[r] \in Lease
  /\ \A v \in Resolvers :
       /\ vpc[v] \in ResolverPcs \ {"start", "done", "crashed"} => vrequest[v] \in Requests
       /\ vpc[v] \in {"find", "record"} => vsource[v] \in Source

SessionFollowsPc ==
  \A r \in Runs :
    /\ pc[r] = "rf" <=> session[r] = "open" /\ pc[r] # "crashed"
    /\ session[r] = "unconfirmed" => pc[r] \in LatchPcs \cup {"done", "crashed"}
    /\ pc[r] \in {"start", "checkActive", "create", "setup", "ready",
                  "markUnsafe", "markActive", "replace"} => session[r] = "none"

HolderCovered ==
  \A r \in Runs : pc[r] \in HoldingPcs \/ r \in Unresolved =>
    \A d \in persisted : Covered(d, r)

\* What mark_rf_started read is its own lease, unless the latch will stop it.
SeenIsOwn ==
  \A r \in Runs :
    /\ pc[r] = "markUnsafe" => dir.unsafe # NoFile \/ seen[r].owner = r
    /\ pc[r] \in {"markActive", "replace"} => seen[r].owner = r

\* Nobody takes the latch away from under a run that has confirmed it.
LatchConfirmed == \A r \in Runs : pc[r] = "latchUnlink" => dir.unsafe # NoFile

EntersAlone ==
  \A r \in Runs : pc[r] \in EnteringPcs =>
    /\ \A q \in Runs : pc[q] \in EnteringPcs => q = r
    /\ Unresolved = {}

RecoveryIsQuiet ==
  OperatorWaits =>
    \A v \in Resolvers : Resolving(v) =>
      /\ \A r \in Runs : ~Alive(r)
      /\ \A u \in Resolvers : Resolving(u) => u = v
      /\ Unresolved = {}

\* Why sessions exclude each other: a run that enters found no latch and so
\* (HolderCovered) its own lease at the path, and nobody else can say the same.
InterlockInv ==
  /\ TypeOK /\ Remembered /\ SessionFollowsPc /\ HolderCovered /\ SeenIsOwn
  /\ LatchConfirmed /\ EntersAlone
  /\ RecoveryIsQuiet /\ LeaseTellsOfRF
=============================================================================
