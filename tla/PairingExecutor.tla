---------------------------- MODULE PairingExecutor ----------------------------
(***************************************************************************)
(* One pairing run (kamal/pairing_executor.py) from the acquired lease to    *)
(* its last artifact, against BlueZ's Device1 object of the target.  The     *)
(* run asks BlueZ to pair, and then has only what BlueZ says: the reply may  *)
(* come after the time limit, every read may fail, and the peer, the adapter *)
(* and other D-Bus clients change the device between any two of its calls.   *)
(***************************************************************************)
EXTENDS FiniteSets

CONSTANTS
  InterlockFaults,  \* BOOLEAN: calls to the safety interlock may fail
  OutputFaults      \* BOOLEAN: artifact writes may fail

ASSUME PairingAssumption == {InterlockFaults, OutputFaults} \subseteq BOOLEAN

VARIABLES
  mode, require,          \* the plan: agent mode, and what must be unset before
  device,                 \* Device1 properties of the target that are true
  inFlight, reply, ours,  \* our Pair at BlueZ, its answer, and whose link it is
  scanning, agent,        \* adapter discovering, K'amal's agent registered
  pc,
  rf, before, after,      \* rf_started and the two states the run reports
  error, attempted,       \* pairing_error or precondition_error; pairing_attempted
  unsafe, status,         \* unsafe_reason is set; session_status
  disconnected,           \* disconnect_completed
  interrupted,            \* a CancelledError is on its way out
  session, final,         \* pairing-session.json and run-final.json
  lease, latch,           \* the interlock files
  made, meddled           \* history: our pairing made a bond; another client acted

plan == <<mode, require>>
bluez == <<device, inFlight, reply, ours>>
local == <<scanning, agent>>
judgement == <<error, attempted, unsafe, status, disconnected>>
evidence == <<before, after>>
files == <<session, final>>
interlock == <<lease, latch>>
history == <<made, meddled>>
vars == <<plan, bluez, local, pc, rf, evidence, judgement, interrupted, files, interlock,
          history>>

Flags == {"paired", "bonded", "trusted", "connected"}
Unknown == [known |-> FALSE, flags |-> {}]
NoFinal == [written |-> FALSE, complete |-> FALSE, clear |-> FALSE, after |-> Unknown]

\* Mutant of State: all that GetAll answers.
StateRaw == [known |-> TRUE, flags |-> device, address |-> "target"]

\* get_state: GetAll answers with the properties of this moment.
State == [known |-> TRUE, flags |-> device]

Failing(faults) == IF faults THEN BOOLEAN ELSE {FALSE}

-----------------------------------------------------------------------------
(* Set-up and discovery *)

\* run-start.json; a write that fails leaves the lease.
WriteRunStart ==
  /\ pc = "start"
  /\ \E failure \in Failing(OutputFaults) : pc' = IF failure THEN "done" ELSE "prepare"
  /\ UNCHANGED <<plan, bluez, local, rf, evidence, judgement, interrupted, files,
                 interlock, history>>

\* backend.prepare and mark_rf_started; prepare can always fail (an import).
Prepare ==
  /\ pc = "prepare"
  /\ \/ pc' = "discover" /\ rf' = TRUE /\ UNCHANGED error
     \/ pc' = "stop" /\ error' = TRUE /\ UNCHANGED rf
  /\ UNCHANGED <<plan, bluez, local, evidence, attempted, unsafe, status, disconnected,
                 interrupted, files, interlock, history>>

\* discover: a start that raises may have reached the adapter; the target may
\* not be heard, or not be a BlueZ device.  The scanner is left on.
Discover ==
  /\ pc = "discover"
  /\ \/ pc' = "before" /\ scanning' = TRUE /\ UNCHANGED error
     \/ pc' = "stop" /\ scanning' \in BOOLEAN /\ error' = TRUE
  /\ UNCHANGED <<plan, bluez, agent, rf, evidence, attempted, unsafe, status, disconnected,
                 interrupted, files, interlock, history>>

\* The preconditions are judged on one read of the state.
ReadBefore ==
  /\ pc = "before"
  /\ \/ /\ before' = State
        /\ IF require \cap device # {}
           THEN pc' = "current" /\ error' = TRUE /\ UNCHANGED attempted
           ELSE pc' = "register" /\ attempted' = TRUE /\ UNCHANGED error
     \/ pc' = "stop" /\ error' = TRUE /\ UNCHANGED <<before, attempted>>
  /\ UNCHANGED <<plan, bluez, local, rf, after, unsafe, status, disconnected, interrupted,
                 files, interlock, history>>

-----------------------------------------------------------------------------
(* Pairing *)

\* register_agent, and the Pair call: nothing is sent if the agent is refused.
CallPair ==
  /\ pc = "register"
  /\ \/ /\ pc' = "pairing" /\ inFlight' = TRUE /\ reply' = "none"
        /\ agent' = (mode = "no_input_no_output")
        /\ UNCHANGED error
     \/ /\ mode = "no_input_no_output"
        /\ pc' = "cancel" /\ error' = TRUE
        /\ UNCHANGED <<inFlight, reply, agent>>
  /\ UNCHANGED <<plan, device, ours, scanning, rf, evidence, attempted, unsafe, status,
                 disconnected, interrupted, files, interlock, history>>

\* Mutant of AwaitPair: the time limit is reported, the pairing goes on.
AwaitPairNoCancel ==
  /\ pc = "pairing"
  /\ \/ reply = "ok" /\ pc' = "after" /\ UNCHANGED error
     \/ pc' = "after" /\ error' = TRUE
  /\ UNCHANGED <<plan, bluez, local, rf, evidence, attempted, unsafe, status, disconnected,
                 interrupted, files, interlock, history>>

\* wait_for: the answer, or the time limit at any moment, late answers included
AwaitPair ==
  /\ pc = "pairing"
  /\ \/ reply = "ok" /\ pc' = "after" /\ UNCHANGED error
     \/ pc' = "cancel" /\ error' = TRUE
  /\ UNCHANGED <<plan, bluez, local, rf, evidence, attempted, unsafe, status, disconnected,
                 interrupted, files, interlock, history>>

\* cancel_pairing: BlueZ cancels, or has nothing to cancel (DoesNotExist).
CancelPairing ==
  /\ pc = "cancel" /\ pc' = "after"
  /\ \/ inFlight' = FALSE /\ UNCHANGED unsafe
     \/ (inFlight' = FALSE \/ UNCHANGED inFlight) /\ unsafe' = TRUE
  /\ UNCHANGED <<plan, device, reply, ours, local, rf, evidence, error, attempted, status,
                 disconnected, interrupted, files, interlock, history>>

\* The state read after Pair must show what was asked, and nothing else.
Successful ==
  /\ {"paired", "bonded"} \subseteq device
  /\ "trusted" \in device <=> "trusted" \in before.flags

\* Here session_status is decided; an unknown state fails and is unsafe.
ReadAfter ==
  /\ pc = "after" /\ pc' = "current"
  /\ \/ /\ after' = State
        /\ error' = (error \/ ~Successful)
        /\ status' = IF error' THEN "failed" ELSE "completed"
        /\ UNCHANGED unsafe
     \/ error' = TRUE /\ unsafe' = TRUE /\ UNCHANGED <<after, status>>
  /\ UNCHANGED <<plan, bluez, local, rf, before, attempted, disconnected, interrupted,
                 files, interlock, history>>

-----------------------------------------------------------------------------
(* Disconnection *)

\* An unknown connection is disconnected; if the state cannot be read the
\* earlier one decides.
DecideDisconnect ==
  /\ pc = "current"
  /\ \E current \in {State, after} :
       IF current.known /\ "connected" \notin current.flags
       THEN pc' = "reread" /\ disconnected' = "yes"
       ELSE pc' = "disconnect" /\ UNCHANGED disconnected
  /\ UNCHANGED <<plan, bluez, local, rf, evidence, error, attempted, unsafe, status,
                 interrupted, files, interlock, history>>

Unconfirmed == pc' = "reread" /\ disconnected' = "no" /\ unsafe' = TRUE

\* disconnect: the state first, then the call
CallDisconnect ==
  /\ pc = "disconnect"
  /\ \/ /\ "connected" \notin device
        /\ pc' = "reread" /\ disconnected' = "yes" /\ UNCHANGED unsafe
     \/ "connected" \in device /\ pc' = "disconnecting" /\ UNCHANGED <<disconnected, unsafe>>
     \/ Unconfirmed
  /\ UNCHANGED <<plan, bluez, local, rf, evidence, error, attempted, status, interrupted,
                 files, interlock, history>>

\* The reply of Disconnect, an error, or its time limit
AwaitDisconnect ==
  /\ pc = "disconnecting"
  /\ \/ pc' = "polling" /\ UNCHANGED <<disconnected, unsafe>>
     \/ Unconfirmed
  /\ UNCHANGED <<plan, bluez, local, rf, evidence, error, attempted, status, interrupted,
                 files, interlock, history>>

\* Mutant of PollDisconnected: at the deadline the reply is believed.
PollDisconnectedTrusting ==
  /\ pc = "polling" /\ pc' = "reread" /\ disconnected' = "yes"
  /\ UNCHANGED <<plan, bluez, local, rf, evidence, error, attempted, status, interrupted,
                 unsafe, files, interlock, history>>

\* Mutant of PollDisconnected: no deadline.
PollDisconnectedForever ==
  /\ pc = "polling"
  /\ \/ /\ "connected" \notin device
        /\ pc' = "reread" /\ disconnected' = "yes" /\ UNCHANGED unsafe
     \/ "connected" \in device /\ UNCHANGED <<pc, disconnected, unsafe>>
  /\ UNCHANGED <<plan, bluez, local, rf, evidence, error, attempted, status, interrupted,
                 files, interlock, history>>

\* The state is polled until the link is gone, a read fails or the deadline.
PollDisconnected ==
  /\ pc = "polling"
  /\ \/ /\ "connected" \notin device
        /\ pc' = "reread" /\ disconnected' = "yes" /\ UNCHANGED unsafe
     \/ Unconfirmed
  /\ UNCHANGED <<plan, bluez, local, rf, evidence, error, attempted, status, interrupted,
                 files, interlock, history>>

\* The state the run reports; session_status is not looked at again.
ReadFinalState ==
  /\ pc = "reread" /\ pc' = "stop"
  /\ \/ after' = State /\ UNCHANGED unsafe
     \/ unsafe' = (unsafe \/ attempted) /\ UNCHANGED after
  /\ UNCHANGED <<plan, bluez, local, rf, before, error, attempted, status, disconnected,
                 interrupted, files, interlock, history>>

-----------------------------------------------------------------------------
(* Clean-up and artifacts *)

\* Mutant of StopDiscovery: an error is only noted in the clean-up record.
StopDiscoveryNoting ==
  /\ pc = "stop" /\ pc' = "close"
  /\ scanning' \in {FALSE, scanning}
  /\ UNCHANGED <<plan, bluez, agent, rf, evidence, error, attempted, unsafe, status,
                 disconnected, interrupted, files, interlock, history>>

StopDiscovery ==
  /\ pc = "stop" /\ pc' = "close"
  /\ \/ scanning' = FALSE /\ UNCHANGED unsafe
     \/ (scanning' = FALSE \/ UNCHANGED scanning) /\ unsafe' = (unsafe \/ rf)
  /\ UNCHANGED <<plan, bluez, agent, rf, evidence, error, attempted, status,
                 disconnected, interrupted, files, interlock, history>>

\* close: the bus goes down and the agent with it, unless that fails too.  An
\* interrupted run leaves here, with its lease.
CloseBackend ==
  /\ pc = "close" /\ pc' = IF interrupted THEN "done" ELSE "session"
  /\ \/ agent' = FALSE /\ UNCHANGED unsafe
     \/ (agent' = FALSE \/ UNCHANGED agent) /\ unsafe' = (unsafe \/ rf)
  /\ UNCHANGED <<plan, bluez, scanning, rf, evidence, error, attempted, status,
                 disconnected, interrupted, files, interlock, history>>

\* Mutant of WriteSession: the lease goes back whatever the clean-up said.
WriteSessionReleasing ==
  /\ pc = "session"
  /\ \/ /\ session' = IF error \/ disconnected # "yes" THEN "failed" ELSE status
        /\ pc' = "release"
     \/ OutputFaults /\ pc' = "done" /\ UNCHANGED session
  /\ UNCHANGED <<plan, bluez, local, rf, evidence, judgement, interrupted, final,
                 interlock, history>>

\* pairing-session.json.  Its validation also refuses a completion before the
\* start (the wall clock was set back): that and a failed write leave the lease.
WriteSession ==
  /\ pc = "session"
  /\ \/ /\ session' = IF error \/ disconnected # "yes" THEN "failed" ELSE status
        /\ pc' = IF unsafe THEN "latch" ELSE "release"
     \/ OutputFaults /\ pc' = "done" /\ UNCHANGED session
  /\ UNCHANGED <<plan, bluez, local, rf, evidence, judgement, interrupted, final,
                 interlock, history>>

\* Only a SafetyInterlockError is turned into a latch; an OSError escapes.
ReleaseLease ==
  /\ pc = "release" /\ UNCHANGED latch
  /\ \/ pc' = "final" /\ lease' = FALSE
     \/ InterlockFaults /\ pc' = "latch" /\ UNCHANGED lease
     \/ InterlockFaults /\ pc' = "done" /\ (lease' = FALSE \/ UNCHANGED lease)
  /\ UNCHANGED <<plan, bluez, local, rf, evidence, judgement, interrupted, files, history>>

LatchUnsafe ==
  /\ pc = "latch"
  /\ \/ pc' = "final" /\ latch' = TRUE /\ lease' = FALSE
     \/ InterlockFaults /\ pc' = "done" /\ UNCHANGED interlock
     \/ InterlockFaults /\ pc' = "done" /\ latch' = TRUE /\ (lease' = FALSE \/ UNCHANGED lease)
  /\ UNCHANGED <<plan, bluez, local, rf, evidence, judgement, interrupted, files, history>>

WriteFinal ==
  /\ pc = "final" /\ pc' = "done"
  /\ \/ final' = [written |-> TRUE, complete |-> session = "completed" /\ ~latch,
                  clear |-> ~latch, after |-> after]
     \/ OutputFaults /\ UNCHANGED final
  /\ UNCHANGED <<plan, bluez, local, rf, evidence, judgement, interrupted, session,
                 interlock, history>>

-----------------------------------------------------------------------------
(* BlueZ, the peer, other D-Bus clients, and the operator *)

LinkUp ==
  /\ inFlight /\ "connected" \notin device
  /\ device' = device \cup {"connected"} /\ ours' = TRUE
  /\ UNCHANGED <<plan, inFlight, reply, local, pc, rf, evidence, judgement, interrupted,
                 files, interlock, history>>

\* Pairing ends well, with the bond that was asked for or without.
PairingSucceeds ==
  /\ inFlight /\ "connected" \in device
  /\ inFlight' = FALSE /\ reply' = "ok"
  /\ \E bond \in {{}, {"bonded"}} : device' = device \cup {"paired"} \cup bond
  /\ made' = (made \/ "bonded" \in device')
  /\ UNCHANGED <<plan, ours, local, pc, rf, evidence, judgement, interrupted, files,
                 interlock, meddled>>

\* The peer refuses, or the agent does: it answers no question a user would.
PairingFails ==
  /\ inFlight /\ inFlight' = FALSE /\ reply' = "error"
  /\ UNCHANGED <<plan, device, ours, local, pc, rf, evidence, judgement, interrupted,
                 files, interlock, history>>

\* Keys without a bond are forgotten with the link.
LinkDrops ==
  /\ "connected" \in device
  /\ device' = device \ ({"connected"} \cup IF "bonded" \in device THEN {} ELSE {"paired"})
  /\ ours' = FALSE /\ inFlight' = FALSE
  /\ reply' = IF inFlight THEN "error" ELSE reply
  /\ UNCHANGED <<plan, local, pc, rf, evidence, judgement, interrupted, files, interlock,
                 history>>

\* Another client (bluetoothctl) trusts the device, or removes its bond; once.
OtherClient ==
  /\ ~meddled /\ meddled' = TRUE /\ pc # "done"
  /\ \/ device' = (device \ {"trusted"}) \cup ({"trusted"} \ device)
     \/ device' = device \ {"paired", "bonded"}
  /\ UNCHANGED <<plan, inFlight, reply, ours, local, pc, rf, evidence, judgement,
                 interrupted, files, interlock, made>>

\* A CancelledError is raised at an await: from the try block it takes the way
\* of the finally, from the finally it leaves at once.  While the agent is being
\* registered, BlueZ may have it already.
Cancelled ==
  /\ \/ /\ pc \in {"discover", "before", "register", "pairing", "cancel", "after",
                   "current", "disconnect", "disconnecting", "polling", "reread"}
        /\ pc' = "stop"
     \/ pc \in {"stop", "close"} /\ pc' = "done"
  /\ interrupted' = TRUE
  /\ UNCHANGED agent \/ (pc = "register" /\ mode = "no_input_no_output" /\ agent' = TRUE)
  /\ UNCHANGED <<plan, bluez, scanning, rf, evidence, judgement, files, interlock, history>>

Killed ==
  /\ pc # "done" /\ pc' = "done"
  /\ UNCHANGED <<plan, bluez, local, rf, evidence, judgement, interrupted, files,
                 interlock, history>>

-----------------------------------------------------------------------------

\* The lease has just been acquired, for a plan whose preconditions are any; a
\* device that is bonded is paired.
Init ==
  /\ mode \in {"external_default", "no_input_no_output"}
  /\ require \in SUBSET {"paired", "bonded"}
  /\ device \in {flags \in SUBSET Flags : "bonded" \in flags => "paired" \in flags}
  /\ inFlight = FALSE /\ reply = "none" /\ ours = FALSE
  /\ scanning = FALSE /\ agent = FALSE
  /\ pc = "start" /\ rf = FALSE /\ before = Unknown /\ after = Unknown
  /\ error = FALSE /\ attempted = FALSE /\ unsafe = FALSE
  /\ status = "failed" /\ disconnected = "unset" /\ interrupted = FALSE
  /\ session = "none" /\ final = NoFinal
  /\ lease = TRUE /\ latch = FALSE
  /\ made = FALSE /\ meddled = FALSE

Executor ==
  \/ WriteRunStart \/ Prepare \/ Discover \/ ReadBefore
  \/ CallPair \/ AwaitPair \/ CancelPairing \/ ReadAfter
  \/ DecideDisconnect \/ CallDisconnect \/ AwaitDisconnect \/ PollDisconnected
  \/ ReadFinalState \/ StopDiscovery \/ CloseBackend
  \/ WriteSession \/ ReleaseLease \/ LatchUnsafe \/ WriteFinal

World == LinkUp \/ PairingSucceeds \/ PairingFails \/ LinkDrops \/ OtherClient

Next == Executor \/ World \/ Cancelled \/ Killed

Spec == Init /\ [][Next]_vars

\* Pair, Disconnect, the polling and the discovery have time limits; GetAll,
\* CancelPairing, UnregisterAgent and the scanner's calls are taken to return.
FairSpec == Spec /\ WF_vars(Executor)
-----------------------------------------------------------------------------
(* Properties *)

TypeOK ==
  /\ mode \in {"external_default", "no_input_no_output"}
  /\ require \subseteq Flags /\ device \subseteq Flags
  /\ {inFlight, ours, scanning, agent, rf, error, attempted, unsafe, interrupted, lease,
      latch, made, meddled} \subseteq BOOLEAN
  /\ reply \in {"none", "ok", "error"}
  /\ pc \in {"start", "prepare", "discover", "before", "register", "pairing", "cancel",
             "after", "current", "disconnect", "disconnecting", "polling", "reread",
             "stop", "close", "session", "release", "latch", "final", "done"}
  /\ {before, after} \subseteq [known: BOOLEAN, flags: SUBSET Flags]
  /\ status \in {"failed", "completed"} /\ disconnected \in {"unset", "yes", "no"}
  /\ session \in {"none", "failed", "completed"}
  /\ final \in [written: BOOLEAN, complete: BOOLEAN, clear: BOOLEAN,
                after: [known: BOOLEAN, flags: SUBSET Flags]]

\* The run has nothing on the air: no scan, no Pair, no link it made, no agent.
Quiet == ~scanning /\ ~inFlight /\ ~ours /\ ~agent

\* "pairing and active GATT cannot overlap" (pairing_executor.py:507): while
\* anything the run started may be on, whichever of its calls failed or timed
\* out and wherever it was interrupted, the shared interlock keeps others out.
PairingCovered == ~Quiet => lease \/ latch

\* run-final.json is right: clear means quiet and no interlock file left; and
\* complete means that our Pair was answered, after the preconditions held.
FinalIsTrue ==
  /\ final.clear => Quiet /\ ~lease /\ ~latch
  /\ final.complete =>
       /\ final.clear /\ reply = "ok" /\ disconnected = "yes" /\ session = "completed"
       /\ before.known /\ require \cap before.flags = {}

\* "unexpected executor failure after pairing may have changed remote security
\* state" (pairing_executor.py:655) is never passed over: a bond that the run
\* made, be it after its own time limit, is in the final state it reports, or
\* the run ends unsafe; unless another client removed the bond.
BondIsReported ==
  final.written /\ made /\ ~meddled =>
    ~final.clear \/ (final.after.known /\ {"paired", "bonded"} \subseteq final.after.flags)

\* Every call ends, so every run does: a peer that never answers, a link that
\* never drops and a state that cannot be read keep no run from its end.
PairingEnds == <>(pc = "done")

\* "K'amal requires Paired=true, requires Bonded=true when a bond was requested,
\* rejects an observed change to Trusted ... before reporting a complete run"
\* (docs/pairing-executor.md:83-86): so a run that is reported complete reports
\* a paired and bonded device whose Trusted did not change.
CompleteStillHolds ==
  final.complete =>
    /\ {"paired", "bonded"} \subseteq final.after.flags
    /\ "trusted" \in final.after.flags <=> "trusted" \in before.flags

\* The run is a client of the interlock like the GATT executors.
Stage ==
  CASE pc = "release" -> "releasing"
    [] pc = "latch" -> "latching"
    [] pc \in {"final", "done"} -> "over"
    [] OTHER -> IF rf THEN "rf" ELSE "leased"

Session ==
  IF ~rf THEN "none"
  ELSE IF Stage = "rf" THEN "open"
  ELSE IF unsafe \/ session = "none" THEN "unconfirmed"
  ELSE IF Quiet THEN "closed" ELSE "open"

Client == INSTANCE InterlockClient WITH stage <- Stage, session <- Session
InterlockClientSpec == Client!AbandoningSpec
=============================================================================
