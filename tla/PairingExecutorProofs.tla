------------------------ MODULE PairingExecutorProofs ------------------------
(***************************************************************************)
(* Proofs about one pairing run, for every plan and whatever fails: what it  *)
(* leaves on the air is covered by the interlock, what its last artifact     *)
(* says is true, and it uses the interlock as InterlockClient says.          *)
(***************************************************************************)
EXTENDS PairingExecutor, TLAPS

-----------------------------------------------------------------------------
(* The invariant *)

\* Up to the Pair call nothing of the run's pairing exists.
Unstarted ==
  /\ pc \in {"start", "prepare", "discover", "before", "register"} =>
       ~inFlight /\ ~ours /\ ~agent /\ ~made /\ ~unsafe
  /\ pc \in {"start", "prepare", "discover", "before"} => ~attempted
  /\ pc \in {"start", "prepare"} => ~rf
  /\ pc \in {"discover", "before", "register", "pairing", "cancel", "after", "current",
             "disconnect", "disconnecting", "polling", "reread"} => rf
  /\ scanning \/ agent \/ inFlight \/ ours \/ unsafe \/ attempted => rf
  /\ made \/ inFlight \/ pc \in {"register", "pairing", "cancel", "after"} => attempted

\* What BlueZ says of the pairing and of the device
BlueZSays ==
  /\ inFlight => reply = "none"
  /\ ours => "connected" \in device
  /\ made /\ ~meddled => {"paired", "bonded"} \subseteq device

\* A run that is neither unsafe nor interrupted has ended, at each point, all
\* that its clean-up so far was for.
Settled ==
  LET Fine == ~unsafe /\ ~interrupted
  IN /\ Fine /\ pc \in {"after", "current", "disconnect", "disconnecting", "polling", "reread",
                        "stop", "close", "session", "release"} => ~inFlight
     /\ Fine /\ pc \in {"reread", "stop", "close", "session", "release"} => ~ours
     /\ Fine /\ pc = "current" /\ after.known /\ "connected" \notin after.flags => ~ours
     /\ Fine /\ pc \in {"close", "session", "release"} => ~scanning
     /\ Fine /\ pc \in {"session", "release"} => ~agent
     /\ pc = "release" => ~unsafe
     /\ interrupted => pc \in {"stop", "close", "done"}

\* The lease stays until all is settled, or the latch is there.
Covered ==
  /\ pc \notin {"final", "done"} => lease /\ ~latch
  /\ pc = "final" => ~lease /\ (latch \/ (Quiet /\ ~unsafe))
  /\ pc = "done" => lease \/ latch \/ Quiet
  /\ session # "none" /\ ~unsafe => Quiet

\* What the run has concluded
Judged ==
  /\ attempted => before.known /\ require \cap before.flags = {}
  /\ pc = "cancel" => error
  /\ pc = "after" /\ ~error => reply = "ok"
  /\ pc \in {"start", "prepare", "discover", "before", "register", "pairing", "cancel",
             "after"} => status = "failed"
  /\ status \in {"failed", "completed"}
  /\ status = "completed" => attempted /\ reply = "ok"
  /\ session # "none" => pc \in {"release", "latch", "final", "done"}
  /\ session = "completed" => disconnected = "yes" /\ status = "completed"

\* The final state that the run reports shows the bond that it made.
Reported ==
  /\ /\ \/ pc \in {"stop", "close", "session", "release"} /\ ~unsafe /\ ~interrupted
        \/ pc = "final" /\ ~latch
     /\ made /\ ~meddled
     => after.known /\ {"paired", "bonded"} \subseteq after.flags
  /\ final.written => pc = "done"
  /\ final.clear => final.written /\ Quiet /\ ~lease /\ ~latch
  /\ final.complete => final.clear /\ session = "completed"
  /\ final.clear /\ made /\ ~meddled =>
       final.after.known /\ {"paired", "bonded"} \subseteq final.after.flags

PairingInv ==
  Unstarted /\ BlueZSays /\ Settled /\ Covered /\ Judged /\ Reported

-----------------------------------------------------------------------------
(* The invariant holds *)

\* The lease has just been acquired and nothing has been sent.
LEMMA InitInv == Init => PairingInv
<1> SUFFICES ASSUME Init PROVE PairingInv
  OBVIOUS
<1>1. Unstarted /\ Settled /\ Covered
  BY DEF Init, Unstarted, Settled, Covered, Quiet
<1>2. BlueZSays /\ Judged
  BY DEF Init, BlueZSays, Judged
<1>3. Reported
  BY DEF Init, Reported, NoFinal
<1>4. QED
  BY <1>1, <1>2, <1>3 DEF PairingInv

\* Every step of the run, of BlueZ, of the peer and of other clients keeps the
\* invariant.
LEMMA NextInv ==
  ASSUME PairingInv, [Next]_vars
  PROVE  PairingInv'
<1> USE DEF PairingInv, Unstarted, BlueZSays, Settled, Covered, Judged, Reported, Quiet,
            plan, bluez, local, evidence, judgement, files, interlock, history
<1>1. CASE WriteRunStart
  BY <1>1 DEF WriteRunStart
<1>2. CASE Prepare
  BY <1>2 DEF Prepare
<1>3. CASE Discover
  BY <1>3 DEF Discover
<1>4. CASE ReadBefore
  BY <1>4 DEF ReadBefore, State
<1>5. CASE CallPair
  BY <1>5 DEF CallPair
<1>6. CASE AwaitPair
  BY <1>6 DEF AwaitPair
<1>7. CASE CancelPairing
  BY <1>7 DEF CancelPairing
<1>8. CASE ReadAfter
  <2>1. status' = "completed" => ~error /\ status = "failed"
    BY <1>8 DEF ReadAfter
  <2>2. Judged'
    BY <1>8, <2>1 DEF ReadAfter
  <2>3. Settled'
    BY <1>8 DEF ReadAfter, State
  <2>4. QED
    BY <1>8, <2>2, <2>3 DEF ReadAfter
<1>9. CASE DecideDisconnect
  BY <1>9 DEF DecideDisconnect, State
<1>10. CASE CallDisconnect
  BY <1>10 DEF CallDisconnect, Unconfirmed
<1>11. CASE AwaitDisconnect
  BY <1>11 DEF AwaitDisconnect, Unconfirmed
<1>12. CASE PollDisconnected
  BY <1>12 DEF PollDisconnected, Unconfirmed
<1>13. CASE ReadFinalState
  <2>1. State.known /\ State.flags = device
    BY DEF State
  <2>2. ~unsafe' => ~unsafe /\ (after' = State \/ ~attempted)
    BY <1>13 DEF ReadFinalState
  <2>3. ~unsafe' /\ made /\ ~meddled =>
          after'.known /\ {"paired", "bonded"} \subseteq after'.flags
    BY <2>1, <2>2
  <2>4. ~final.clear /\ ~final.complete /\ ~final.written
    BY <1>13 DEF ReadFinalState
  <2>5. Reported'
    BY <1>13, <2>3, <2>4 DEF ReadFinalState
  <2>6. Settled' /\ Unstarted'
    BY <1>13, <2>2 DEF ReadFinalState
  <2>7. QED
    BY <1>13, <2>5, <2>6 DEF ReadFinalState
<1>14. CASE StopDiscovery
  <2>1. ~unsafe' => ~unsafe /\ (~rf \/ ~scanning')
    BY <1>14 DEF StopDiscovery
  <2>2. scanning' => scanning
    BY <1>14 DEF StopDiscovery
  <2>3. unsafe' => unsafe \/ rf
    BY <1>14, Zenon DEF StopDiscovery
  <2>4. Settled' /\ Unstarted'
    BY <1>14, <2>1, <2>2, <2>3 DEF StopDiscovery
  <2>5. BlueZSays' /\ Covered' /\ Judged'
    BY <1>14 DEF StopDiscovery
  <2>6. Reported'
    BY <1>14, <2>1 DEF StopDiscovery
  <2>7. QED
    BY <2>4, <2>5, <2>6
<1>15. CASE CloseBackend
  <2>1. ~unsafe' => ~unsafe /\ (~rf \/ ~agent')
    BY <1>15 DEF CloseBackend
  <2>2. agent' => agent
    BY <1>15 DEF CloseBackend
  <2>3. unsafe' => unsafe \/ rf
    BY <1>15, Zenon DEF CloseBackend
  <2>4. Settled' /\ Unstarted'
    BY <1>15, <2>1, <2>2, <2>3 DEF CloseBackend
  <2>5. BlueZSays' /\ Covered' /\ Judged'
    BY <1>15 DEF CloseBackend
  <2>6. Reported'
    BY <1>15, <2>1 DEF CloseBackend
  <2>7. QED
    BY <2>4, <2>5, <2>6
<1>16. CASE WriteSession
  BY <1>16 DEF WriteSession
<1>17. CASE ReleaseLease
  BY <1>17 DEF ReleaseLease
<1>18. CASE LatchUnsafe
  BY <1>18 DEF LatchUnsafe
<1>19. CASE WriteFinal
  <2>1. CASE UNCHANGED final
    BY <1>19, <2>1 DEF WriteFinal
  <2>2. CASE final' = [written |-> TRUE, complete |-> session = "completed" /\ ~latch,
                       clear |-> ~latch, after |-> after]
    <3>1. final'.written /\ final'.after = after
      BY <2>2
    <3>2. final'.clear => ~latch
      BY <2>2, Zenon
    <3>3. final'.complete => final'.clear /\ session = "completed"
      BY <2>2
    <3>4. QED
      BY <1>19, <3>1, <3>2, <3>3 DEF WriteFinal
  <2>3. QED
    BY <1>19, <2>1, <2>2 DEF WriteFinal
<1>20. CASE LinkUp
  BY <1>20 DEF LinkUp
<1>21. CASE PairingSucceeds
  BY <1>21 DEF PairingSucceeds
<1>22. CASE PairingFails
  BY <1>22 DEF PairingFails
<1>23. CASE LinkDrops
  BY <1>23 DEF LinkDrops
<1>24. CASE OtherClient
  BY <1>24 DEF OtherClient
<1>25. CASE Cancelled
  BY <1>25 DEF Cancelled
<1>26. CASE Killed
  BY <1>26 DEF Killed
<1>27. CASE UNCHANGED vars
  BY <1>27 DEF vars
<1>28. QED
  BY <1>1, <1>2, <1>3, <1>4, <1>5, <1>6, <1>7, <1>8, <1>9, <1>10, <1>11, <1>12, <1>13,
     <1>14, <1>15, <1>16, <1>17, <1>18, <1>19, <1>20, <1>21, <1>22, <1>23, <1>24,
     <1>25, <1>26, <1>27
  DEF Next, Executor, World

\* The inductive invariant is one of the specification.
LEMMA Invariance == Spec => []PairingInv
<1>1. Init => PairingInv
  BY InitInv
<1>2. PairingInv /\ [Next]_vars => PairingInv'
  BY NextInv
<1>3. QED
  BY <1>1, <1>2, PTL DEF Spec

-----------------------------------------------------------------------------
(* What it implies *)

\* Whichever call of the run fails, times out or is interrupted, what it started
\* on the air is covered by the lease or the latch.
THEOREM PairingIsCovered == Spec => []PairingCovered
<1>1. PairingInv => PairingCovered
  BY DEF PairingInv, Covered, PairingCovered, Quiet
<1>2. QED
  BY Invariance, <1>1, PTL

\* run-final.json is right about the radio, the interlock and the verdict.
THEOREM FinalRecordIsTrue == Spec => []FinalIsTrue
<1>1. PairingInv => FinalIsTrue
  BY DEF PairingInv, Reported, Judged, FinalIsTrue
<1>2. QED
  BY Invariance, <1>1, PTL

\* A bond that the run made is reported, or the run ends unsafe.
THEOREM BondsAreReported == Spec => []BondIsReported
<1>1. PairingInv => BondIsReported
  BY DEF PairingInv, Reported, BondIsReported
<1>2. QED
  BY Invariance, <1>1, PTL

\* TypeOK: BlueZ's properties, the reports of them and the artifacts stay of their
\* types, whichever call fails, times out or is interrupted.
PlanAndPlace ==
  /\ mode \in {"external_default", "no_input_no_output"} /\ require \subseteq Flags
  /\ reply \in {"none", "ok", "error"}
  /\ pc \in {"start", "prepare", "discover", "before", "register", "pairing", "cancel",
             "after", "current", "disconnect", "disconnecting", "polling", "reread",
             "stop", "close", "session", "release", "latch", "final", "done"}
  /\ status \in {"failed", "completed"} /\ disconnected \in {"unset", "yes", "no"}
  /\ session \in {"none", "failed", "completed"}
Switches ==
  /\ inFlight \in BOOLEAN /\ ours \in BOOLEAN /\ scanning \in BOOLEAN /\ agent \in BOOLEAN
  /\ rf \in BOOLEAN /\ error \in BOOLEAN /\ attempted \in BOOLEAN /\ unsafe \in BOOLEAN
  /\ interrupted \in BOOLEAN /\ lease \in BOOLEAN /\ latch \in BOOLEAN
  /\ made \in BOOLEAN /\ meddled \in BOOLEAN
Reading == [known: BOOLEAN, flags: SUBSET Flags]
Readings ==
  /\ device \in SUBSET Flags /\ before \in Reading /\ after \in Reading
  /\ final \in [written: BOOLEAN, complete: BOOLEAN, clear: BOOLEAN, after: Reading]

\* A pairing run's variables have their types: what it knows of the device are
\* whole readings, and so is what its last artifact holds.
THEOREM TypeCorrect == Spec => []TypeOK
<1> USE DEF plan, bluez, local, evidence, judgement, files, interlock, history
<1>1. Init => PlanAndPlace /\ Switches /\ Readings
  <2> SUFFICES ASSUME Init PROVE PlanAndPlace /\ Switches /\ Readings
    OBVIOUS
  <2>1. PlanAndPlace
    BY DEF Init, PlanAndPlace, Flags
  <2>2. Switches
    BY DEF Init, Switches
  <2>3. Unknown \in Reading
    BY DEF Unknown, Reading
  <2>4. Readings
    BY <2>3 DEF Init, Readings, NoFinal
  <2>5. QED
    BY <2>1, <2>2, <2>4
<1>2. PlanAndPlace /\ [Next]_vars => PlanAndPlace'
  BY DEF PlanAndPlace, Next, Executor, World, vars, WriteRunStart, Prepare, Discover, ReadBefore,
     CallPair, AwaitPair, CancelPairing, ReadAfter, DecideDisconnect, CallDisconnect,
     AwaitDisconnect, PollDisconnected, ReadFinalState, StopDiscovery, CloseBackend, WriteSession,
     ReleaseLease, LatchUnsafe, WriteFinal, LinkUp, PairingSucceeds, PairingFails, LinkDrops,
     OtherClient, Cancelled, Killed, Unconfirmed
<1>3. Switches /\ [Next]_vars => Switches'
  <2> SUFFICES ASSUME Switches, [Next]_vars PROVE Switches'
    OBVIOUS
  <2> USE DEF Switches
  <2>1. error' = error \/ error' = TRUE \/ error' = (error \/ ~Successful)
    BY DEF Next, Executor, World, vars, WriteRunStart, Prepare, Discover, ReadBefore,
       CallPair, AwaitPair, CancelPairing, ReadAfter, DecideDisconnect, CallDisconnect,
       AwaitDisconnect, PollDisconnected, ReadFinalState, StopDiscovery, CloseBackend, WriteSession,
       ReleaseLease, LatchUnsafe, WriteFinal, LinkUp, PairingSucceeds, PairingFails, LinkDrops,
       OtherClient, Cancelled, Killed, Unconfirmed
  <2>2. \/ unsafe' = unsafe \/ unsafe' = TRUE
        \/ unsafe' = (unsafe \/ attempted) \/ unsafe' = (unsafe \/ rf)
    BY DEF Next, Executor, World, vars, WriteRunStart, Prepare, Discover, ReadBefore,
       CallPair, AwaitPair, CancelPairing, ReadAfter, DecideDisconnect, CallDisconnect,
       AwaitDisconnect, PollDisconnected, ReadFinalState, StopDiscovery, CloseBackend, WriteSession,
       ReleaseLease, LatchUnsafe, WriteFinal, LinkUp, PairingSucceeds, PairingFails, LinkDrops,
       OtherClient, Cancelled, Killed, Unconfirmed
  <2>3. made' = made \/ made' = (made \/ "bonded" \in device')
    BY DEF Next, Executor, World, vars, WriteRunStart, Prepare, Discover, ReadBefore,
       CallPair, AwaitPair, CancelPairing, ReadAfter, DecideDisconnect, CallDisconnect,
       AwaitDisconnect, PollDisconnected, ReadFinalState, StopDiscovery, CloseBackend, WriteSession,
       ReleaseLease, LatchUnsafe, WriteFinal, LinkUp, PairingSucceeds, PairingFails, LinkDrops,
       OtherClient, Cancelled, Killed, Unconfirmed
  <2>4. agent' = agent \/ agent' = FALSE \/ agent' = (mode = "no_input_no_output")
    BY DEF Next, Executor, World, vars, WriteRunStart, Prepare, Discover, ReadBefore,
       CallPair, AwaitPair, CancelPairing, ReadAfter, DecideDisconnect, CallDisconnect,
       AwaitDisconnect, PollDisconnected, ReadFinalState, StopDiscovery, CloseBackend, WriteSession,
       ReleaseLease, LatchUnsafe, WriteFinal, LinkUp, PairingSucceeds, PairingFails, LinkDrops,
       OtherClient, Cancelled, Killed, Unconfirmed
  <2>5. /\ inFlight' \in BOOLEAN /\ ours' \in BOOLEAN /\ scanning' \in BOOLEAN
        /\ rf' \in BOOLEAN /\ attempted' \in BOOLEAN /\ interrupted' \in BOOLEAN
        /\ lease' \in BOOLEAN /\ latch' \in BOOLEAN /\ meddled' \in BOOLEAN
    <3>1. inFlight' \in BOOLEAN /\ ours' \in BOOLEAN /\ meddled' \in BOOLEAN
      BY DEF Next, Executor, World, vars, WriteRunStart, Prepare, Discover, ReadBefore,
         CallPair, AwaitPair, CancelPairing, ReadAfter, DecideDisconnect, CallDisconnect,
         AwaitDisconnect, PollDisconnected, ReadFinalState, StopDiscovery, CloseBackend, WriteSession,
         ReleaseLease, LatchUnsafe, WriteFinal, LinkUp, PairingSucceeds, PairingFails, LinkDrops,
         OtherClient, Cancelled, Killed, Unconfirmed
    <3>2. rf' \in BOOLEAN /\ attempted' \in BOOLEAN /\ interrupted' \in BOOLEAN
      BY DEF Next, Executor, World, vars, WriteRunStart, Prepare, Discover, ReadBefore,
         CallPair, AwaitPair, CancelPairing, ReadAfter, DecideDisconnect, CallDisconnect,
         AwaitDisconnect, PollDisconnected, ReadFinalState, StopDiscovery, CloseBackend, WriteSession,
         ReleaseLease, LatchUnsafe, WriteFinal, LinkUp, PairingSucceeds, PairingFails, LinkDrops,
         OtherClient, Cancelled, Killed, Unconfirmed
    <3>3. scanning' \in BOOLEAN
      BY DEF Next, Executor, World, vars, WriteRunStart, Prepare, Discover, ReadBefore,
         CallPair, AwaitPair, CancelPairing, ReadAfter, DecideDisconnect, CallDisconnect,
         AwaitDisconnect, PollDisconnected, ReadFinalState, StopDiscovery, CloseBackend, WriteSession,
         ReleaseLease, LatchUnsafe, WriteFinal, LinkUp, PairingSucceeds, PairingFails, LinkDrops,
         OtherClient, Cancelled, Killed, Unconfirmed
    <3>4. lease' \in BOOLEAN /\ latch' \in BOOLEAN
      BY DEF Next, Executor, World, vars, WriteRunStart, Prepare, Discover, ReadBefore,
         CallPair, AwaitPair, CancelPairing, ReadAfter, DecideDisconnect, CallDisconnect,
         AwaitDisconnect, PollDisconnected, ReadFinalState, StopDiscovery, CloseBackend, WriteSession,
         ReleaseLease, LatchUnsafe, WriteFinal, LinkUp, PairingSucceeds, PairingFails, LinkDrops,
         OtherClient, Cancelled, Killed, Unconfirmed
    <3>5. QED
      BY <3>1, <3>2, <3>3, <3>4
  <2>6. error' \in BOOLEAN
    BY <2>1, Zenon
  <2>7. unsafe' \in BOOLEAN
    BY <2>2, Zenon
  <2>8. made' \in BOOLEAN
    BY <2>3, Zenon
  <2>9. agent' \in BOOLEAN
    BY <2>4, Zenon
  <2>10. QED
    BY <2>5, <2>6, <2>7, <2>8, <2>9
<1>4. Switches /\ PlanAndPlace /\ Readings /\ [Next]_vars => Readings'
  <2> SUFFICES ASSUME Switches, PlanAndPlace, Readings, [Next]_vars PROVE Readings'
    OBVIOUS
  <2>1. State \in Reading
    BY DEF State, Reading, Readings
  <2>2. device' \in SUBSET Flags
    BY DEF Readings, Flags, Next, Executor, World, vars, WriteRunStart, Prepare, Discover, ReadBefore,
       CallPair, AwaitPair, CancelPairing, ReadAfter, DecideDisconnect, CallDisconnect,
       AwaitDisconnect, PollDisconnected, ReadFinalState, StopDiscovery, CloseBackend, WriteSession,
       ReleaseLease, LatchUnsafe, WriteFinal, LinkUp, PairingSucceeds, PairingFails, LinkDrops,
       OtherClient, Cancelled, Killed, Unconfirmed
  <2>3. before' \in {before, State} /\ after' \in {after, State}
    BY DEF Next, Executor, World, vars, WriteRunStart, Prepare, Discover, ReadBefore,
       CallPair, AwaitPair, CancelPairing, ReadAfter, DecideDisconnect, CallDisconnect,
       AwaitDisconnect, PollDisconnected, ReadFinalState, StopDiscovery, CloseBackend, WriteSession,
       ReleaseLease, LatchUnsafe, WriteFinal, LinkUp, PairingSucceeds, PairingFails, LinkDrops,
       OtherClient, Cancelled, Killed, Unconfirmed
  <2>4. \/ final' = final
        \/ final' = [written |-> TRUE, complete |-> session = "completed" /\ ~latch,
                     clear |-> ~latch, after |-> after]
    BY DEF Next, Executor, World, vars, WriteRunStart, Prepare, Discover, ReadBefore,
       CallPair, AwaitPair, CancelPairing, ReadAfter, DecideDisconnect, CallDisconnect,
       AwaitDisconnect, PollDisconnected, ReadFinalState, StopDiscovery, CloseBackend, WriteSession,
       ReleaseLease, LatchUnsafe, WriteFinal, LinkUp, PairingSucceeds, PairingFails, LinkDrops,
       OtherClient, Cancelled, Killed, Unconfirmed
  <2>5. (session = "completed" /\ ~latch) \in BOOLEAN /\ (~latch) \in BOOLEAN
    OBVIOUS
  <2>6. final' \in [written: BOOLEAN, complete: BOOLEAN, clear: BOOLEAN, after: Reading]
    <3>1. CASE final' = final
      BY <3>1 DEF Readings
    <3>2. CASE final' # final
      <4> DEFINE x == (session = "completed" /\ ~latch)
                 y == (~latch)
      <4>1. x \in BOOLEAN /\ y \in BOOLEAN /\ TRUE \in BOOLEAN /\ after \in Reading
        BY <2>5 DEF Readings
      <4>2. final' = [written |-> TRUE, complete |-> x, clear |-> y, after |-> after]
        BY <2>4, <3>2
      <4> HIDE DEF x, y
      <4>3. QED
        BY <4>1, <4>2
    <3>3. QED
      BY <3>1, <3>2
  <2>7. QED
    BY <2>1, <2>2, <2>3, <2>6 DEF Readings
<1>5. PlanAndPlace /\ Switches /\ Readings => TypeOK
  BY DEF PlanAndPlace, Switches, Readings, Reading, TypeOK
<1>6. QED
  BY <1>1, <1>2, <1>3, <1>4, <1>5, PTL DEF Spec

-----------------------------------------------------------------------------
(* The run is a client of the interlock *)

Ended == {"release", "latch", "final", "done"}

\* A step that leaves the interlock's view alone: the run's place, its mark, its
\* verdict and its session artifact.
LEMMA Unseen ==
  ASSUME PairingInv, PairingInv', UNCHANGED <<pc, rf, unsafe, session>>
  PROVE  UNCHANGED Client!vars
<1>1. Stage' = Stage
  BY DEF Stage
<1>2. session # "none" /\ ~unsafe => Quiet /\ Quiet'
  BY DEF PairingInv, Covered
<1>3. Session' = Session
  BY <1>1, <1>2 DEF Session
<1>4. QED
  BY <1>1, <1>3 DEF Client!vars

\* A step between two places before the interlock is called again.
LEMMA StillWorking ==
  ASSUME pc \notin Ended, pc' \notin Ended, rf' = rf
  PROVE  UNCHANGED Client!vars
<1>1. Stage' = Stage
  BY DEF Stage, Ended
<1>2. Session' = Session
  BY <1>1 DEF Session, Stage, Ended
<1>3. QED
  BY <1>1, <1>2 DEF Client!vars

\* A run that ends before it has called the interlock, for whatever reason.
LEMMA Abandons ==
  ASSUME PairingInv, pc \notin Ended, pc' = "done", rf' = rf, session' = session
  PROVE  Client!Abandon
<1>1. session = "none"
  BY DEF PairingInv, Judged, Ended
<1>2. Stage = (IF rf THEN "rf" ELSE "leased") /\ Stage' = "over"
  BY DEF Stage, Ended
<1>3. Session = (IF rf THEN "open" ELSE "none") /\ Session' = IF rf THEN "unconfirmed" ELSE "none"
  BY <1>1, <1>2 DEF Session
<1>4. QED
  BY <1>2, <1>3 DEF Client!Abandon

\* After pairing-session.json is written, the session is settled for good.
LEMMA SessionStays ==
  ASSUME PairingInv, PairingInv', pc \in Ended, pc' \in Ended,
         UNCHANGED <<rf, unsafe, session>>
  PROVE  Session' = Session
<1>1. Stage # "rf" /\ Stage' # "rf"
  BY DEF Stage, Ended
<1>2. session # "none" /\ ~unsafe => Quiet /\ Quiet'
  BY DEF PairingInv, Covered
<1>3. QED
  BY <1>1, <1>2 DEF Session

\* Each step is one of the interlock's client, or is not seen by it.
LEMMA StepRefines ==
  ASSUME PairingInv, PairingInv', [Next]_vars
  PROVE  [Client!Next \/ Client!Abandon]_(Client!vars)
<1> USE DEF plan, bluez, local, evidence, judgement, files, interlock, history
<1>1. CASE WriteRunStart
  <2>1. CASE pc' = "done"
    BY <1>1, <2>1, Abandons DEF WriteRunStart, Ended
  <2>2. CASE pc' = "prepare"
    BY <1>1, <2>2, StillWorking DEF WriteRunStart, Ended
  <2>3. QED
    BY <1>1, <2>1, <2>2 DEF WriteRunStart
<1>2. CASE Prepare
  <2>1. CASE pc' = "discover" /\ rf'
    <3>1. ~rf
      BY <1>2 DEF Prepare, PairingInv, Unstarted
    <3>2. Stage = "leased" /\ Stage' = "rf"
      BY <1>2, <2>1, <3>1 DEF Prepare, Stage
    <3>3. Session = "none" /\ Session' = "open"
      BY <2>1, <3>1, <3>2 DEF Session
    <3>4. QED
      BY <3>2, <3>3 DEF Client!Next, Client!StartRF
  <2>2. CASE pc' = "stop" /\ rf' = rf
    BY <1>2, <2>2, StillWorking DEF Prepare, Ended
  <2>3. QED
    BY <1>2, <2>1, <2>2 DEF Prepare
<1>3. CASE \/ Discover \/ ReadBefore \/ CallPair \/ AwaitPair \/ CancelPairing \/ ReadAfter
           \/ DecideDisconnect \/ CallDisconnect \/ AwaitDisconnect \/ PollDisconnected
           \/ ReadFinalState \/ StopDiscovery
  <2>1. pc \notin Ended /\ pc' \notin Ended /\ rf' = rf
    BY <1>3 DEF Discover, ReadBefore, CallPair, AwaitPair, CancelPairing, ReadAfter,
       DecideDisconnect, CallDisconnect, AwaitDisconnect, PollDisconnected, Unconfirmed,
       ReadFinalState, StopDiscovery, Ended
  <2>2. QED
    BY <2>1, StillWorking
<1>4. CASE CloseBackend
  <2>1. CASE interrupted
    BY <1>4, <2>1, Abandons DEF CloseBackend, Ended
  <2>2. CASE ~interrupted
    BY <1>4, <2>2, StillWorking DEF CloseBackend, Ended
  <2>3. QED
    BY <2>1, <2>2
<1>5. CASE WriteSession
  <2>1. CASE pc' = "done"
    BY <1>5, <2>1, Abandons DEF WriteSession, Ended
  <2>2. CASE pc' # "done"
    <3>1. /\ pc' = (IF unsafe THEN "latch" ELSE "release")
          /\ session' # "none"
          /\ pc = "session" /\ UNCHANGED <<rf, unsafe, interrupted>>
      BY <1>5, <2>2 DEF WriteSession, PairingInv, Judged
    <3>2. Stage = (IF rf THEN "rf" ELSE "leased")
          /\ Stage' = IF unsafe THEN "latching" ELSE "releasing"
      BY <3>1 DEF Stage
    <3>3. Session = IF rf THEN "open" ELSE "none"
      BY <3>2 DEF Session
    <3>4. unsafe => rf
      BY DEF PairingInv, Unstarted
    <3>5. ~unsafe => Quiet'
      BY <3>1 DEF PairingInv, Covered
    <3>6. Session' = IF rf THEN (IF unsafe THEN "unconfirmed" ELSE "closed") ELSE "none"
      BY <3>1, <3>2, <3>5 DEF Session
    <3>7. QED
      BY <3>2, <3>3, <3>4, <3>6
      DEF Client!Next, Client!GiveUp, Client!EndConfirmed, Client!EndUnconfirmed
  <2>3. QED
    BY <2>1, <2>2
<1>6. CASE ReleaseLease \/ LatchUnsafe \/ WriteFinal
  <2>1. /\ pc \in Ended /\ pc' \in Ended /\ UNCHANGED <<rf, unsafe, session>>
        /\ \/ pc = "release" /\ pc' \in {"final", "latch", "done"}
           \/ pc = "latch" /\ pc' \in {"final", "done"}
           \/ pc = "final" /\ pc' = "done"
    BY <1>6 DEF ReleaseLease, LatchUnsafe, WriteFinal, Ended
  <2>2. Session' = Session
    BY <2>1, SessionStays
  <2>3. \/ Stage = "releasing" /\ Stage' \in {"over", "latching"}
        \/ Stage = "latching" /\ Stage' = "over"
        \/ Stage = "over" /\ Stage' = "over"
    BY <2>1 DEF Stage
  <2>4. QED
    BY <2>2, <2>3 DEF Client!Next, Client!Finish, Client!ReleaseFails, Client!vars
<1>7. CASE World
  BY <1>7, Unseen
  DEF World, LinkUp, PairingSucceeds, PairingFails, LinkDrops, OtherClient
<1>8. CASE Cancelled
  <2>1. CASE pc' = "stop"
    BY <1>8, <2>1, StillWorking DEF Cancelled, Ended
  <2>2. CASE pc' = "done"
    BY <1>8, <2>2, Abandons DEF Cancelled, Ended
  <2>3. QED
    BY <1>8, <2>1, <2>2 DEF Cancelled
<1>9. CASE Killed
  <2>1. CASE pc \notin Ended
    BY <1>9, <2>1, Abandons DEF Killed
  <2>2. CASE pc \in Ended
    <3>1. Session' = Session
      BY <1>9, <2>2, SessionStays DEF Killed, Ended
    <3>2. /\ Stage' = "over" /\ Stage \in {"releasing", "latching", "over"}
      BY <1>9, <2>2 DEF Killed, Ended, Stage
    <3>3. QED
      BY <3>1, <3>2 DEF Client!Next, Client!Finish, Client!vars
  <2>3. QED
    BY <2>1, <2>2
<1>10. CASE UNCHANGED vars
  BY <1>10, Unseen DEF vars
<1>11. QED
  BY <1>1, <1>2, <1>3, <1>4, <1>5, <1>6, <1>7, <1>8, <1>9, <1>10 DEF Next, Executor

\* The run uses the interlock in the order that InterlockClient states, and may
\* be ended at any point with its lease in place.
THEOREM Refinement == Spec => InterlockClientSpec
<1>1. Init => Client!Init
  BY DEF Init, Client!Init, Stage, Session
<1>2. PairingInv /\ PairingInv' /\ [Next]_vars => [Client!Next \/ Client!Abandon]_(Client!vars)
  BY StepRefines
<1>3. QED
  BY Invariance, <1>1, <1>2, PTL DEF Spec, InterlockClientSpec, Client!AbandoningSpec
=============================================================================
