------------------------ MODULE SafetyInterlockProofs ------------------------
(***************************************************************************)
(* Proofs about the safety interlock: its type invariant, the mutual       *)
(* exclusion of BLE sessions, the blocking of uncertain ones and the       *)
(* clearing of what blocks, for any number of runs and recovery tools,     *)
(* with process crashes, power losses and failing file-system calls.       *)
(***************************************************************************)
EXTENDS SafetyInterlock, TLAPS

-----------------------------------------------------------------------------
(* The directory operations *)

\* A write leaves the directory as it was or with the new content, and adds no
\* other content to what a power loss may leave.
LEMMA DirWriteEffect ==
  ASSUME NEW file, NEW content, NEW outcome,
         dir \in persisted, DirWrite(file, content, outcome)
  PROVE  /\ dir' \in {dir, [dir EXCEPT ![file] = content]}
         /\ persisted' \subseteq persisted \cup {[dir EXCEPT ![file] = content]}
         /\ dir' \in persisted'
         /\ outcome = "synced" =>
              /\ dir' = [dir EXCEPT ![file] = content]
              /\ persisted' = {dir'}
         /\ outcome = "failed" => dir' = dir
BY DEF DirWrite, dirVars

\* An unlink, durable or not, leaves the file or takes it away, and a power loss
\* may then leave either.
LEMMA UnlinkEffect ==
  ASSUME NEW file, NEW outcome,
         dir \in persisted, UnlinkDurable(file, outcome)
  PROVE  /\ dir' \in {dir, [dir EXCEPT ![file] = NoFile]}
         /\ persisted' \subseteq persisted \cup {[dir EXCEPT ![file] = NoFile]}
         /\ dir' \in persisted'
BY DirWriteEffect DEF UnlinkDurable, dirVars

\* The directory part of the type invariant
DirTypeOK == dir \in Directory /\ persisted \subseteq Directory /\ dir \in persisted

\* A write leaves a directory of whole files.
LEMMA DirWriteType ==
  ASSUME NEW file \in {"active", "unsafe"}, NEW content, NEW outcome,
         DirTypeOK, DirWrite(file, content, outcome),
         [dir EXCEPT ![file] = content] \in Directory
  PROVE  DirTypeOK'
BY DirWriteEffect DEF DirTypeOK

\* So does an unlink.
LEMMA UnlinkType ==
  ASSUME NEW file \in {"active", "unsafe"}, NEW outcome,
         DirTypeOK, UnlinkDurable(file, outcome)
  PROVE  DirTypeOK'
<1>1. [dir EXCEPT ![file] = NoFile] \in Directory
  BY DEF DirTypeOK, Directory
<1>2. QED
  BY <1>1, UnlinkEffect DEF DirTypeOK

-----------------------------------------------------------------------------
(* Type correctness *)

\* The interlock begins with no file.
LEMMA InitType == Init => TypeOK /\ Remembered
BY InterlockAssumption DEF Init, TypeOK, Remembered, Directory, RunPcs, LatchPcs, HoldingPcs, ResolverPcs

\* No step of a run, a tool or the environment writes half a file.
LEMMA NextType ==
  ASSUME TypeOK, Remembered, [Next]_vars
  PROVE  TypeOK' /\ Remembered'
<1> USE DEF TypeOK, DirTypeOK, Remembered
<1>1. ASSUME NEW r \in Runs,
             \/ CheckUnsafe(r) \/ CheckActive(r) \/ SetUpOutput(r)
             \/ StopBeforeRF(r) \/ MarkCheckUnsafe(r) \/ MarkCheckActive(r)
             \/ CleanUpSession(r) \/ CleanUpNothing(r)
             \/ ReleaseCheckUnsafe(r) \/ ReleaseCheckActive(r)
             \/ LatchCheckUnsafe(r) \/ LatchQuoteLease(r) \/ LatchConfirm(r)
             \/ CrashRun(r)
      PROVE  TypeOK' /\ Remembered'
  BY <1>1 DEF CheckUnsafe, CheckActive, SetUpOutput, StopBeforeRF,
       MarkCheckUnsafe, MarkCheckActive, CleanUpSession, CleanUpNothing,
       ReleaseCheckUnsafe, ReleaseCheckActive, LatchCheckUnsafe, LatchQuoteLease, LatchConfirm, CrashRun,
       Goto, RunPcs, LatchPcs, HoldingPcs, dirVars, resolverVars
<1>2. ASSUME NEW r \in Runs, CreateLease(r) PROVE TypeOK' /\ Remembered'
  <2>1. [dir EXCEPT !["active"] = [owner |-> r, rf |-> FALSE]] \in Directory
    BY DEF Directory, Lease
  <2>2. DirTypeOK'
    BY <1>2, <2>1, DirWriteType DEF CreateLease, dirVars
  <2>3. QED
    BY <1>2, <2>2 DEF CreateLease, Goto, RunPcs, LatchPcs, HoldingPcs, resolverVars
<1>3. ASSUME NEW r \in Runs, ReadLease(r) PROVE TypeOK' /\ Remembered'
  BY <1>3 DEF ReadLease, Exists, Goto, RunPcs, LatchPcs, HoldingPcs, Directory, dirVars, resolverVars
<1>4. ASSUME NEW r \in Runs, ReplaceLease(r) PROVE TypeOK' /\ Remembered'
  <2>1. [dir EXCEPT !["active"] = [seen[r] EXCEPT !.rf = TRUE]] \in Directory
    BY <1>4 DEF ReplaceLease, Directory, Lease
  <2>2. DirTypeOK'
    BY <1>4, <2>1, DirWriteType DEF ReplaceLease
  <2>3. QED
    BY <1>4, <2>2 DEF ReplaceLease, Goto, RunPcs, LatchPcs, HoldingPcs, resolverVars
<1>5. ASSUME NEW r \in Runs, ReleaseUnlink(r) PROVE TypeOK' /\ Remembered'
  <2>1. DirTypeOK'
    BY <1>5, UnlinkType DEF ReleaseUnlink
  <2>2. QED
    BY <1>5, <2>1 DEF ReleaseUnlink, Goto, RunPcs, LatchPcs, HoldingPcs, resolverVars
<1>6. ASSUME NEW r \in Runs, LatchCreate(r) PROVE TypeOK' /\ Remembered'
  <2>1. [dir EXCEPT !["unsafe"] = r] \in Directory
    BY DEF Directory
  <2>2. DirTypeOK'
    BY <1>6, <2>1, DirWriteType DEF LatchCreate, dirVars
  <2>3. QED
    BY <1>6, <2>2 DEF LatchCreate, Goto, RunPcs, LatchPcs, HoldingPcs, resolverVars
<1>7. ASSUME NEW r \in Runs, LatchUnlink(r) PROVE TypeOK' /\ Remembered'
  <2>1. DirTypeOK'
    BY <1>7, UnlinkType DEF LatchUnlink, dirVars
  <2>2. QED
    BY <1>7, <2>1 DEF LatchUnlink, Goto, RunPcs, LatchPcs, HoldingPcs, resolverVars
<1>8. ASSUME NEW v \in Resolvers, BeginResolve(v) PROVE TypeOK' /\ Remembered'
  BY <1>8 DEF BeginResolve, ResolverPcs, dirVars
<1>9. ASSUME NEW v \in Resolvers, SelectSource(v) PROVE TypeOK' /\ Remembered'
  BY <1>9 DEF SelectSource, ResolverPcs, dirVars
<1>18. ASSUME NEW v \in Resolvers, ReadSource(v) PROVE TypeOK' /\ Remembered'
  <2>1. Exists("unsafe") => [kind |-> "unsafe_stop", content |-> dir.unsafe] \in Source
    BY DEF Exists, Source, Directory
  <2>2. Exists("active") =>
          [kind |-> "orphaned_active_run", content |-> dir.active] \in Source
    BY DEF Exists, Source, Directory
  <2>3. QED
    BY <1>18, <2>1, <2>2 DEF ReadSource, ReadBlocking, ResolverPcs, dirVars
<1>10. ASSUME NEW v \in Resolvers, FindResolution(v) PROVE TypeOK' /\ Remembered'
  BY <1>10 DEF FindResolution, ResolverPcs, dirVars
<1>11. ASSUME NEW v \in Resolvers, RecordResolution(v) PROVE TypeOK' /\ Remembered'
  <2>1. Artifact(v) \in [source: Source, request: Requests]
    BY <1>11 DEF RecordResolution, Artifact
  <2>2. QED
    BY <1>11, <2>1 DEF RecordResolution, ResolverPcs, dirVars
<1>12. ASSUME NEW v \in Resolvers, ResolveUnlinkActive(v) PROVE TypeOK' /\ Remembered'
  <2>1. DirTypeOK'
    BY <1>12, UnlinkType DEF ResolveUnlinkActive
  <2>2. QED
    BY <1>12, <2>1 DEF ResolveUnlinkActive, ResolverPcs
<1>13. ASSUME NEW v \in Resolvers, ResolveUnlinkUnsafe(v) PROVE TypeOK' /\ Remembered'
  <2>1. DirTypeOK'
    BY <1>13, UnlinkType DEF ResolveUnlinkUnsafe
  <2>2. QED
    BY <1>13, <2>1 DEF ResolveUnlinkUnsafe, ResolverPcs
<1>14. ASSUME NEW v \in Resolvers, CrashResolver(v) PROVE TypeOK' /\ Remembered'
  BY <1>14 DEF CrashResolver, ResolverPcs, dirVars
<1>15. CASE LosePower
  BY <1>15 DEF LosePower, RunPcs, LatchPcs, ResolverPcs
<1>16. CASE UNCHANGED vars
  BY <1>16 DEF vars
<1>17. QED
  BY <1>1, <1>2, <1>3, <1>4, <1>5, <1>6, <1>7, <1>8, <1>9, <1>10, <1>11,
     <1>12, <1>13, <1>14, <1>15, <1>16, <1>18 DEF Next, RunStep, ResolverStep

\* Every variable stays within its type: the directory never holds anything but
\* leases and latches, in memory and on disk.
THEOREM TypeCorrect == Spec => []TypeOK
<1>1. Init => TypeOK /\ Remembered
  BY InitType
<1>2. TypeOK /\ Remembered /\ [Next]_vars => (TypeOK /\ Remembered)'
  BY NextType
<1>3. QED
  BY <1>1, <1>2, PTL DEF Spec

-----------------------------------------------------------------------------
(* How a step moves the processes *)

\* The steps of a run that touch neither the directory nor the session
ControlStep(r) ==
  \/ CheckUnsafe(r) \/ CheckActive(r) \/ SetUpOutput(r)
  \/ StopBeforeRF(r) \/ ReadLease(r) \/ MarkCheckUnsafe(r) \/ MarkCheckActive(r)
  \/ CleanUpNothing(r) \/ ReleaseCheckUnsafe(r) \/ ReleaseCheckActive(r)
  \/ LatchCheckUnsafe(r) \/ LatchQuoteLease(r) \/ LatchConfirm(r)

\* The steps, sorted by what they change.
LEMMA NextCases ==
  ASSUME Next
  PROVE  \/ \E r \in Runs :
              \/ ControlStep(r) \/ CreateLease(r) \/ ReplaceLease(r)
              \/ CleanUpSession(r) \/ ReleaseUnlink(r) \/ LatchCreate(r)
              \/ LatchUnlink(r) \/ CrashRun(r)
         \/ \E v \in Resolvers :
              \/ BeginResolve(v) \/ SelectSource(v) \/ ReadSource(v) \/ FindResolution(v)
              \/ RecordResolution(v) \/ ResolveUnlinkActive(v)
              \/ ResolveUnlinkUnsafe(v) \/ CrashResolver(v)
         \/ LosePower
BY DEF Next, RunStep, ResolverStep, ControlStep

\* A control step reads; it changes neither a file nor a session.
LEMMA ControlFrame ==
  ASSUME TypeOK, NEW r \in Runs, ControlStep(r)
  PROVE  /\ UNCHANGED <<dir, persisted, session, acknowledged, vpc>>
         /\ \A q \in Runs : q # r => pc'[q] = pc[q] /\ seen'[q] = seen[q]
         /\ pc[r] \notin {"rf", "done", "crashed"}
         /\ pc'[r] \notin {"rf", "crashed"}
         /\ pc'[r] \in HoldingPcs => pc[r] \in HoldingPcs
BY DEF ControlStep, CheckUnsafe, CheckActive, SetUpOutput, StopBeforeRF,
     ReadLease, MarkCheckUnsafe, MarkCheckActive, CleanUpNothing,
     ReleaseCheckUnsafe, ReleaseCheckActive, LatchCheckUnsafe, LatchQuoteLease, LatchConfirm, Goto,
     HoldingPcs, dirVars, resolverVars, TypeOK

\* No session becomes uncertain but one that was open, and no run holds a lease
\* that it did not hold or has not just created.
LEMMA Grows ==
  ASSUME TypeOK, SessionFollowsPc, [Next]_vars
  PROVE  \A r \in Runs :
           /\ r \in Unresolved' => r \in Unresolved \/ pc[r] = "rf"
           /\ pc'[r] \in HoldingPcs => pc[r] \in HoldingPcs \/ CreateLease(r)
<1> USE DEF TypeOK, Unresolved, Uncertain
<1>1. CASE UNCHANGED vars
  BY <1>1 DEF vars
<1>2. ASSUME NEW q \in Runs, ControlStep(q)
      PROVE  \A r \in Runs :
               /\ r \in Unresolved' => r \in Unresolved \/ pc[r] = "rf"
               /\ pc'[r] \in HoldingPcs => pc[r] \in HoldingPcs \/ CreateLease(r)
  BY <1>2, ControlFrame
<1>3. ASSUME NEW q \in Runs,
             \/ CreateLease(q) \/ ReplaceLease(q) \/ CleanUpSession(q)
             \/ ReleaseUnlink(q) \/ LatchCreate(q) \/ LatchUnlink(q) \/ CrashRun(q)
      PROVE  \A r \in Runs :
               /\ r \in Unresolved' => r \in Unresolved \/ pc[r] = "rf"
               /\ pc'[r] \in HoldingPcs => pc[r] \in HoldingPcs \/ CreateLease(r)
  <2>1. CASE CreateLease(q)
    BY <2>1 DEF CreateLease, Goto, HoldingPcs, resolverVars
  <2>2. CASE ReplaceLease(q)
    BY <2>2 DEF ReplaceLease, Goto, HoldingPcs, resolverVars
  <2>3. CASE CleanUpSession(q)
    BY <2>3 DEF CleanUpSession, Goto, HoldingPcs, resolverVars
  <2>4. CASE ReleaseUnlink(q)
    BY <2>4 DEF ReleaseUnlink, Goto, HoldingPcs, resolverVars
  <2>5. CASE LatchCreate(q) \/ LatchUnlink(q)
    BY <2>5 DEF LatchCreate, LatchUnlink, Goto, HoldingPcs, resolverVars
  <2>6. CASE CrashRun(q)
    BY <2>6 DEF CrashRun, Goto, HoldingPcs, resolverVars, SessionFollowsPc, Alive
  <2>7. QED
    BY <1>3, <2>1, <2>2, <2>3, <2>4, <2>5, <2>6
<1>4. ASSUME NEW v \in Resolvers,
             \/ BeginResolve(v) \/ SelectSource(v) \/ ReadSource(v) \/ FindResolution(v)
             \/ RecordResolution(v) \/ ResolveUnlinkActive(v)
             \/ ResolveUnlinkUnsafe(v) \/ CrashResolver(v)
      PROVE  \A r \in Runs :
               /\ r \in Unresolved' => r \in Unresolved \/ pc[r] = "rf"
               /\ pc'[r] \in HoldingPcs => pc[r] \in HoldingPcs \/ CreateLease(r)
  BY <1>4 DEF BeginResolve, SelectSource, ReadSource, ReadBlocking, FindResolution, RecordResolution,
       ResolveUnlinkActive, ResolveUnlinkUnsafe, CrashResolver
<1>5. CASE LosePower
  BY <1>5 DEF LosePower, HoldingPcs, SessionFollowsPc, Alive
<1>6. QED
  BY <1>1, <1>2, <1>3, <1>4, <1>5, NextCases

-----------------------------------------------------------------------------
(* The parts of the inductive invariant *)

\* A session is open exactly where the code holds it open, at every step.
LEMMA SessionStep ==
  ASSUME TypeOK, SessionFollowsPc, [Next]_vars
  PROVE  SessionFollowsPc'
<1> USE DEF TypeOK, SessionFollowsPc, LatchPcs
<1>1. CASE UNCHANGED vars
  BY <1>1 DEF vars
<1>2. ASSUME NEW q \in Runs, ControlStep(q)
      PROVE  SessionFollowsPc'
  BY <1>2 DEF ControlStep, CheckUnsafe, CheckActive, SetUpOutput, StopBeforeRF,
     ReadLease, MarkCheckUnsafe, MarkCheckActive, CleanUpNothing,
     ReleaseCheckUnsafe, ReleaseCheckActive, LatchCheckUnsafe, LatchQuoteLease, LatchConfirm, Goto
<1>3. ASSUME NEW q \in Runs,
             \/ CreateLease(q) \/ ReplaceLease(q) \/ CleanUpSession(q)
             \/ ReleaseUnlink(q) \/ LatchCreate(q) \/ LatchUnlink(q) \/ CrashRun(q)
      PROVE  SessionFollowsPc'
  <2>1. CASE CreateLease(q)
    BY <2>1 DEF CreateLease, Goto
  <2>2. CASE ReplaceLease(q)
    BY <2>2 DEF ReplaceLease, Goto
  <2>3. CASE CleanUpSession(q)
    BY <2>3 DEF CleanUpSession, Goto
  <2>4. CASE ReleaseUnlink(q)
    BY <2>4 DEF ReleaseUnlink, Goto
  <2>5. CASE LatchCreate(q) \/ LatchUnlink(q)
    BY <2>5 DEF LatchCreate, LatchUnlink, Goto
  <2>6. CASE CrashRun(q)
    BY <2>6 DEF CrashRun, Goto, Alive
  <2>7. QED
    BY <1>3, <2>1, <2>2, <2>3, <2>4, <2>5, <2>6
<1>4. ASSUME NEW v \in Resolvers,
             \/ BeginResolve(v) \/ SelectSource(v) \/ ReadSource(v) \/ FindResolution(v)
             \/ RecordResolution(v) \/ ResolveUnlinkActive(v)
             \/ ResolveUnlinkUnsafe(v) \/ CrashResolver(v)
      PROVE  SessionFollowsPc'
  BY <1>4 DEF BeginResolve, SelectSource, ReadSource, ReadBlocking, FindResolution, RecordResolution,
       ResolveUnlinkActive, ResolveUnlinkUnsafe, CrashResolver
<1>5. CASE LosePower
  BY <1>5 DEF LosePower, Alive
<1>6. QED
  BY <1>1, <1>2, <1>3, <1>4, <1>5, NextCases

\* The lease that a run has read stays its own until the run uses it.
LEMMA SeenStep ==
  ASSUME TypeOK, Remembered, HolderCovered, SeenIsOwn, RecoveryIsQuiet,
         OperatorWaits, [Next]_vars
  PROVE  SeenIsOwn'
<1> USE DEF TypeOK, SeenIsOwn
<1>1. CASE UNCHANGED vars
  BY <1>1 DEF vars
<1>2. ASSUME NEW q \in Runs, ControlStep(q)
      PROVE  SeenIsOwn'
  <2>1. CASE ReadLease(q)
    <3>1. Exists("active") => dir.unsafe # NoFile \/ dir.active.owner = q
      BY <2>1 DEF ReadLease, HolderCovered, HoldingPcs, Covered, LeaseOf
    <3>2. QED
      BY <2>1, <3>1 DEF ReadLease, Goto, dirVars
  <2>2. CASE MarkCheckUnsafe(q)
    BY <2>2 DEF MarkCheckUnsafe, Goto, Exists, dirVars
  <2>3. CASE ~ReadLease(q) /\ ~MarkCheckUnsafe(q)
    BY <1>2, <2>3 DEF ControlStep, CheckUnsafe, CheckActive, SetUpOutput,
       StopBeforeRF, MarkCheckActive, CleanUpNothing,
       ReleaseCheckUnsafe, ReleaseCheckActive, LatchCheckUnsafe, LatchQuoteLease, LatchConfirm, Goto, dirVars
  <2>4. QED
    BY <2>1, <2>2, <2>3
<1>3. ASSUME NEW q \in Runs,
             \/ CreateLease(q) \/ ReplaceLease(q) \/ CleanUpSession(q)
             \/ ReleaseUnlink(q) \/ LatchCreate(q) \/ LatchUnlink(q) \/ CrashRun(q)
      PROVE  SeenIsOwn'
  <2>1. seen' = seen
    BY <1>3 DEF CreateLease, ReplaceLease, CleanUpSession, ReleaseUnlink,
         LatchCreate, LatchUnlink, CrashRun
  <2>2. dir.unsafe # NoFile => dir'.unsafe # NoFile
    BY <1>3, DirWriteEffect, UnlinkEffect, InterlockAssumption
       DEF CreateLease, ReplaceLease, CleanUpSession, ReleaseUnlink,
         LatchCreate, LatchUnlink, CrashRun, Directory, dirVars
  <2>3. \A r \in Runs : pc'[r] \in {"markUnsafe", "markActive", "replace"}
                          => pc'[r] = pc[r]
    BY <1>3 DEF CreateLease, ReplaceLease, CleanUpSession, ReleaseUnlink,
         LatchCreate, LatchUnlink, CrashRun, Goto
  <2>4. QED
    BY <2>1, <2>2, <2>3
<1>4. ASSUME NEW v \in Resolvers,
             \/ BeginResolve(v) \/ SelectSource(v) \/ ReadSource(v) \/ FindResolution(v)
             \/ RecordResolution(v) \/ CrashResolver(v)
      PROVE  SeenIsOwn'
  BY <1>4 DEF BeginResolve, SelectSource, ReadSource, ReadBlocking, FindResolution, RecordResolution,
       CrashResolver, dirVars
<1>5. ASSUME NEW v \in Resolvers,
             ResolveUnlinkActive(v) \/ ResolveUnlinkUnsafe(v)
      PROVE  SeenIsOwn'
  <2>1. \A r \in Runs : ~Alive(r)
    BY <1>5 DEF RecoveryIsQuiet, Resolving, ResolveUnlinkActive, ResolveUnlinkUnsafe
  <2>2. QED
    BY <1>5, <2>1 DEF Alive, ResolveUnlinkActive, ResolveUnlinkUnsafe
<1>6. CASE LosePower
  BY <1>6 DEF LosePower, Alive
<1>7. QED
  BY <1>1, <1>2, <1>3, <1>4, <1>5, <1>6, NextCases

\* The lease of a run that holds it, or the latch, is at its path throughout:
\* the paths are cleared by the run itself, behind the latch, or while no run
\* is about.
LEMMA CoveredStep ==
  ASSUME TypeOK, Remembered, SessionFollowsPc, HolderCovered, SeenIsOwn,
         LatchConfirmed, RecoveryIsQuiet, OperatorWaits, [Next]_vars
  PROVE  HolderCovered'
<1> USE DEF TypeOK
<1> SUFFICES ASSUME NEW r \in Runs, (pc[r] \in HoldingPcs \/ r \in Unresolved)',
                    NEW d \in persisted'
             PROVE  Covered(d, r)
  BY DEF HolderCovered, Covered, LeaseOf
<1>1. CASE UNCHANGED vars
  BY <1>1 DEF vars, HolderCovered, Unresolved, Uncertain
<1>2. ASSUME NEW q \in Runs, CreateLease(q)
      PROVE  Covered(d, r)
  <2>1. CASE r = q
    <3>1. r \notin Unresolved'
      BY <1>2, <2>1 DEF CreateLease, Goto, Unresolved, Uncertain, SessionFollowsPc,
        resolverVars
    <3>2. pc'[r] = "setup" /\ ~Exists("active")
      BY <1>2, <2>1, <3>1 DEF CreateLease, Goto, HoldingPcs
    <3>3. DirWrite("active", [owner |-> r, rf |-> FALSE], "synced")
      BY <1>2, <2>1, <3>2 DEF CreateLease, Goto
    <3>4. d = [dir EXCEPT !["active"] = [owner |-> r, rf |-> FALSE]]
      BY <3>3, DirWriteEffect
    <3>5. [owner |-> r, rf |-> FALSE] # NoFile
      <4>1. [owner |-> r, rf |-> FALSE] \in [owner: Runs, rf: BOOLEAN]
        OBVIOUS
      <4>2. QED
        BY <4>1, InterlockAssumption
    <3>6. QED
      BY <3>4, <3>5 DEF Covered, LeaseOf, Directory
  <2>2. CASE r # q
    <3>1. pc[r] \in HoldingPcs \/ r \in Unresolved
      BY <1>2, <2>2 DEF CreateLease, Goto, Unresolved, Uncertain, resolverVars
    <3>2. \A e \in persisted : Covered(e, r)
      BY <3>1 DEF HolderCovered
    <3>3. CASE Exists("active")
      BY <1>2, <3>2, <3>3 DEF CreateLease, dirVars
    <3>4. CASE ~Exists("active")
      <4>1. dir.unsafe # NoFile
        BY <3>2, <3>4 DEF Covered, LeaseOf, Exists
      <4>2. d \in persisted \/
            d = [dir EXCEPT !["active"] = [owner |-> q, rf |-> FALSE]]
        BY <1>2, <3>4, DirWriteEffect DEF CreateLease
      <4>3. QED
        BY <3>2, <4>1, <4>2 DEF Covered, Directory
    <3>5. QED
      BY <3>3, <3>4
  <2>3. QED
    BY <2>1, <2>2
\* Every other step: r was covered before, and the contents written cover it too
<1>3. ASSUME ~\E q \in Runs : CreateLease(q)
      PROVE  /\ pc[r] \in HoldingPcs \/ r \in Unresolved
             /\ \A e \in persisted : Covered(e, r)
  <2>1. pc[r] \in HoldingPcs \/ r \in Unresolved
    BY <1>3, Grows DEF HoldingPcs
  <2>2. QED
    BY <2>1 DEF HolderCovered
<1>4. ASSUME NEW q \in Runs, ReplaceLease(q), ~CreateLease(r),
             \A e \in persisted : Covered(e, r)
      PROVE  Covered(d, r)
  <2> DEFINE new == [dir EXCEPT !["active"] = [seen[q] EXCEPT !.rf = TRUE]]
  <2>1. d \in persisted \/ d = new
    BY <1>4, DirWriteEffect DEF ReplaceLease
  <2>2. Covered(dir, q)
    BY <1>4 DEF ReplaceLease, HolderCovered, HoldingPcs
  <2>3. seen[q] \in Lease /\ seen[q].owner = q
    BY <1>4 DEF ReplaceLease, Remembered, SeenIsOwn
  <2>4. [seen[q] EXCEPT !.rf = TRUE] # NoFile
    BY <2>3, InterlockAssumption DEF Lease
  <2>5. CASE dir.unsafe # NoFile
    BY <1>4, <2>1, <2>5 DEF Covered, Directory
  <2>6. CASE dir.unsafe = NoFile
    <3>1. r = q
      BY <1>4, <2>2, <2>6 DEF Covered, LeaseOf
    <3>2. new.active # NoFile /\ new.active.owner = r
      BY <2>3, <2>4, <3>1 DEF Directory, Lease
    <3>3. QED
      BY <1>4, <2>1, <3>2 DEF Covered, LeaseOf
  <2>7. QED
    BY <2>5, <2>6
<1>5. ASSUME NEW q \in Runs, ReleaseUnlink(q),
             \A e \in persisted : Covered(e, r)
      PROVE  Covered(d, r)
  <2>1. d \in persisted \/ d = [dir EXCEPT !["active"] = NoFile]
    BY <1>5, UnlinkEffect DEF ReleaseUnlink
  <2>2. CASE dir.unsafe # NoFile
    BY <1>5, <2>1, <2>2 DEF Covered, Directory
  <2>3. CASE dir.unsafe = NoFile
    <3>1. pc[q] \in HoldingPcs
      BY <1>5 DEF ReleaseUnlink, HoldingPcs
    <3>2. Covered(dir, q)
      BY <3>1 DEF HolderCovered
    <3>3. r = q
      BY <1>5, <2>3, <3>2 DEF Covered, LeaseOf
    <3>4. pc'[r] \in {"done", "latch"} /\ r \notin Unresolved'
      BY <1>5, <3>3 DEF ReleaseUnlink, Goto, Unresolved, Uncertain,
         SessionFollowsPc, LatchPcs, resolverVars
    <3>5. QED
      BY <3>4 DEF HoldingPcs
  <2>4. QED
    BY <2>2, <2>3
<1>6. ASSUME NEW q \in Runs, LatchCreate(q) \/ LatchUnlink(q),
             \A e \in persisted : Covered(e, r)
      PROVE  Covered(d, r)
  <2>1. CASE LatchCreate(q)
    <3>1. d \in persisted \/ d = [dir EXCEPT !["unsafe"] = q]
      BY <2>1, DirWriteEffect DEF LatchCreate, dirVars
    <3>2. QED
      BY <1>6, <3>1, InterlockAssumption DEF Covered, Directory
  <2>2. CASE LatchUnlink(q)
    <3>1. dir.unsafe # NoFile
      BY <2>2 DEF LatchUnlink, LatchConfirmed
    <3>2. d \in persisted \/ d = [dir EXCEPT !["active"] = NoFile]
      BY <2>2, UnlinkEffect DEF LatchUnlink
    <3>3. QED
      BY <1>6, <3>1, <3>2 DEF Covered, Directory
  <2>3. QED
    BY <1>6, <2>1, <2>2
<1>7. ASSUME NEW v \in Resolvers,
             ResolveUnlinkActive(v) \/ ResolveUnlinkUnsafe(v),
             pc[r] \in HoldingPcs \/ r \in Unresolved
      PROVE  FALSE
  <2>1. Resolving(v)
    BY <1>7 DEF ResolveUnlinkActive, ResolveUnlinkUnsafe, Resolving
  <2>2. QED
    BY <1>7, <2>1 DEF RecoveryIsQuiet, Alive, HoldingPcs
<1>8. ASSUME \/ \E q \in Runs : ControlStep(q) \/ CleanUpSession(q) \/ CrashRun(q)
             \/ \E v \in Resolvers :
                  \/ BeginResolve(v) \/ SelectSource(v) \/ ReadSource(v) \/ FindResolution(v)
                  \/ RecordResolution(v) \/ CrashResolver(v)
             \/ LosePower
      PROVE  d \in persisted
  BY <1>8, ControlFrame DEF CleanUpSession, CrashRun, BeginResolve, SelectSource, ReadSource, ReadBlocking,
     FindResolution, RecordResolution, CrashResolver, LosePower, dirVars
<1>9. QED
  BY <1>1, <1>2, <1>3, <1>4, <1>5, <1>6, <1>7, <1>8, NextCases

\* A latch that a run has seen stays until the run has removed its lease.
LEMMA LatchStep ==
  ASSUME TypeOK, LatchConfirmed, RecoveryIsQuiet, OperatorWaits, [Next]_vars
  PROVE  LatchConfirmed'
<1> USE DEF TypeOK, LatchConfirmed
<1>1. CASE UNCHANGED vars
  BY <1>1 DEF vars
<1>2. ASSUME NEW q \in Runs, ControlStep(q)
      PROVE  LatchConfirmed'
  BY <1>2, ControlFrame DEF ControlStep, CheckUnsafe, CheckActive, SetUpOutput,
     StopBeforeRF, ReadLease, MarkCheckUnsafe, MarkCheckActive, CleanUpNothing,
     ReleaseCheckUnsafe, ReleaseCheckActive, LatchCheckUnsafe, LatchQuoteLease,
     LatchConfirm, Goto, Exists
<1>3. ASSUME NEW q \in Runs,
             \/ CreateLease(q) \/ ReplaceLease(q) \/ CleanUpSession(q)
             \/ ReleaseUnlink(q) \/ LatchCreate(q) \/ LatchUnlink(q) \/ CrashRun(q)
      PROVE  LatchConfirmed'
  <2>1. dir.unsafe # NoFile => dir'.unsafe # NoFile
    BY <1>3, DirWriteEffect, UnlinkEffect, InterlockAssumption
       DEF CreateLease, ReplaceLease, CleanUpSession, ReleaseUnlink,
         LatchCreate, LatchUnlink, CrashRun, Directory, dirVars
  <2>2. \A r \in Runs : pc'[r] = "latchUnlink" => pc'[r] = pc[r]
    BY <1>3 DEF CreateLease, ReplaceLease, CleanUpSession, ReleaseUnlink,
         LatchCreate, LatchUnlink, CrashRun, Goto
  <2>3. QED
    BY <2>1, <2>2
<1>4. ASSUME NEW v \in Resolvers,
             \/ BeginResolve(v) \/ SelectSource(v) \/ ReadSource(v)
             \/ FindResolution(v) \/ RecordResolution(v) \/ CrashResolver(v)
      PROVE  LatchConfirmed'
  BY <1>4 DEF BeginResolve, SelectSource, ReadSource, FindResolution,
     RecordResolution, CrashResolver, dirVars
<1>5. ASSUME NEW v \in Resolvers,
             ResolveUnlinkActive(v) \/ ResolveUnlinkUnsafe(v)
      PROVE  LatchConfirmed'
  <2>1. \A r \in Runs : ~Alive(r)
    BY <1>5 DEF RecoveryIsQuiet, Resolving, ResolveUnlinkActive, ResolveUnlinkUnsafe
  <2>2. QED
    BY <1>5, <2>1 DEF Alive, ResolveUnlinkActive, ResolveUnlinkUnsafe
<1>6. CASE LosePower
  BY <1>6 DEF LosePower, Alive
<1>7. QED
  BY <1>1, <1>2, <1>3, <1>4, <1>5, <1>6, NextCases

\* Only the second look at the latch lets a run in.
LEMMA EnteringGrows ==
  ASSUME TypeOK, [Next]_vars, NEW r \in Runs, pc'[r] \in EnteringPcs
  PROVE  pc[r] \in EnteringPcs \/ MarkCheckUnsafe(r)
<1> USE DEF TypeOK, EnteringPcs
<1>1. CASE UNCHANGED vars
  BY <1>1 DEF vars
<1>2. ASSUME NEW q \in Runs, ControlStep(q)
      PROVE  pc[r] \in EnteringPcs \/ MarkCheckUnsafe(r)
  BY <1>2 DEF ControlStep, CheckUnsafe, CheckActive, SetUpOutput, StopBeforeRF,
     ReadLease, MarkCheckUnsafe, MarkCheckActive, CleanUpNothing,
     ReleaseCheckUnsafe, ReleaseCheckActive, LatchCheckUnsafe, LatchQuoteLease, LatchConfirm, Goto
<1>3. ASSUME NEW q \in Runs,
             \/ CreateLease(q) \/ ReplaceLease(q) \/ CleanUpSession(q)
             \/ ReleaseUnlink(q) \/ LatchCreate(q) \/ LatchUnlink(q) \/ CrashRun(q)
      PROVE  pc[r] \in EnteringPcs
  BY <1>3 DEF CreateLease, ReplaceLease, CleanUpSession, ReleaseUnlink,
       LatchCreate, LatchUnlink, CrashRun, Goto
<1>4. ASSUME NEW v \in Resolvers,
             \/ BeginResolve(v) \/ SelectSource(v) \/ ReadSource(v) \/ FindResolution(v)
             \/ RecordResolution(v) \/ ResolveUnlinkActive(v)
             \/ ResolveUnlinkUnsafe(v) \/ CrashResolver(v)
      PROVE  pc[r] \in EnteringPcs
  BY <1>4 DEF BeginResolve, SelectSource, ReadSource, ReadBlocking, FindResolution, RecordResolution,
       ResolveUnlinkActive, ResolveUnlinkUnsafe, CrashResolver
<1>5. CASE LosePower
  BY <1>5 DEF LosePower
<1>6. QED
  BY <1>1, <1>2, <1>3, <1>4, <1>5, NextCases

\* A run that passes its second look at the latch finds its own lease at the
\* path, and so no run that has entered and none whose session is uncertain.
LEMMA EnteringFindsNobody ==
  ASSUME TypeOK, SessionFollowsPc, HolderCovered,
         NEW r \in Runs, MarkCheckUnsafe(r), pc'[r] \in EnteringPcs
  PROVE  /\ \A q \in Runs : pc[q] \in EnteringPcs => q = r
         /\ Unresolved = {}
<1> USE DEF TypeOK
<1>1. pc[r] = "markUnsafe" /\ dir.unsafe = NoFile
  BY DEF MarkCheckUnsafe, Goto, Exists, EnteringPcs
<1>2. LeaseOf(dir, r)
  BY <1>1 DEF HolderCovered, HoldingPcs, Covered
<1>3. \A q \in Runs : pc[q] \in EnteringPcs \/ q \in Unresolved => q = r
  BY <1>1, <1>2 DEF HolderCovered, HoldingPcs, EnteringPcs, Covered, LeaseOf
<1>4. r \notin Unresolved
  BY <1>1 DEF SessionFollowsPc, Unresolved, Uncertain
<1>5. QED
  BY <1>3, <1>4 DEF Unresolved

\* A second run does not get past the latch and the lease of the first.
LEMMA AloneStep ==
  ASSUME TypeOK, SessionFollowsPc, HolderCovered, EntersAlone, [Next]_vars
  PROVE  EntersAlone'
<1> USE DEF TypeOK
<1> SUFFICES ASSUME NEW r \in Runs, pc'[r] \in EnteringPcs
             PROVE  /\ \A q \in Runs : pc'[q] \in EnteringPcs => q = r
                    /\ Unresolved' = {}
  BY DEF EntersAlone
<1>1. /\ \A q \in Runs : pc[q] \in EnteringPcs => q = r
      /\ Unresolved = {}
  BY EnteringGrows, EnteringFindsNobody DEF EntersAlone
<1>2. ASSUME NEW q \in Runs, pc'[q] \in EnteringPcs
      PROVE  q = r
  <2>1. CASE pc[q] \in EnteringPcs
    BY <1>1, <2>1
  <2>2. CASE MarkCheckUnsafe(q) /\ pc[q] \notin EnteringPcs
    <3>1. CASE pc[r] \in EnteringPcs
      BY <1>2, <2>2, <3>1, EnteringFindsNobody
    <3>2. CASE MarkCheckUnsafe(r) /\ pc[r] \notin EnteringPcs
      BY <1>2, <2>2, <3>2 DEF MarkCheckUnsafe, Goto
    <3>3. QED
      BY <3>1, <3>2, EnteringGrows
  <2>3. QED
    BY <1>2, <2>1, <2>2, EnteringGrows
<1>3. ASSUME NEW q \in Runs, q \in Unresolved'
      PROVE  FALSE
  <2>1. pc[q] = "rf"
    BY <1>1, <1>3, Grows
  <2>2. q = r
    BY <1>1, <2>1 DEF EnteringPcs
  <2>3. SessionFollowsPc'
    BY SessionStep
  <2>4. QED
    BY <1>3, <2>2, <2>3 DEF SessionFollowsPc, Unresolved, Uncertain, EnteringPcs
<1>4. QED
  BY <1>2, <1>3 DEF Unresolved

\* While the recovery tool runs, nothing else does and nothing is left to review.
LEMMA QuietStep ==
  ASSUME TypeOK, RecoveryIsQuiet, OperatorWaits, [Next]_vars
  PROVE  RecoveryIsQuiet'
<1> USE DEF TypeOK
<1> SUFFICES ASSUME NEW v \in Resolvers, Resolving(v)'
             PROVE  /\ \A r \in Runs : ~Alive(r)'
                    /\ \A u \in Resolvers : Resolving(u)' => u = v
                    /\ Unresolved' = {}
  BY DEF RecoveryIsQuiet
<1>1. CASE UNCHANGED vars
  BY <1>1 DEF vars, RecoveryIsQuiet, Resolving, Alive, Unresolved, Uncertain
<1>2. ASSUME NEW q \in Runs,
             \/ ControlStep(q) \/ CreateLease(q) \/ ReplaceLease(q)
             \/ CleanUpSession(q) \/ ReleaseUnlink(q) \/ LatchCreate(q)
             \/ LatchUnlink(q) \/ CrashRun(q)
      PROVE  FALSE
  <2>1. Resolving(v) /\ ~Alive(q)
    BY <1>2, ControlFrame DEF CreateLease, ReplaceLease, CleanUpSession,
       ReleaseUnlink, LatchCreate, LatchUnlink, CrashRun, resolverVars,
       RecoveryIsQuiet, Resolving
  <2>2. CheckUnsafe(q)
    BY <1>2, <2>1 DEF Alive, ControlStep, CheckActive, SetUpOutput, StopBeforeRF,
       ReadLease, MarkCheckUnsafe, MarkCheckActive, CleanUpNothing,
       ReleaseCheckUnsafe, ReleaseCheckActive, LatchCheckUnsafe, LatchQuoteLease, LatchConfirm, CreateLease,
       ReplaceLease, CleanUpSession, ReleaseUnlink, LatchCreate, LatchUnlink,
       CrashRun
  <2>3. QED
    BY <2>1, <2>2 DEF CheckUnsafe, OperatorMayStart
<1>3. ASSUME NEW u \in Resolvers, BeginResolve(u)
      PROVE  /\ \A r \in Runs : ~Alive(r)'
             /\ \A w \in Resolvers : Resolving(w)' => w = v
             /\ Unresolved' = {}
  <2>1. \A w \in Resolvers : ~Resolving(w)
    BY <1>3 DEF BeginResolve, OperatorMayResolve, OperatorMayStart
  <2>2. \A w \in Resolvers : w # u => ~Resolving(w)'
    BY <1>3, <2>1 DEF BeginResolve, Resolving
  <2>3. \A r \in Runs : ~Alive(r)'
    BY <1>3 DEF BeginResolve, OperatorMayResolve, Alive
  <2>4. Unresolved' = {}
    BY <1>3 DEF BeginResolve, Unresolved, Uncertain
  <2>5. QED
    BY <2>2, <2>3, <2>4
<1>4. ASSUME NEW u \in Resolvers,
             \/ SelectSource(u) \/ ReadSource(u) \/ FindResolution(u)
             \/ RecordResolution(u) \/ ResolveUnlinkActive(u)
             \/ ResolveUnlinkUnsafe(u) \/ CrashResolver(u)
      PROVE  /\ \A r \in Runs : ~Alive(r)'
             /\ \A w \in Resolvers : Resolving(w)' => w = v
             /\ Unresolved' = {}
  <2>1. UNCHANGED <<pc, session, acknowledged>>
    BY <1>4 DEF SelectSource, ReadSource, ReadBlocking, FindResolution, RecordResolution,
       ResolveUnlinkActive, ResolveUnlinkUnsafe, CrashResolver
  <2>2. Resolving(u) /\ \A w \in Resolvers : w # u => vpc'[w] = vpc[w]
    BY <1>4 DEF SelectSource, ReadSource, ReadBlocking, FindResolution, RecordResolution,
       ResolveUnlinkActive, ResolveUnlinkUnsafe, CrashResolver, Resolving
  <2>3. QED
    BY <2>1, <2>2 DEF RecoveryIsQuiet, Resolving, Alive, Unresolved, Uncertain
<1>5. CASE LosePower
  BY <1>5 DEF LosePower, Resolving
<1>6. QED
  BY <1>1, <1>2, <1>3, <1>4, <1>5, NextCases

\* The mark is on the lease before the session, and stays there.
LEMMA MarkStep ==
  ASSUME TypeOK, Remembered, SessionFollowsPc, LeaseTellsOfRF, [Next]_vars
  PROVE  LeaseTellsOfRF'
<1> USE DEF TypeOK
<1> SUFFICES ASSUME NEW r \in Runs, session'[r] # "none", NEW d \in persisted',
                    d.active # NoFile, d.active.owner = r
             PROVE  d.active.rf
  BY DEF LeaseTellsOfRF
<1>1. ASSUME d \in persisted, session[r] # "none"
      PROVE  d.active.rf
  BY <1>1 DEF LeaseTellsOfRF
<1>2. CASE UNCHANGED vars
  BY <1>1, <1>2 DEF vars
<1>3. ASSUME NEW q \in Runs, CreateLease(q)
      PROVE  d.active.rf
  <2>1. session[q] = "none" /\ session' = session
    BY <1>3 DEF CreateLease, SessionFollowsPc
  <2>2. d \in persisted \/ d = [dir EXCEPT !["active"] = [owner |-> q, rf |-> FALSE]]
    BY <1>3, DirWriteEffect DEF CreateLease, dirVars
  <2>3. QED
    BY <1>1, <2>1, <2>2 DEF Directory
<1>4. ASSUME NEW q \in Runs, ReplaceLease(q)
      PROVE  d.active.rf
  <2>1. seen[q] \in Lease
    BY <1>4 DEF ReplaceLease, Remembered
  <2>2. PICK outcome \in Outcomes :
           /\ DirWrite("active", [seen[q] EXCEPT !.rf = TRUE], outcome)
           /\ outcome # "synced" => session' = session
    BY <1>4 DEF ReplaceLease
  <2>3. CASE d = [dir EXCEPT !["active"] = [seen[q] EXCEPT !.rf = TRUE]]
    BY <2>1, <2>3 DEF Directory, Lease
  <2>4. CASE d # [dir EXCEPT !["active"] = [seen[q] EXCEPT !.rf = TRUE]]
    BY <1>1, <2>2, <2>4, DirWriteEffect
  <2>5. QED
    BY <2>3, <2>4
<1>5. ASSUME NEW q \in Runs, CleanUpSession(q)
      PROVE  d.active.rf
  BY <1>1, <1>5 DEF CleanUpSession, SessionFollowsPc, dirVars
<1>6. ASSUME NEW q \in Runs, LatchCreate(q)
      PROVE  d.active.rf
  <2>1. d \in persisted \/ d = [dir EXCEPT !["unsafe"] = q]
    BY <1>6, DirWriteEffect DEF LatchCreate, dirVars
  <2>2. session' = session
    BY <1>6 DEF LatchCreate
  <2>3. QED
    BY <1>1, <2>1, <2>2 DEF LeaseTellsOfRF, Directory
<1>7. ASSUME NEW file \in {"active", "unsafe"}, NEW outcome,
             UnlinkDurable(file, outcome), session' = session
      PROVE  d.active.rf
  <2>1. d \in persisted \/ d = [dir EXCEPT ![file] = NoFile]
    BY <1>7, UnlinkEffect
  <2>2. QED
    BY <1>1, <1>7, <2>1 DEF LeaseTellsOfRF, Directory
<1>8. ASSUME NEW q \in Runs, ReleaseUnlink(q) \/ LatchUnlink(q)
      PROVE  d.active.rf
  BY <1>1, <1>7, <1>8 DEF ReleaseUnlink, LatchUnlink, dirVars
<1>9. ASSUME NEW v \in Resolvers, ResolveUnlinkActive(v) \/ ResolveUnlinkUnsafe(v)
      PROVE  d.active.rf
  BY <1>7, <1>9 DEF ResolveUnlinkActive, ResolveUnlinkUnsafe
<1>10. ASSUME \/ \E q \in Runs : ControlStep(q) \/ CrashRun(q)
              \/ \E v \in Resolvers :
                   \/ BeginResolve(v) \/ SelectSource(v) \/ ReadSource(v) \/ FindResolution(v)
                   \/ RecordResolution(v) \/ CrashResolver(v)
              \/ LosePower
      PROVE  d.active.rf
  <2>1. d \in persisted /\ session' = session
    BY <1>10, ControlFrame DEF CrashRun, BeginResolve, SelectSource, ReadSource, ReadBlocking,
       FindResolution, RecordResolution, CrashResolver, LosePower, dirVars
  <2>2. QED
    BY <1>1, <2>1
<1>11. QED
  BY <1>2, <1>3, <1>4, <1>5, <1>6, <1>8, <1>9, <1>10, NextCases

-----------------------------------------------------------------------------
(* The theorems *)

\* The invariant holds before the first run.
LEMMA InitInv == Init => InterlockInv
BY InitType DEF InterlockInv, Init, TypeOK, SessionFollowsPc, HolderCovered,
   SeenIsOwn, LatchConfirmed, EntersAlone, RecoveryIsQuiet, LeaseTellsOfRF, HoldingPcs,
   EnteringPcs, Unresolved, Uncertain, Resolving

\* Under the operator's discipline every step keeps the invariant.
LEMMA NextInv == OperatorWaits /\ InterlockInv /\ [Next]_vars => InterlockInv'
<1> SUFFICES ASSUME OperatorWaits, InterlockInv, [Next]_vars
             PROVE  InterlockInv'
  OBVIOUS
<1>1. TypeOK' /\ Remembered'
  BY NextType DEF InterlockInv
<1>2. SessionFollowsPc'
  BY SessionStep DEF InterlockInv
<1>3. HolderCovered'
  BY CoveredStep DEF InterlockInv
<1>4. SeenIsOwn'
  BY SeenStep DEF InterlockInv
<1>9. LatchConfirmed'
  BY LatchStep DEF InterlockInv
<1>5. EntersAlone'
  BY AloneStep DEF InterlockInv
<1>6. RecoveryIsQuiet'
  BY QuietStep DEF InterlockInv
<1>7. LeaseTellsOfRF'
  BY MarkStep DEF InterlockInv
<1>8. QED
  BY <1>1, <1>2, <1>3, <1>4, <1>5, <1>6, <1>7, <1>9 DEF InterlockInv

\* What the invariant implies.
LEMMA InvProperties ==
  InterlockInv => OneSessionAtATime /\ UncertainStaysBlocked /\ LeaseTellsOfRF
<1> SUFFICES ASSUME InterlockInv
             PROVE  OneSessionAtATime /\ UncertainStaysBlocked
  BY DEF InterlockInv
<1> USE DEF InterlockInv
<1>1. \A r \in Runs : Open(r) => pc[r] = "rf"
  BY DEF Open, Alive, SessionFollowsPc
<1>2. OneSessionAtATime
  BY <1>1 DEF OneSessionAtATime, EntersAlone, EnteringPcs
<1>3. UncertainStaysBlocked
  BY <1>1 DEF UncertainStaysBlocked, HolderCovered, HoldingPcs, Covered, LeaseOf,
     Blocks
<1>4. QED
  BY <1>2, <1>3

\* No two executors ever have a BLE session at once, whatever crashes or fails,
\* provided the operator starts nothing while the recovery tool runs.
THEOREM MutualExclusion ==
  ASSUME OperatorWaits
  PROVE  Spec => []OneSessionAtATime
<1>1. InterlockInv /\ [Next]_vars => InterlockInv'
  BY NextInv
<1>2. QED
  BY <1>1, InitInv, InvProperties, PTL DEF Spec

\* An open session, and one that ended uncertain and unreviewed, keeps the
\* interlock closed, across crashes and power losses too.
THEOREM UncertainBlocks ==
  ASSUME OperatorWaits
  PROVE  Spec => []UncertainStaysBlocked
<1>1. InterlockInv /\ [Next]_vars => InterlockInv'
  BY NextInv
<1>2. QED
  BY <1>1, InitInv, InvProperties, PTL DEF Spec

\* A lease left on disk by a run that used RF is marked so.
THEOREM LeaseIsMarked ==
  ASSUME OperatorWaits
  PROVE  Spec => []LeaseTellsOfRF
<1>1. InterlockInv /\ [Next]_vars => InterlockInv'
  BY NextInv
<1>2. QED
  BY <1>1, InitInv, InvProperties, PTL DEF Spec

-----------------------------------------------------------------------------
(* The recovery tool clears what it has recorded *)

\* One blocking file is acknowledged by one request, also when several tools race
\* for it: only a source that has no artifact yet gets one.
THEOREM OneRequest == Spec => []OneRequestPerSource
<1>1. Init => OneRequestPerSource
  BY DEF Init, OneRequestPerSource
<1>2. ASSUME OneRequestPerSource, [Next]_vars PROVE OneRequestPerSource'
  <2>1. ASSUME NEW v \in Resolvers, RecordResolution(v) PROVE OneRequestPerSource'
    <3>1. CASE resolutions' = resolutions
      BY <1>2, <3>1 DEF OneRequestPerSource
    <3>2. CASE /\ \A a \in resolutions : a.source # vsource[v]
               /\ resolutions' = resolutions \cup {Artifact(v)}
      <4>1. Artifact(v).source = vsource[v]
        BY DEF Artifact
      <4>2. QED
        BY <1>2, <3>2, <4>1 DEF OneRequestPerSource
    <3>3. QED
      BY <2>1, <3>1, <3>2 DEF RecordResolution, RecordOf
  <2>2. CASE resolutions' = resolutions
    BY <1>2, <2>2 DEF OneRequestPerSource
  <2>3. (\A v \in Resolvers : ~RecordResolution(v)) => resolutions' = resolutions
    <3>1. CASE UNCHANGED vars
      BY <3>1 DEF vars
    <3>2. ASSUME NEW r \in Runs,
                 \/ ControlStep(r) \/ CreateLease(r) \/ ReplaceLease(r)
                 \/ CleanUpSession(r) \/ ReleaseUnlink(r) \/ LatchCreate(r)
                 \/ LatchUnlink(r) \/ CrashRun(r)
          PROVE  resolutions' = resolutions
      BY <3>2 DEF ControlStep, CheckUnsafe, CheckActive, SetUpOutput, StopBeforeRF,
         ReadLease, MarkCheckUnsafe, MarkCheckActive, CleanUpNothing,
         ReleaseCheckUnsafe, ReleaseCheckActive, LatchCheckUnsafe, LatchQuoteLease,
         LatchConfirm, CreateLease, ReplaceLease, CleanUpSession, ReleaseUnlink,
         LatchCreate, LatchUnlink, CrashRun, resolverVars
    <3>3. ASSUME NEW v \in Resolvers,
                 \/ BeginResolve(v) \/ SelectSource(v) \/ ReadSource(v)
                 \/ FindResolution(v) \/ ResolveUnlinkActive(v)
                 \/ ResolveUnlinkUnsafe(v) \/ CrashResolver(v)
          PROVE  resolutions' = resolutions
      BY <3>3 DEF BeginResolve, SelectSource, ReadSource, ReadBlocking, FindResolution,
         ResolveUnlinkActive, ResolveUnlinkUnsafe, CrashResolver
    <3>4. CASE LosePower
      BY <3>4 DEF LosePower
    <3>5. QED
      BY <1>2, <3>1, <3>2, <3>3, <3>4, NextCases
  <2>4. QED
    BY <2>1, <2>2, <2>3
<1>3. QED
  BY <1>1, <1>2, PTL DEF Spec

ActingPcs == {"find", "record", "unlinkActive", "unlinkUnsafe"}

\* What the recovery tool goes on to clear is what it has read, and recorded
\* before it clears it: nothing else runs meanwhile.
ActsOnWhatItRead ==
  \A v \in Resolvers :
    /\ vpc[v] \in {"selectActive", "readActive"} => dir.unsafe = NoFile
    /\ vpc[v] \in ActingPcs =>
         \/ /\ dir.unsafe # NoFile
            /\ vsource[v] = [kind |-> "unsafe_stop", content |-> dir.unsafe]
         \/ /\ dir.unsafe = NoFile
            /\ \/ vsource[v] = [kind |-> "orphaned_active_run", content |-> dir.active]
               \/ vpc[v] = "unlinkUnsafe"
    /\ vpc[v] \in {"unlinkActive", "unlinkUnsafe"} => RecordOf(vsource[v]) # {}

\* Every step keeps that; it takes the quiet that the operator keeps meanwhile.
LEMMA ActingStep ==
  ASSUME TypeOK, RecoveryIsQuiet, RecoveryIsQuiet', ActsOnWhatItRead, OperatorWaits,
         [Next]_vars
  PROVE  ActsOnWhatItRead'
<1> USE DEF TypeOK
<1> SUFFICES ASSUME NEW v \in Resolvers, Resolving(v)'
             PROVE  /\ vpc'[v] \in {"selectActive", "readActive"} => dir'.unsafe = NoFile
                    /\ vpc'[v] \in ActingPcs =>
                         \/ /\ dir'.unsafe # NoFile
                            /\ vsource'[v] = [kind |-> "unsafe_stop", content |-> dir'.unsafe]
                         \/ /\ dir'.unsafe = NoFile
                            /\ \/ vsource'[v] = [kind |-> "orphaned_active_run",
                                                 content |-> dir'.active]
                               \/ vpc'[v] = "unlinkUnsafe"
                    /\ vpc'[v] \in {"unlinkActive", "unlinkUnsafe"} => RecordOf(vsource[v])' # {}
  BY DEF ActsOnWhatItRead, Resolving, ActingPcs
<1> USE DEF ActsOnWhatItRead, ActingPcs
<1>1. CASE UNCHANGED vars
  BY <1>1 DEF vars, RecordOf
<1>2. ASSUME NEW q \in Runs,
             \/ ControlStep(q) \/ CreateLease(q) \/ ReplaceLease(q)
             \/ CleanUpSession(q) \/ ReleaseUnlink(q) \/ LatchCreate(q)
             \/ LatchUnlink(q) \/ CrashRun(q)
      PROVE  FALSE
  <2>1. Resolving(v) /\ ~Alive(q)
    BY <1>2, ControlFrame DEF CreateLease, ReplaceLease, CleanUpSession,
       ReleaseUnlink, LatchCreate, LatchUnlink, CrashRun, resolverVars,
       RecoveryIsQuiet, Resolving
  <2>2. CheckUnsafe(q)
    BY <1>2, <2>1 DEF Alive, ControlStep, CheckActive, SetUpOutput, StopBeforeRF,
       ReadLease, MarkCheckUnsafe, MarkCheckActive, CleanUpNothing,
       ReleaseCheckUnsafe, ReleaseCheckActive, LatchCheckUnsafe, LatchQuoteLease,
       LatchConfirm, CreateLease, ReplaceLease, CleanUpSession, ReleaseUnlink,
       LatchCreate, LatchUnlink, CrashRun
  <2>3. QED
    BY <2>1, <2>2 DEF CheckUnsafe, OperatorMayStart
<1>3. ASSUME NEW u \in Resolvers, u # v,
             \/ BeginResolve(u) \/ SelectSource(u) \/ ReadSource(u) \/ FindResolution(u)
             \/ RecordResolution(u) \/ ResolveUnlinkActive(u)
             \/ ResolveUnlinkUnsafe(u) \/ CrashResolver(u)
      PROVE  FALSE
  <2>1. vpc'[v] = vpc[v]
    BY <1>3 DEF BeginResolve, SelectSource, ReadSource, ReadBlocking, FindResolution,
       RecordResolution, ResolveUnlinkActive, ResolveUnlinkUnsafe, CrashResolver
  <2>2. Resolving(v)
    BY <2>1 DEF Resolving
  <2>3. Resolving(u) \/ BeginResolve(u)
    BY <1>3 DEF SelectSource, ReadSource, FindResolution, RecordResolution,
       ResolveUnlinkActive, ResolveUnlinkUnsafe, CrashResolver, Resolving
  <2>4. QED
    BY <1>3, <2>2, <2>3
    DEF RecoveryIsQuiet, BeginResolve, OperatorMayResolve, OperatorMayStart
<1>4. CASE BeginResolve(v)
  BY <1>4 DEF BeginResolve
<1>5. CASE SelectSource(v)
  BY <1>5 DEF SelectSource, Exists, dirVars
<1>6. CASE ReadSource(v)
  BY <1>6 DEF ReadSource, ReadBlocking, Exists, dirVars
<1>7. ASSUME UNCHANGED <<dir, vsource>>, vpc[v] \in {"find", "record"},
             vpc'[v] \in {"record", "done"} \/ Artifact(v) \in resolutions'
      PROVE  vpc'[v] # "done" => RecordOf(vsource[v])' # {} \/ vpc'[v] = "record"
  BY <1>7 DEF Artifact, RecordOf
<1>8. CASE FindResolution(v)
  <2>1. UNCHANGED <<dir, vsource>> /\ vpc[v] = "find"
        /\ vpc'[v] \in {"record", "unlinkActive", "done"}
        /\ (vpc'[v] = "unlinkActive" => Artifact(v) \in resolutions')
    BY <1>8 DEF FindResolution, dirVars
  <2>2. vpc'[v] = "unlinkActive" => RecordOf(vsource[v])' # {}
    BY <2>1, <1>7
  <2>3. QED
    BY <2>1, <2>2
<1>9. CASE RecordResolution(v)
  <2>1. UNCHANGED <<dir, vsource>> /\ vpc[v] = "record" /\ vpc'[v] \in {"unlinkActive", "done"}
        /\ (vpc'[v] = "unlinkActive" => Artifact(v) \in resolutions')
    BY <1>9 DEF RecordResolution, dirVars
  <2>2. vpc'[v] = "unlinkActive" => RecordOf(vsource[v])' # {}
    BY <2>1, <1>7
  <2>3. QED
    BY <2>1, <2>2
<1>10. CASE ResolveUnlinkActive(v)
  <2>1. PICK outcome \in Outcomes :
          /\ UnlinkDurable("active", outcome)
          /\ vpc' = [vpc EXCEPT ![v] = IF outcome = "synced" THEN "unlinkUnsafe" ELSE "done"]
    BY <1>10 DEF ResolveUnlinkActive
  <2>2. dir'.unsafe = dir.unsafe
    BY <2>1, UnlinkEffect DEF Directory
  <2>3. UNCHANGED <<resolutions, vsource>> /\ vpc[v] = "unlinkActive"
        /\ vpc'[v] \in {"unlinkUnsafe", "done"}
    BY <1>10 DEF ResolveUnlinkActive
  <2>4. RecordOf(vsource[v])' # {}
    BY <2>3 DEF RecordOf
  <2>5. QED
    BY <2>2, <2>3, <2>4
<1>11. CASE ResolveUnlinkUnsafe(v) \/ CrashResolver(v)
  BY <1>11 DEF ResolveUnlinkUnsafe, CrashResolver, Resolving
<1>12. CASE LosePower
  BY <1>12 DEF LosePower, Resolving
<1>13. QED
  BY <1>1, <1>2, <1>3, <1>4, <1>5, <1>6, <1>8, <1>9, <1>10, <1>11, <1>12, NextCases

\* The owner of the lease that a run gives back has no session left open.
LEMMA ReleaseIsSafe ==
  ASSUME InterlockInv, NEW r \in Runs, ReleaseUnlink(r),
         dir.active # NoFile, dir'.active = NoFile
  PROVE  /\ dir'.unsafe = dir.unsafe
         /\ dir'.unsafe # NoFile \/ session[dir.active.owner] \in {"none", "closed"}
<1> USE DEF InterlockInv, TypeOK
<1>1. pc[r] \in {"relUnlink", "setupRelUnlink"}
  BY DEF ReleaseUnlink
<1>2. dir'.unsafe = dir.unsafe
  BY UnlinkEffect DEF ReleaseUnlink, Directory
<1>3. dir.unsafe # NoFile \/ dir.active.owner = r
  BY <1>1 DEF HolderCovered, HoldingPcs, Covered, LeaseOf
<1>4. session[r] \in {"none", "closed"}
  BY <1>1 DEF SessionFollowsPc, LatchPcs
<1>5. QED
  BY <1>2, <1>3, <1>4

\* A step that takes a latch or a lease away had a right to.
LEMMA ClearingStep ==
  ASSUME InterlockInv, ActsOnWhatItRead, [Next]_vars
  PROVE  /\ dir.unsafe # NoFile /\ dir'.unsafe # dir.unsafe =>
              \/ RecordOf([kind |-> "unsafe_stop", content |-> dir.unsafe]) # {}
              \/ LosePower
         /\ dir.active # NoFile /\ dir'.active = NoFile =>
              \/ LosePower
              \/ dir'.unsafe # NoFile
              \/ RecordOf([kind |-> "orphaned_active_run", content |-> dir.active]) # {}
              \/ session[dir.active.owner] \in {"none", "closed"}
<1> USE DEF InterlockInv, TypeOK
<1>1. CASE UNCHANGED vars
  BY <1>1 DEF vars
<1>2. ASSUME NEW r \in Runs, ControlStep(r) \/ CleanUpSession(r) \/ CrashRun(r)
      PROVE  UNCHANGED dir
  BY <1>2, ControlFrame DEF CleanUpSession, CrashRun, dirVars
<1>3. ASSUME NEW r \in Runs, CreateLease(r)
      PROVE  dir'.unsafe = dir.unsafe /\ (dir.active = NoFile \/ UNCHANGED dir)
  BY <1>3, DirWriteEffect DEF CreateLease, Exists, Directory, dirVars
<1>4. ASSUME NEW r \in Runs, ReplaceLease(r)
      PROVE  dir'.unsafe = dir.unsafe /\ (dir'.active # NoFile \/ UNCHANGED dir)
  <2>1. [seen[r] EXCEPT !.rf = TRUE] \in Lease
    BY <1>4 DEF ReplaceLease, Remembered, Lease
  <2>2. [seen[r] EXCEPT !.rf = TRUE] # NoFile
    BY <2>1, InterlockAssumption DEF Lease
  <2>3. dir' \in {dir, [dir EXCEPT !["active"] = [seen[r] EXCEPT !.rf = TRUE]]}
    BY <1>4, DirWriteEffect DEF ReplaceLease
  <2>4. QED
    BY <2>2, <2>3 DEF Directory
<1>5. ASSUME NEW r \in Runs, LatchCreate(r)
      PROVE  dir'.active = dir.active /\ (dir.unsafe = NoFile \/ UNCHANGED dir)
  BY <1>5, DirWriteEffect DEF LatchCreate, Exists, Directory, dirVars
<1>6. ASSUME NEW r \in Runs, LatchUnlink(r)
      PROVE  dir'.unsafe = dir.unsafe /\ dir.unsafe # NoFile
  BY <1>6, UnlinkEffect DEF LatchUnlink, LatchConfirmed, Directory
<1>7. ASSUME NEW r \in Runs, ReleaseUnlink(r)
      PROVE  dir'.unsafe = dir.unsafe
  BY <1>7, UnlinkEffect DEF ReleaseUnlink, Directory
<1>8. ASSUME NEW v \in Resolvers,
             \/ BeginResolve(v) \/ SelectSource(v) \/ ReadSource(v) \/ FindResolution(v)
             \/ RecordResolution(v) \/ CrashResolver(v)
      PROVE  UNCHANGED dir
  BY <1>8 DEF BeginResolve, SelectSource, ReadSource, FindResolution, RecordResolution,
     CrashResolver, dirVars
<1>9. ASSUME NEW v \in Resolvers, ResolveUnlinkActive(v)
      PROVE  /\ dir'.unsafe = dir.unsafe
             /\ \/ dir.unsafe # NoFile
                \/ RecordOf([kind |-> "orphaned_active_run", content |-> dir.active]) # {}
  <2>1. dir'.unsafe = dir.unsafe
    BY <1>9, UnlinkEffect DEF ResolveUnlinkActive, Directory
  <2>2. vpc[v] = "unlinkActive"
    BY <1>9 DEF ResolveUnlinkActive
  <2>3. QED
    BY <2>1, <2>2 DEF ActsOnWhatItRead, ActingPcs
<1>10. ASSUME NEW v \in Resolvers, ResolveUnlinkUnsafe(v)
       PROVE  /\ dir'.active = dir.active
              /\ \/ dir.unsafe = NoFile
                 \/ RecordOf([kind |-> "unsafe_stop", content |-> dir.unsafe]) # {}
  <2>1. dir'.active = dir.active
    BY <1>10, UnlinkEffect DEF ResolveUnlinkUnsafe, Directory
  <2>2. vpc[v] = "unlinkUnsafe"
    BY <1>10 DEF ResolveUnlinkUnsafe
  <2>3. QED
    BY <2>1, <2>2 DEF ActsOnWhatItRead, ActingPcs
<1>11. QED
  <2> HIDE DEF InterlockInv, TypeOK
  <2>1. CASE LosePower
    BY <2>1
  <2>2. CASE UNCHANGED dir
    BY <2>2
  <2>3. ASSUME NEW r \in Runs,
               \/ CreateLease(r) \/ ReplaceLease(r) \/ LatchCreate(r) \/ LatchUnlink(r)
               \/ ReleaseUnlink(r)
        PROVE  /\ dir.unsafe # NoFile => dir'.unsafe = dir.unsafe
               /\ dir.active # NoFile /\ dir'.active = NoFile =>
                    \/ dir'.unsafe # NoFile
                    \/ session[dir.active.owner] \in {"none", "closed"}
    BY <2>3, <1>3, <1>4, <1>5, <1>6, <1>7, ReleaseIsSafe
  <2>4. ASSUME NEW v \in Resolvers, ResolveUnlinkActive(v) \/ ResolveUnlinkUnsafe(v)
        PROVE  /\ dir.unsafe # NoFile /\ dir'.unsafe # dir.unsafe =>
                    RecordOf([kind |-> "unsafe_stop", content |-> dir.unsafe]) # {}
               /\ dir.active # NoFile /\ dir'.active = NoFile =>
                    \/ dir'.unsafe # NoFile
                    \/ RecordOf([kind |-> "orphaned_active_run", content |-> dir.active]) # {}
    BY <2>4, <1>9, <1>10
  <2>5. UNCHANGED vars => UNCHANGED dir
    BY DEF vars
  <2>6. QED
    BY <2>1, <2>2, <2>3, <2>4, <2>5, <1>2, <1>8, NextCases

\* A latch leaves its path only when its recovery is recorded, a lease only when
\* nothing it stands for is left open or something else stands for it.
THEOREM ClearedSafely ==
  ASSUME OperatorWaits
  PROVE  Spec => BlockersClearedSafely
<1>1. Init => ActsOnWhatItRead
  BY DEF Init, ActsOnWhatItRead, ActingPcs
<1>2. InterlockInv /\ [Next]_vars => InterlockInv'
  BY NextInv
<1>3. InterlockInv /\ InterlockInv' /\ ActsOnWhatItRead /\ [Next]_vars => ActsOnWhatItRead'
  BY ActingStep DEF InterlockInv
<1>4. InterlockInv /\ ActsOnWhatItRead /\ [Next]_vars =>
        [/\ dir.unsafe # NoFile /\ dir'.unsafe # dir.unsafe =>
              \/ RecordOf([kind |-> "unsafe_stop", content |-> dir.unsafe]) # {}
              \/ LosePower
         /\ dir.active # NoFile /\ dir'.active = NoFile =>
              \/ LosePower
              \/ dir'.unsafe # NoFile
              \/ RecordOf([kind |-> "orphaned_active_run", content |-> dir.active]) # {}
              \/ session[dir.active.owner] \in {"none", "closed"}]_vars
  BY ClearingStep
<1>5. QED
  BY <1>1, <1>2, <1>3, <1>4, InitInv, PTL DEF Spec, BlockersClearedSafely

-----------------------------------------------------------------------------
(* Refinement *)

\* Open sessions are those of the runs at "rf".
LEMMA OpenIsRF ==
  ASSUME SessionFollowsPc
  PROVE  OpenRuns = {r \in Runs : pc[r] = "rf"}
BY DEF OpenRuns, Open, Alive, SessionFollowsPc

\* Every step of the protocol opens, closes, loses or reviews sessions as
\* ExclusiveUse allows, or does none of this.
LEMMA StepRefines ==
  ASSUME OperatorWaits, InterlockInv, InterlockInv', [Next]_vars
  PROVE  [Use!Next]_Use!vars
<1> USE DEF InterlockInv, TypeOK
<1> DEFINE Stutters == OpenRuns' = OpenRuns /\ Unresolved' = Unresolved
<1>0. /\ OpenRuns = {r \in Runs : pc[r] = "rf"}
      /\ OpenRuns' = {r \in Runs : pc'[r] = "rf"}
  BY OpenIsRF DEF OpenRuns, Open, Alive, SessionFollowsPc
<1>s. Stutters => [Use!Next]_Use!vars
  BY DEF Use!vars
<1>1. CASE UNCHANGED vars
  BY <1>1, <1>s, <1>0 DEF vars, Unresolved, Uncertain
<1>2. ASSUME NEW q \in Runs, ControlStep(q)
      PROVE  Stutters
  BY <1>0, <1>2, ControlFrame DEF Unresolved, Uncertain
<1>3. ASSUME NEW q \in Runs,
             \/ CreateLease(q) \/ ReleaseUnlink(q) \/ LatchCreate(q) \/ LatchUnlink(q)
      PROVE  Stutters
  <2>1. UNCHANGED <<session, acknowledged>>
    BY <1>3 DEF CreateLease, ReleaseUnlink, LatchCreate, LatchUnlink, resolverVars
  <2>2. /\ pc[q] \notin {"rf", "crashed"} /\ pc'[q] \notin {"rf", "crashed"}
        /\ \A r \in Runs : r # q => pc'[r] = pc[r]
    BY <1>3 DEF CreateLease, ReleaseUnlink, LatchCreate, LatchUnlink, Goto
  <2>3. QED
    BY <1>0, <2>1, <2>2 DEF Unresolved, Uncertain
<1>4. ASSUME NEW q \in Runs, ReplaceLease(q)
      PROVE  Stutters \/ Use!OpenSession(q)
  <2>1. OpenRuns = {} /\ Unresolved = {}
    BY <1>0, <1>4 DEF ReplaceLease, EntersAlone, EnteringPcs
  <2>2. Unresolved' = Unresolved
    <3>1. \A r \in Runs : Uncertain(r)' <=> Uncertain(r)
      BY <1>4 DEF ReplaceLease, Goto, Uncertain, SessionFollowsPc
    <3>2. QED
      BY <1>4, <3>1 DEF ReplaceLease, Unresolved, resolverVars
  <2>3. OpenRuns' = {} \/ OpenRuns' = {q}
    BY <1>0, <1>4, <2>1 DEF ReplaceLease, Goto
  <2>4. QED
    BY <2>1, <2>2, <2>3 DEF Use!OpenSession
<1>5. ASSUME NEW q \in Runs, CleanUpSession(q) \/ CrashRun(q)
      PROVE  Stutters \/ Use!CloseSession(q) \/ Use!LoseSession(q)
  <2>1. CASE CleanUpSession(q)
    <3>1. q \in OpenRuns /\ OpenRuns' = OpenRuns \ {q}
      BY <1>0, <2>1 DEF CleanUpSession, Goto
    <3>2. Unresolved' = Unresolved \/ Unresolved' = Unresolved \cup {q}
      <4>1. \A r \in Runs : r # q => (Uncertain(r)' <=> Uncertain(r))
        BY <2>1 DEF CleanUpSession, Goto, Uncertain
      <4>2. ~Uncertain(q)
        BY <2>1 DEF CleanUpSession, Uncertain, SessionFollowsPc
      <4>3. QED
        BY <2>1, <4>1, <4>2 DEF CleanUpSession, Unresolved, resolverVars
    <3>3. QED
      BY <3>1, <3>2 DEF Use!CloseSession, Use!LoseSession
  <2>2. CASE CrashRun(q) /\ pc[q] = "rf"
    <3>1. q \in OpenRuns /\ OpenRuns' = OpenRuns \ {q}
      BY <1>0, <2>2 DEF CrashRun, Goto
    <3>2. Unresolved' = Unresolved \/ Unresolved' = Unresolved \cup {q}
      BY <2>2 DEF CrashRun, Goto, Unresolved, Uncertain, resolverVars
    <3>3. QED
      BY <3>1, <3>2 DEF Use!CloseSession, Use!LoseSession
  <2>3. CASE CrashRun(q) /\ pc[q] # "rf"
    <3>1. session[q] # "open"
      BY <2>3 DEF CrashRun, Alive, SessionFollowsPc
    <3>2. QED
      BY <1>0, <2>3, <3>1 DEF CrashRun, Goto, Unresolved, Uncertain, resolverVars
  <2>4. QED
    BY <1>5, <2>1, <2>2, <2>3
<1>6. ASSUME NEW v \in Resolvers, BeginResolve(v)
      PROVE  Stutters \/ Use!Review
  <2>1. OpenRuns = {} /\ OpenRuns' = OpenRuns
    BY <1>6 DEF BeginResolve, OperatorMayResolve, OpenRuns, Open, Alive
  <2>2. Unresolved' = {}
    BY <1>6 DEF BeginResolve, Unresolved, Uncertain
  <2>3. QED
    BY <2>1, <2>2 DEF Use!Review
<1>7. ASSUME NEW v \in Resolvers,
             \/ SelectSource(v) \/ ReadSource(v) \/ FindResolution(v)
             \/ RecordResolution(v) \/ ResolveUnlinkActive(v)
             \/ ResolveUnlinkUnsafe(v) \/ CrashResolver(v)
      PROVE  Stutters
  BY <1>0, <1>7 DEF SelectSource, ReadSource, ReadBlocking, FindResolution, RecordResolution,
     ResolveUnlinkActive, ResolveUnlinkUnsafe, CrashResolver, Unresolved, Uncertain
<1>8. CASE LosePower
  <2>1. \A r \in Runs : pc'[r] # "rf" /\ (pc'[r] = pc[r] \/ pc'[r] = "crashed")
    BY <1>8 DEF LosePower, Alive
  <2>2. OpenRuns' = {}
    BY <1>0, <2>1
  <2>3. CASE OpenRuns = {}
    <3>1. \A r \in Runs : Uncertain(r)' <=> Uncertain(r)
      BY <1>0, <1>8, <2>3 DEF LosePower, Uncertain, SessionFollowsPc
    <3>2. Unresolved' = Unresolved
      BY <1>8, <3>1 DEF LosePower, Unresolved
    <3>3. QED
      BY <1>s, <2>2, <2>3, <3>2
  <2>4. ASSUME NEW q \in Runs, q \in OpenRuns
        PROVE  Use!LoseSession(q) \/ Use!CloseSession(q)
    <3>1. OpenRuns = {q}
      BY <1>0, <2>4 DEF EntersAlone, EnteringPcs
    <3>2. \A r \in Runs : r # q => (Uncertain(r)' <=> Uncertain(r))
      BY <1>0, <1>8, <3>1 DEF LosePower, Uncertain, SessionFollowsPc
    <3>3. Unresolved' = Unresolved \/ Unresolved' = Unresolved \cup {q}
      <4>1. \A r \in Runs : r # q => (r \in Unresolved' <=> r \in Unresolved)
        BY <1>8, <3>2 DEF LosePower, Unresolved
      <4>2. q \notin Unresolved
        BY <1>0, <2>4 DEF Unresolved, Uncertain, SessionFollowsPc
      <4>3. QED
        BY <4>1, <4>2 DEF Unresolved
    <3>4. QED
      BY <2>2, <2>4, <3>1, <3>3 DEF Use!LoseSession, Use!CloseSession
  <2>5. QED
    BY <2>3, <2>4 DEF Use!Next, OpenRuns
<1>9. QED
  BY <1>s, <1>1, <1>2, <1>3, <1>4, <1>5, <1>6, <1>7, <1>8, NextCases DEF Use!Next

\* The file protocol implements ExclusiveUse: one session at a time, none while
\* an uncertain one waits for review.
THEOREM Refinement ==
  ASSUME OperatorWaits
  PROVE  Spec => ExclusiveUseSpec
<1>1. Init => Use!Init
  BY DEF Init, Use!Init, OpenRuns, Open, Unresolved, Uncertain
<1>2. InterlockInv /\ [Next]_vars => InterlockInv'
  BY NextInv
<1>3. InterlockInv /\ InterlockInv' /\ [Next]_vars => [Use!Next]_Use!vars
  BY StepRefines
<1>4. QED
  BY <1>1, <1>2, <1>3, InitInv, PTL DEF Spec, ExclusiveUseSpec, Use!Spec
=============================================================================
