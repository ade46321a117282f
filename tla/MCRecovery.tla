------------------------------- MODULE MCRecovery -------------------------------
(***************************************************************************)
(* Recovery that is killed and tried again, and recovery tools that race,   *)
(* in the same behaviours: the operator keeps no discipline, and a history   *)
(* variable tells the recoveries that nobody disturbed from the others.      *)
(***************************************************************************)
EXTENDS SafetyInterlock

VARIABLE disturbed   \* tools that ran while a run or another tool did

Disturb == disturbed' = disturbed \cup
  {v \in Resolvers : Resolving(v)' /\ \/ \E r \in Runs : Alive(r)'
                                      \/ \E u \in Resolvers \ {v} : Resolving(u)'}

RecoverySpec ==
  /\ Init /\ disturbed = {} /\ [][Next /\ Disturb]_<<vars, disturbed>>
  /\ Fairness

-----------------------------------------------------------------------------
(* Properties *)

\* "The same recovery artifact can be reused on retry" (gatt_safety.py:338): an
\* invocation that ends of itself and that nobody disturbed leaves nothing
\* blocking, also when an earlier one was killed half-way, unless what blocks was
\* recorded for another request (the file system works).
RetryFinishesRecovery ==
  [][\A v \in Resolvers :
       /\ vpc[v] # "done" /\ vpc'[v] = "done"
       /\ v \notin disturbed /\ RecordOf(vsource[v]) \subseteq {Artifact(v)}
       => ~Blocks(dir')]_vars

\* A run that took the lease gives it back or leaves the latch in its place,
\* unless it is killed; it never just forgets it (with a file system that works,
\* and no recovery tool that takes its latch away).
LeaseComesBack ==
  \A r \in Runs :
    (dir.active # NoFile /\ dir.active.owner = r)
      ~> \/ dir.active = NoFile \/ dir.active.owner # r \/ dir.unsafe # NoFile
         \/ pc[r] = "crashed" \/ disturbed # {}
=============================================================================
