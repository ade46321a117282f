----------------------------- MODULE ExclusiveUse -----------------------------
(***************************************************************************)
(* What the safety interlock promises, without files or processes: BLE     *)
(* sessions are opened one at a time, and once a session ends without its   *)
(* disconnection confirmed no other is opened before an operator has        *)
(* reviewed it.                                                            *)
(***************************************************************************)
CONSTANT Runs

VARIABLES
  open,        \* runs with a session under way
  unresolved   \* runs whose session ended unconfirmed, not yet reviewed

vars == <<open, unresolved>>

Init == open = {} /\ unresolved = {}

OpenSession(r) ==
  /\ open = {} /\ unresolved = {}
  /\ open' = {r}
  /\ UNCHANGED unresolved

\* Disconnection confirmed
CloseSession(r) ==
  /\ r \in open
  /\ open' = open \ {r}
  /\ UNCHANGED unresolved

\* Cleanup unconfirmed, or the process or the machine went down
LoseSession(r) ==
  /\ r \in open
  /\ open' = open \ {r}
  /\ unresolved' = unresolved \cup {r}

\* An operator reviews the targets, and never behind a running session's back
Review ==
  /\ open = {} /\ unresolved # {}
  /\ unresolved' = {}
  /\ UNCHANGED open

Next ==
  \/ \E r \in Runs : OpenSession(r) \/ CloseSession(r) \/ LoseSession(r)
  \/ Review

Spec == Init /\ [][Next]_vars
=============================================================================
