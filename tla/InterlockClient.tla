---------------------------- MODULE InterlockClient ----------------------------
(***************************************************************************)
(* What the safety interlock relies on in an executor that holds the lease: *)
(* the order of its calls to kamal/gatt_safety.py.  A session is opened at  *)
(* most once per lease, the lease is offered back only when no session is   *)
(* left open, and an unconfirmed end goes to the latch.                     *)
(***************************************************************************)
VARIABLES
  stage,    \* leased, rf (mark_rf_started returned), releasing, latching, over
  session   \* none, open, closed, unconfirmed

vars == <<stage, session>>

Init == stage = "leased" /\ session = "none"

\* Nothing was sent: the lease goes back; after a failed set-up, without
\* looking at what the release says.
GiveUp ==
  /\ stage = "leased" /\ stage' \in {"releasing", "over"}
  /\ UNCHANGED session

\* mark_rf_started returned
StartRF ==
  /\ stage = "leased" /\ stage' = "rf"
  /\ session' = "open"

EndConfirmed ==
  /\ stage = "rf" /\ stage' = "releasing"
  /\ session' = "closed"

EndUnconfirmed ==
  /\ stage = "rf" /\ stage' = "latching"
  /\ session' = "unconfirmed"

\* release_active_run raised: the executor latches, or gives up
ReleaseFails ==
  /\ stage = "releasing" /\ stage' = "latching"
  /\ UNCHANGED session

\* The last call has returned or raised; nothing follows it.
Finish ==
  /\ stage \in {"releasing", "latching"} /\ stage' = "over"
  /\ UNCHANGED session

Next ==
  \/ GiveUp \/ StartRF \/ EndConfirmed \/ EndUnconfirmed
  \/ ReleaseFails \/ Finish

Spec == Init /\ [][Next]_vars

\* The client ends, or is ended, before its last call: the lease stays.
Abandon ==
  /\ stage # "over" /\ stage' = "over"
  /\ session' = IF session = "open" THEN "unconfirmed" ELSE session

AbandoningSpec == Init /\ [][Next \/ Abandon]_vars
=============================================================================
