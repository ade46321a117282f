---------------------------- MODULE PairingContracts ----------------------------
(***************************************************************************)
(* kamal/pairing_contracts.py: authorizations, requests and plans for        *)
(* pairing.  Documents and digests are abstracted as in GattContracts.       *)
(***************************************************************************)
EXTENDS Integers

CONSTANT HardMaxPairing    \* HARD_MAX_*: [discovery, pairing, disconnect]

Phases == {"discovery", "pairing", "disconnect"}
AgentModes == {"external_default", "no_input_no_output"}

ASSUME HardMaxPairingAssumption == HardMaxPairing \in [Phases -> Nat]

\* validate_pairing_authorization
PairingWindowValid(a, now) ==
  /\ a.issued <= a.approved /\ a.approved <= a.not_before /\ a.not_before < a.expires
  /\ a.not_before <= now /\ now < a.expires

PairingAuthorizationValid(a, now) ==
  /\ a.shape /\ PairingWindowValid(a, now)
  /\ a.target.address_type # "unknown"
  /\ a.allowed_operations \subseteq {"pair_target", "establish_bond"}
  /\ "pair_target" \in a.allowed_operations
  /\ a.max_attempts = 1
  /\ \A p \in Phases : a.max_seconds[p] \in 1..HardMaxPairing[p]
  /\ a.require_disconnect_after
  /\ a.agent_modes # {} /\ a.agent_modes \subseteq AgentModes

\* What plan and request have in common: one target, a bond, an agent, times.
PairingFits(r, a) ==
  /\ r.target = a.target
  /\ r.bond => "establish_bond" \in a.allowed_operations
  /\ r.agent_mode \in a.agent_modes
  /\ \A p \in Phases : r.seconds[p] \in 1..a.max_seconds[p]

\* build_pairing_plan
CanPlanPairing(a, request, now) == PairingAuthorizationValid(a, now) /\ PairingFits(request, a)

PairingPlanOf(a, request) ==
  [authorization_ref |-> a.authorization_id, sha256 |-> a, pair |-> TRUE,
   target |-> request.target, bond |-> request.bond, agent_mode |-> request.agent_mode,
   seconds |-> request.seconds, preconditions |-> a.preconditions,
   disconnect_after |-> TRUE]

\* validate_pairing_plan.  What it returns has every value of a plan that
\* passes, so "canonical" says no more of the values than it does.
VerifiesPairingPlan(plan, a, now) ==
  /\ PairingAuthorizationValid(a, now)
  /\ plan.authorization_ref = a.authorization_id /\ plan.sha256 = a
  /\ plan.pair /\ PairingFits(plan, a)
  /\ plan.preconditions = a.preconditions
  /\ plan.disconnect_after
=============================================================================
