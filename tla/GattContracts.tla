------------------------------ MODULE GattContracts ------------------------------
(***************************************************************************)
(* The contracts of active GATT work, as predicates on documents:            *)
(* kamal/active_contracts.py validates authorizations and turns a request    *)
(* into a plan; kamal/gatt_executor.py verifies a plan with checks of its    *)
(* own, and kamal/result_semantics.py refuses some of what those let pass.   *)
(*                                                                           *)
(* A document is the record that is parsed of it; "shape" is FALSE for one   *)
(* with a field that is unknown, missing, repeated or of another type.  A    *)
(* SHA-256 stands for the document itself.  Selectors are left out: the peer *)
(* decides what they resolve to (_resolve_selector).                         *)
(***************************************************************************)
EXTENDS Integers, Sequences, FiniteSets

CONSTANT HardMax    \* HARD_MAX_*: [operations, payload, timeout, subscription]

ASSUME HardMaxAssumption ==
  HardMax \in [{"operations", "payload", "timeout", "subscription"} -> Nat]

Metadata == "enumerate_gatt_metadata"
Write == "write_characteristic"
Subscribe == "subscribe_notifications"
Typed == {"read_characteristic", "read_descriptor", Write, Subscribe}

-----------------------------------------------------------------------------
(* validate_authorization_scope *)

\* issued <= approved <= not_before < expires, and now is inside the window.
WindowValid(a, now) ==
  /\ a.issued <= a.approved /\ a.approved <= a.not_before /\ a.not_before < a.expires
  /\ a.not_before <= now /\ now < a.expires

ConstraintsValid(a) ==
  /\ a.max_operations \in 1..HardMax.operations
  /\ a.max_payload_bytes \in 0..HardMax.payload
  /\ a.max_timeout_seconds \in 1..HardMax.timeout
  /\ a.max_subscription_seconds \in 1..HardMax.subscription
  /\ a.allow_write_without_response => a.allow_writes
  /\ Write \in a.allowed_operations => a.allow_writes

\* A survey of all that is discovered reads metadata, and its targets are no
\* typed addresses.
SurveyScopeValid(a) ==
  a.survey_scope # "none" =>
    /\ a.survey_scope = "all_discovered"
    /\ a.allowed_operations = {Metadata}
    /\ ~a.allow_writes /\ ~a.allow_write_without_response
    /\ \A t \in a.targets : t.address_type = "unknown"

AuthorizationValid(a, now) ==
  /\ a.shape /\ WindowValid(a, now)
  /\ a.targets # {} /\ a.allowed_operations # {}
  /\ a.allowed_operations \subseteq Typed \cup {Metadata}
  /\ ConstraintsValid(a) /\ SurveyScopeValid(a)

\* validate_gatt_survey_authorization, for s = [policy_mode, acknowledged,
\* timeout, max_targets] and the addresses that are to be visited.
SurveyAuthorized(a, s, addresses, now) ==
  /\ AuthorizationValid(a, now) /\ Metadata \in a.allowed_operations
  /\ a.survey_scope # "none" => s.policy_mode = "all_discovered" /\ s.acknowledged
  /\ s.timeout \in 1..a.max_timeout_seconds
  /\ s.max_targets \in 1..a.max_operations /\ Cardinality(addresses) <= a.max_operations
  /\ a.survey_scope = "none" =>
       \A x \in addresses : [address |-> x, address_type |-> "unknown"] \in a.targets

-----------------------------------------------------------------------------
(* build_gatt_operation_plan *)

\* _normalize_operation: an operation has the fields of its class and no others.
OperationFits(op, a) ==
  /\ op.operation_type \in Typed \cap a.allowed_operations
  /\ op.target \in a.targets
  /\ op.timeout_seconds \in 1..a.max_timeout_seconds
  /\ IF op.operation_type = Write
     THEN /\ a.allow_writes /\ op.hex /\ op.payload_bytes <= a.max_payload_bytes
          /\ op.write_mode \in {"request", "command"}
          /\ op.write_mode = "command" => a.allow_write_without_response
     ELSE op.write_mode = "absent"
  /\ op.operation_type = Subscribe => op.duration_seconds \in 1..a.max_subscription_seconds

UniqueIds(ops) ==
  \A i, j \in 1..Len(ops) : ops[i].operation_id = ops[j].operation_id => i = j

CanPlan(a, request, now) ==
  /\ AuthorizationValid(a, now)
  /\ Len(request.operations) \in 1..a.max_operations
  /\ UniqueIds(request.operations)
  /\ \A i \in 1..Len(request.operations) : OperationFits(request.operations[i], a)

PlanOf(a, request) ==
  [authorization_ref |-> a.authorization_id, sha256 |-> a,
   operations |-> request.operations, status |-> "contract_only"]

-----------------------------------------------------------------------------
(* _verify_plan of the executor *)

\* Mutant of VerifiesOperation: whole limits are too much for it.
VerifiesOperationBelow(op, a) ==
  /\ op.operation_type \in Typed \cap a.allowed_operations
  /\ op.target \in a.targets
  /\ op.timeout_seconds \in 1..a.max_timeout_seconds
  /\ op.operation_type = Write =>
       /\ a.allow_writes /\ op.payload_bytes < a.max_payload_bytes
       /\ op.write_mode = "command" => a.allow_write_without_response
  /\ op.operation_type = Subscribe => op.duration_seconds \in 1..a.max_subscription_seconds

VerifiesOperation(op, a) ==
  /\ op.operation_type \in Typed \cap a.allowed_operations
  /\ op.target \in a.targets
  /\ op.timeout_seconds \in 1..a.max_timeout_seconds
  /\ op.operation_type = Write =>
       /\ a.allow_writes /\ op.payload_bytes <= a.max_payload_bytes
       /\ op.write_mode = "command" => a.allow_write_without_response
  /\ op.operation_type = Subscribe => op.duration_seconds \in 1..a.max_subscription_seconds

\* Mutant of VerifiesPlan: the authorization's name is enough.
VerifiesPlanByName(plan, a, now) ==
  /\ plan.status = "contract_only"
  /\ AuthorizationValid(a, now)
  /\ plan.authorization_ref = a.authorization_id
  /\ Len(plan.operations) \in 1..a.max_operations
  /\ UniqueIds(plan.operations)
  /\ \A i \in 1..Len(plan.operations) : VerifiesOperation(plan.operations[i], a)

VerifiesPlan(plan, a, now) ==
  /\ plan.status = "contract_only" /\ plan.sha256 = a
  /\ AuthorizationValid(a, now)
  /\ plan.authorization_ref = a.authorization_id
  /\ Len(plan.operations) \in 1..a.max_operations
  /\ UniqueIds(plan.operations)
  /\ \A i \in 1..Len(plan.operations) : VerifiesOperation(plan.operations[i], a)

\* build_initial_effect_semantics: an operation's record cannot be begun for a
\* write of another mode, or for another operation with one.
RecordCanBegin(op) ==
  IF op.operation_type = Write THEN op.write_mode \in {"request", "command"}
  ELSE op.write_mode = "absent"

\* bytes.fromhex, on the way to the request.
CanSend(op) == op.operation_type = Write => op.hex
=============================================================================
