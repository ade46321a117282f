----------------------------- MODULE MCPlanLifecycle -----------------------------
EXTENDS PlanLifecycle

MCHardMax == [operations |-> 2, payload |-> 2, timeout |-> 2, subscription |-> 2]
MCHardMaxPairing == [p \in Phases |-> 2]

Target(x, type) == [address |-> x, address_type |-> type]

(* Authorizations: one that is valid from 1 to 3, and what differs from it in *)
(* one or two places, valid or not.                                            *)
GattBase ==
  [shape |-> TRUE, issued |-> 0, approved |-> 1, not_before |-> 1, expires |-> 3,
   authorization_id |-> "A", survey_scope |-> "none",
   targets |-> {Target("a", "public"), Target("b", "unknown")},
   allowed_operations |-> {"read_characteristic", Write, Subscribe, Metadata},
   max_operations |-> 2, max_payload_bytes |-> 1, max_timeout_seconds |-> 2,
   max_subscription_seconds |-> 1, allow_writes |-> TRUE, allow_write_without_response |-> FALSE]

GattAuthorizations ==
  { GattBase,
    [GattBase EXCEPT !.shape = FALSE], [GattBase EXCEPT !.expires = 2],
    [GattBase EXCEPT !.approved = 2], [GattBase EXCEPT !.authorization_id = "B"],
    [GattBase EXCEPT !.targets = {Target("a", "unknown"), Target("b", "public")}],
    [GattBase EXCEPT !.allowed_operations = {"read_characteristic"}, !.allow_writes = FALSE],
    [GattBase EXCEPT !.allow_writes = FALSE], [GattBase EXCEPT !.max_operations = 1],
    [GattBase EXCEPT !.max_operations = 3], [GattBase EXCEPT !.max_payload_bytes = 0],
    [GattBase EXCEPT !.allow_write_without_response = TRUE],
    [GattBase EXCEPT !.max_timeout_seconds = 1] }

SurveyBase ==
  [GattBase EXCEPT !.allowed_operations = {Metadata}, !.allow_writes = FALSE,
                   !.targets = {Target("a", "unknown")}]

SurveyAuthorizations ==
  { GattBase, SurveyBase, [SurveyBase EXCEPT !.survey_scope = "all_discovered"],
    [SurveyBase EXCEPT !.survey_scope = "all_discovered", !.max_operations = 1],
    [SurveyBase EXCEPT !.survey_scope = "not acknowledged"],
    [GattBase EXCEPT !.survey_scope = "all_discovered"],
    [SurveyBase EXCEPT !.targets = {Target("a", "public"), Target("b", "unknown")}] }

PairingBase ==
  [shape |-> TRUE, issued |-> 0, approved |-> 1, not_before |-> 1, expires |-> 3,
   authorization_id |-> "A", target |-> Target("a", "public"),
   allowed_operations |-> {"pair_target", "establish_bond"}, max_attempts |-> 1,
   max_seconds |-> [p \in Phases |-> 1], require_disconnect_after |-> TRUE,
   agent_modes |-> {"external_default"}, preconditions |-> {"unbonded"}]

PairingAuthorizations ==
  { PairingBase,
    [PairingBase EXCEPT !.shape = FALSE], [PairingBase EXCEPT !.expires = 2],
    [PairingBase EXCEPT !.authorization_id = "B"],
    [PairingBase EXCEPT !.target = Target("a", "random")],
    [PairingBase EXCEPT !.target = Target("a", "unknown")],
    [PairingBase EXCEPT !.allowed_operations = {"pair_target"}],
    [PairingBase EXCEPT !.allowed_operations = {"establish_bond"}],
    [PairingBase EXCEPT !.max_attempts = 2], [PairingBase EXCEPT !.agent_modes = AgentModes],
    [PairingBase EXCEPT !.require_disconnect_after = FALSE],
    [PairingBase EXCEPT !.preconditions = {}],
    [PairingBase EXCEPT !.max_seconds["pairing"] = 2],
    [PairingBase EXCEPT !.max_seconds["pairing"] = 3] }

MCAuthorizations ==
  [gatt |-> GattAuthorizations, pairing |-> PairingAuthorizations, survey |-> SurveyAuthorizations]

Read == [operation_id |-> "1", operation_type |-> "read_characteristic",
         target |-> Target("a", "public"), timeout_seconds |-> 2, hex |-> TRUE,
         payload_bytes |-> 0, write_mode |-> "absent", duration_seconds |-> 0]
WriteOf(mode) == [Read EXCEPT !.operation_type = Write, !.write_mode = mode, !.payload_bytes = 1,
                              !.operation_id = "2", !.timeout_seconds = 1]
Subscription == [Read EXCEPT !.operation_type = Subscribe, !.duration_seconds = 1,
                             !.target = Target("b", "unknown"), !.operation_id = "2"]

GattRequests ==
  { [operations |-> ops] : ops \in
      { <<>>, <<Read>>, <<Read, WriteOf("request")>>, <<Read, Read>>, <<Read, Subscription>>,
        <<WriteOf("command")>>, <<WriteOf("other")>>, <<[WriteOf("request") EXCEPT !.hex = FALSE]>>,
        <<[Read EXCEPT !.write_mode = "request"]>>,
        <<[Subscription EXCEPT !.duration_seconds = 2]>>,
        <<[WriteOf("request") EXCEPT !.payload_bytes = 2]>>,
        <<[Read EXCEPT !.operation_type = Metadata]>>, <<[Read EXCEPT !.timeout_seconds = 0]>>,
        <<Read, Subscription, [WriteOf("request") EXCEPT !.operation_id = "3"]>> } }

PairingRequest == [target |-> Target("a", "public"), bond |-> TRUE,
                   agent_mode |-> "external_default", seconds |-> [p \in Phases |-> 1]]
PairingRequests ==
  { PairingRequest, [PairingRequest EXCEPT !.bond = FALSE],
    [PairingRequest EXCEPT !.target = Target("a", "random")],
    [PairingRequest EXCEPT !.target = Target("a", "unknown")],
    [PairingRequest EXCEPT !.agent_mode = "no_input_no_output"],
    [PairingRequest EXCEPT !.seconds["pairing"] = 2] }

SurveyOptions ==
  { [policy_mode |-> m[1], acknowledged |-> m[2], allowlist |-> l, timeout |-> t, max_targets |-> n] :
      m \in {<<"allowlist", FALSE>>, <<"all_discovered", TRUE>>},
      l \in {{"a"}, {"a", "b"}}, t \in {1, 3}, n \in {1, 2} }

MCRequests == [gatt |-> GattRequests, pairing |-> PairingRequests, survey |-> SurveyOptions]

MCReviews ==
  { [s \in {} |-> NotAssessed],
    [s \in {"state_change"} |-> [state |-> "observed", evidence |-> {"e"}]],
    [s \in {"security_effect"} |-> [state |-> "validated", evidence |-> {}]] }
=============================================================================
