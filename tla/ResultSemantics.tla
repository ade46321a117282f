----------------------------- MODULE ResultSemantics -----------------------------
(***************************************************************************)
(* kamal/result_semantics.py: what an operation's record may claim at five   *)
(* layers, and how an analyst's review adds to the upper three.              *)
(***************************************************************************)
EXTENDS Integers

Stages == {"application_acknowledgment", "state_change", "security_effect"}

\* The states a stage can be given, by the executor never and by a review always.
Assessments(stage) ==
  IF stage = "security_effect" THEN {"candidate", "validated", "refuted"}
  ELSE {"observed", "not_observed"}

NotAssessed == [state |-> "not_assessed", evidence |-> {}]

\* build_initial_effect_semantics
Baseline(op) ==
  [transport |-> "not_attempted", protocol |-> "not_observed",
   response_expected |-> IF op.operation_type # "write_characteristic" THEN "null"
                        ELSE IF op.write_mode = "request" THEN "yes" ELSE "no",
   stages |-> [s \in Stages |-> NotAssessed]]

\* Mutant of Succeeded: a write is a write.
SucceededByClass(semantics, op, count) ==
  [semantics EXCEPT
    !.transport = "succeeded",
    !.protocol = CASE op.operation_type \in {"read_characteristic", "read_descriptor"} -> "value_received"
                   [] op.operation_type = "write_characteristic" -> "write_request_completed"
                   [] OTHER -> IF count > 0 THEN "notification_received"
                               ELSE "subscription_completed",
    !.response_expected = IF op.operation_type = "subscribe_notifications" THEN "null" ELSE "yes"]

\* mark_executor_success
Succeeded(semantics, op, count) ==
  [semantics EXCEPT
    !.transport = "succeeded",
    !.protocol = CASE op.operation_type \in {"read_characteristic", "read_descriptor"} -> "value_received"
                   [] op.write_mode = "request" -> "write_request_completed"
                   [] op.write_mode = "command" -> "write_command_submitted"
                   [] OTHER -> IF count > 0 THEN "notification_received"
                               ELSE "subscription_completed",
    !.response_expected = CASE op.operation_type = "subscribe_notifications" -> "null"
                            [] op.write_mode = "command" -> "no"
                            [] OTHER -> "yes"]

\* mark_executor_failure
Failed(semantics) == [semantics EXCEPT !.transport = "failed", !.protocol = "failed"]

\* validate_effect_semantics: a stage is assessed exactly when there is evidence.
SemanticsValid(semantics) ==
  /\ semantics.transport \in {"not_attempted", "succeeded", "failed"}
  /\ \A s \in Stages :
       /\ semantics.stages[s].state \in Assessments(s) \cup {"not_assessed"}
       /\ (semantics.stages[s].state = "not_assessed") = (semantics.stages[s].evidence = {})

\* validate_operation_result and _normalize_review_stage
ReviewAccepted(result, review) ==
  /\ SemanticsValid(result.semantics)
  /\ result.transport_success = (result.semantics.transport = "succeeded")
  /\ DOMAIN review # {} /\ DOMAIN review \subseteq Stages
  /\ \A s \in DOMAIN review : review[s].state \in Assessments(s) /\ review[s].evidence # {}

\* build_effect_review
ReviewOf(result, review) ==
  [sha256 |-> result,
   semantics |-> [result.semantics EXCEPT
     !.stages = [s \in Stages |-> IF s \in DOMAIN review THEN review[s] ELSE @[s]]]]
=============================================================================
