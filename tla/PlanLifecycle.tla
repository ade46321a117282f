------------------------------ MODULE PlanLifecycle ------------------------------
(***************************************************************************)
(* From an authorization to what is done under it.  Three workflows, each    *)
(* of commands that people run one after the other on files they can edit    *)
(* in between: kamal-plan-gatt and kamal-execute-gatt, kamal-plan-pairing    *)
(* and kamal-execute-pairing, and kamal-gatt survey, which has no plan.  Each *)
(* command reads its files one after the other and checks them again, against *)
(* a clock that may be set.  kamal-review-gatt-result reads what the GATT    *)
(* executor has recorded.  What happens on the radio is in GattExecutor,     *)
(* PairingExecutor and GattSurvey; here an operation is performed or fails.  *)
(***************************************************************************)
EXTENDS GattContracts, PairingContracts, ResultSemantics, Sequences

CONSTANTS
  Authorizations,   \* workflow -> what authorization files can hold
  Requests,         \* workflow -> what request files (survey: options) can hold
  Reviews,          \* what review requests can hold
  Devices,          \* addresses a survey can discover
  Times,            \* readings of the clock
  MaxEdits,         \* bound: edits of files
  None

Workflows == {"gatt", "pairing", "survey"}

\* Documents of the right shape have the types of their fields; a survey's options
\* are all there.
ASSUME LifecycleAssumption ==
  /\ MaxEdits \in Nat /\ IsFiniteSet(Devices)
  /\ \A a \in Authorizations["pairing"] :
       a.shape => a.target.address_type \in {"public", "random", "unknown"}
  /\ \A s \in Requests["survey"] :
       DOMAIN s = {"policy_mode", "acknowledged", "allowlist", "timeout", "max_targets"}

VARIABLES
  workflow,
  now,            \* the clock
  authorization,  \* authorization.json
  request,        \* operations.json, request.json, or the survey's options
  plan,           \* the plan file, or None
  planner,        \* [pc, authorization]: what the planner has read
  executor,       \* [pc, plan, authorization, next, at, queue]: what an executor or
                  \* survey has read, and the time of its last validation
  results,        \* operation-NNN.json, in order
  reviews,        \* review artifacts
  built,          \* history: the plan as the planner wrote it, or None
  performed,      \* history: what was done on the radio, in order
  edits

files == <<authorization, request, plan, edits>>
history == <<results, reviews, performed>>
vars == <<workflow, now, files, planner, executor, history, built>>

-----------------------------------------------------------------------------
(* People and clocks *)

Tick ==
  /\ now' \in Times \ {now}
  /\ UNCHANGED <<workflow, files, planner, executor, history, built>>

\* A plan with something of another request, authorization or run.
EditedPlans ==
  IF workflow = "gatt"
  THEN {[plan EXCEPT !.operations = r.operations] : r \in Requests["gatt"]}
         \cup {[plan EXCEPT !.authorization_ref = a.authorization_id] : a \in Authorizations["gatt"]}
         \cup {[plan EXCEPT !.status = "executed"]}
  ELSE {[plan EXCEPT !.target = r.target, !.bond = r.bond, !.seconds = r.seconds,
                     !.agent_mode = r.agent_mode] : r \in Requests["pairing"]}
         \cup {[plan EXCEPT !.preconditions = a.preconditions] : a \in Authorizations["pairing"]}
         \cup {[plan EXCEPT !.disconnect_after = FALSE], [plan EXCEPT !.pair = FALSE]}

Edit ==
  /\ edits < MaxEdits /\ edits' = edits + 1
  /\ \/ /\ authorization' \in Authorizations[workflow] \ {authorization}
        /\ UNCHANGED <<request, plan>>
     \/ /\ request' \in Requests[workflow] \ {request}
        /\ UNCHANGED <<authorization, plan>>
     \/ /\ plan # None /\ plan' \in EditedPlans \ {plan}
        /\ UNCHANGED <<authorization, request>>
  /\ UNCHANGED <<workflow, now, planner, executor, history, built>>

-----------------------------------------------------------------------------
(* kamal-plan-gatt and kamal-plan-pairing *)

PlannerLoads ==
  /\ workflow # "survey" /\ planner.pc = "load"
  /\ planner' = [pc |-> "build", authorization |-> authorization]
  /\ UNCHANGED <<workflow, now, files, executor, history, built>>

\* Reads the request, validates both, and creates the plan if there is none.
PlannerBuilds ==
  LET a == planner.authorization
      possible == IF workflow = "gatt" THEN CanPlan(a, request, now)
                  ELSE CanPlanPairing(a, request, now)
  IN /\ planner.pc = "build"
     /\ planner' = [pc |-> "load", authorization |-> None]
     /\ \/ /\ possible /\ plan = None
           /\ plan' = IF workflow = "gatt" THEN PlanOf(a, request) ELSE PairingPlanOf(a, request)
           /\ built' = plan'
        \/ ~(possible /\ plan = None) /\ UNCHANGED <<plan, built>>
     /\ UNCHANGED <<workflow, now, authorization, request, edits, executor, history>>

-----------------------------------------------------------------------------
(* kamal-execute-gatt and kamal-execute-pairing *)

\* load_execution_inputs: the plan first, then the authorization.
ExecutorLoadsPlan ==
  /\ executor.pc = "start" /\ plan # None
  /\ executor' = [executor EXCEPT !.pc = "load", !.plan = plan]
  /\ UNCHANGED <<workflow, now, files, planner, history, built>>

ExecutorLoadsAuthorization ==
  /\ executor.pc = "load"
  /\ executor' = [executor EXCEPT !.pc = "verify", !.authorization = authorization]
  /\ UNCHANGED <<workflow, now, files, planner, history, built>>

\* _verify_plan
Verify ==
  LET a == executor.authorization
      verified == IF workflow = "gatt" THEN VerifiesPlan(executor.plan, a, now)
                  ELSE VerifiesPairingPlan(executor.plan, a, now)
  IN /\ executor.pc = "verify"
     /\ executor' = [executor EXCEPT !.pc = IF verified THEN "run" ELSE "refused", !.at = now]
     /\ UNCHANGED <<workflow, now, files, planner, history, built>>

\* The head of execute_plan's loop: the authorization is looked at again, and
\* the operation's record begun.
BeginOperation ==
  /\ workflow = "gatt" /\ executor.pc = "run"
  /\ executor.next <= Len(executor.plan.operations)
  /\ executor' = [executor EXCEPT
       !.pc = IF /\ AuthorizationValid(executor.authorization, now)
                 /\ RecordCanBegin(executor.plan.operations[executor.next])
              THEN "send" ELSE "refused",
       !.at = now]
  /\ UNCHANGED <<workflow, now, files, planner, history, built>>

Performed(op) ==
  [operation |-> op, authorization |-> executor.authorization, at |-> executor.at]

Result(op, semantics) ==
  [operation |-> op, semantics |-> semantics,
   transport_success |-> semantics.transport = "succeeded"]

\* Mutant of Send: what fails is tried again.
SendRetrying ==
  LET op == executor.plan.operations[executor.next]
  IN /\ executor.pc = "send"
     /\ CanSend(op) /\ performed' = Append(performed, Performed(op))
     /\ \/ /\ results' = Append(results, Result(op, Succeeded(Baseline(op), op, 0)))
           /\ executor' = [executor EXCEPT !.pc = "run", !.next = @ + 1]
        \/ /\ results' = Append(results, Result(op, Failed(Baseline(op))))
           /\ executor' = [executor EXCEPT !.pc = "run"]
     /\ UNCHANGED <<workflow, now, files, planner, reviews, built>>

\* The request is sent and answered, or fails before or after it is sent; the
\* first failure ends the run.
Send ==
  LET op == executor.plan.operations[executor.next]
  IN /\ executor.pc = "send"
     /\ \/ /\ CanSend(op)
           /\ performed' = Append(performed, Performed(op))
           /\ \E count \in 0..1 :
                results' = Append(results, Result(op, Succeeded(Baseline(op), op, count)))
           /\ executor' = [executor EXCEPT !.pc = "run", !.next = @ + 1]
        \/ /\ \/ CanSend(op) /\ performed' = Append(performed, Performed(op))
              \/ performed' = performed
           /\ results' = Append(results, Result(op, Failed(Baseline(op))))
           /\ executor' = [executor EXCEPT !.pc = "stopped"]
     /\ UNCHANGED <<workflow, now, files, planner, reviews, built>>

\* execute_pairing_plan: BlueZ cannot promise a pairing without a bond.  The
\* authorization is not looked at again.
Pair ==
  /\ workflow = "pairing" /\ executor.pc = "run"
  /\ IF executor.plan.bond
     THEN \/ performed' = Append(performed, Performed(executor.plan))
          \/ performed' = performed
     ELSE performed' = performed
  /\ executor' = [executor EXCEPT !.pc = "stopped"]
  /\ UNCHANGED <<workflow, now, files, planner, results, reviews, built>>

-----------------------------------------------------------------------------
(* kamal-gatt survey --execute: executor.plan holds its options *)

\* Before discovery the addresses are known only for an allowlist.
Preselected == IF request.policy_mode = "allowlist" THEN request.allowlist ELSE {}

SurveyStarts ==
  /\ workflow = "survey" /\ executor.pc = "start"
  /\ executor' = [executor EXCEPT
       !.pc = IF SurveyAuthorized(authorization, request, Preselected, now)
              THEN "discover" ELSE "refused",
       !.plan = request, !.authorization = authorization, !.at = now]
  /\ UNCHANGED <<workflow, now, files, planner, history, built>>

\* The queue is what was found and selected, no longer than --max-devices; it
\* is put before the authorization once more.
SurveyDiscovers ==
  /\ executor.pc = "discover"
  /\ \E queue \in {q \in SUBSET Devices :
         /\ Cardinality(q) <= executor.plan.max_targets
         /\ executor.plan.policy_mode = "allowlist" => q \subseteq executor.plan.allowlist} :
       executor' = [executor EXCEPT
         !.pc = IF SurveyAuthorized(executor.authorization, executor.plan, queue, now)
                THEN "visit" ELSE "refused",
         !.queue = queue, !.at = now]
  /\ UNCHANGED <<workflow, now, files, planner, history, built>>

\* inspect_record: before each connection, for this device alone.
SurveyVisits(d) ==
  LET options == [executor.plan EXCEPT !.max_targets = 1]
  IN /\ executor.pc = "visit" /\ d \in executor.queue
     /\ IF SurveyAuthorized(executor.authorization, options, {d}, now)
        THEN /\ executor' = [executor EXCEPT !.queue = @ \ {d}, !.at = now]
             /\ performed' = Append(performed,
                  [operation |-> d, authorization |-> executor.authorization, at |-> now])
        ELSE executor' = [executor EXCEPT !.pc = "stopped"] /\ performed' = performed
     /\ UNCHANGED <<workflow, now, files, planner, results, reviews, built>>

-----------------------------------------------------------------------------
(* kamal-review-gatt-result *)

ReviewResult ==
  \E i \in 1..Len(results), review \in Reviews :
    /\ ReviewAccepted(results[i], review)
    /\ reviews = {}    \* one review is enough: it depends on no other
    /\ reviews' = {ReviewOf(results[i], review)}
    /\ UNCHANGED <<workflow, now, files, planner, executor, results, performed, built>>

-----------------------------------------------------------------------------

Init ==
  /\ workflow \in Workflows /\ now \in Times
  /\ authorization \in Authorizations[workflow] /\ request \in Requests[workflow]
  /\ plan = None /\ built = None /\ edits = 0
  /\ planner = [pc |-> "load", authorization |-> None]
  /\ executor = [pc |-> "start", plan |-> None, authorization |-> None, next |-> 1, at |-> 0,
                 queue |-> {}]
  /\ results = <<>> /\ reviews = {} /\ performed = <<>>

Next ==
  \/ Tick \/ Edit \/ PlannerLoads \/ PlannerBuilds
  \/ ExecutorLoadsPlan \/ ExecutorLoadsAuthorization \/ Verify
  \/ BeginOperation \/ Send \/ Pair
  \/ SurveyStarts \/ SurveyDiscovers \/ (\E d \in Devices : SurveyVisits(d))
  \/ ReviewResult

Spec == Init /\ [][Next]_vars
-----------------------------------------------------------------------------
(* Properties *)

TypeOK ==
  /\ workflow \in Workflows /\ now \in Times /\ edits \in 0..MaxEdits
  /\ authorization \in Authorizations[workflow] /\ request \in Requests[workflow]
  /\ planner.pc \in {"load", "build"}
  /\ executor.pc \in {"start", "load", "verify", "run", "send", "discover", "visit",
                      "refused", "stopped"}
  /\ executor.queue \subseteq Devices
  /\ executor.pc = "send" => executor.next <= Len(executor.plan.operations)
  /\ Len(performed) <= IF workflow = "survey" THEN Len(performed) ELSE executor.next

\* What may be done under an authorization, whatever plan it was done for.
Permits(a, op) ==
  CASE workflow = "gatt" ->
         /\ a.survey_scope = "none" /\ op.operation_type \in Typed \cap a.allowed_operations
         /\ op.target \in a.targets /\ op.timeout_seconds <= a.max_timeout_seconds
         /\ op.operation_type = Write =>
              /\ a.allow_writes /\ op.payload_bytes <= a.max_payload_bytes
              /\ op.write_mode = "request" \/ a.allow_write_without_response
         /\ op.operation_type = Subscribe => op.duration_seconds <= a.max_subscription_seconds
    [] workflow = "pairing" ->
         /\ op.target = a.target /\ a.target.address_type \in {"public", "random"}
         /\ {"pair_target"} \cup (IF op.bond THEN {"establish_bond"} ELSE {})
              \subseteq a.allowed_operations
         /\ op.agent_mode \in a.agent_modes /\ op.disconnect_after
         /\ \A p \in Phases : op.seconds[p] <= a.max_seconds[p]
         /\ a.preconditions \subseteq op.preconditions
    [] OTHER ->
         /\ Metadata \in a.allowed_operations
         /\ \/ a.survey_scope = "all_discovered" /\ executor.plan.acknowledged
            \/ [address |-> op, address_type |-> "unknown"] \in a.targets

\* "Expired or mismatched authorization fails closed" (gatt-executor.md:5):
\* however files were edited and the clock went, everything done on the radio
\* was permitted by the authorization the plan was made from, whose window
\* was found open since the run began.
WithinAuthorization ==
  \A i \in 1..Len(performed) :
    LET e == performed[i] IN
      /\ e.authorization.not_before <= e.at /\ e.at < e.authorization.expires
      /\ workflow # "survey" => e.authorization = executor.plan.sha256
      /\ Permits(e.authorization, e.operation)
      /\ i <= IF workflow = "pairing" THEN 1 ELSE e.authorization.max_operations

\* Planner and executor check on their own.  What the planner wrote, the
\* executor refuses only because the file it was made from is not the one it
\* is given, or the window is closed.
PlansAreAccepted ==
  /\ executor.pc = "refused" /\ executor.plan = built
  /\ workflow # "survey" /\ executor.authorization = built.sha256
  => ~(/\ built.sha256.not_before <= executor.at
       /\ executor.at < built.sha256.expires)

\* A record or a review claims a completed request only for one that was
\* sent with a response asked for, and more than that only on evidence of its own.
EvidenceIsModest ==
  \A s \in {results[i] : i \in 1..Len(results)} \cup {r.sha256 : r \in reviews} :
    /\ s.transport_success => \E i \in 1..Len(performed) : performed[i].operation = s.operation
    /\ s.semantics.protocol = "write_request_completed" => s.operation.write_mode = "request"
    /\ \A r \in reviews : r.sha256 = s =>
         /\ r.semantics.protocol = s.semantics.protocol
         /\ \A stage \in Stages :
              r.semantics.stages[stage].state # "not_assessed"
                => r.semantics.stages[stage].evidence # {}
=============================================================================
