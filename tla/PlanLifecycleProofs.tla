--------------------------- MODULE PlanLifecycleProofs ---------------------------
(***************************************************************************)
(* Proofs about the way from an authorization to what is done under it, for  *)
(* every content of the files, any number of edits, every reading of the     *)
(* clock and every limit: nothing is done that the authorization does not    *)
(* permit at that time, the executors accept what the planners wrote, and    *)
(* records and reviews claim no more than was done.                          *)
(***************************************************************************)
EXTENDS PlanLifecycle, FiniteSetTheorems, SequenceTheorems, TLAPS

-----------------------------------------------------------------------------
(* The invariant *)

Places ==
  [gatt |-> {"start", "load", "verify", "run", "send", "refused", "stopped"},
   pairing |-> {"start", "load", "verify", "run", "refused", "stopped"},
   survey |-> {"start", "discover", "visit", "refused", "stopped"}]

FileTypes ==
  /\ workflow \in Workflows /\ now \in Times /\ edits \in 0..MaxEdits
  /\ authorization \in Authorizations[workflow] /\ request \in Requests[workflow]
  /\ planner.pc \in {"load", "build"}
  /\ planner.pc = "build" =>
       workflow # "survey" /\ planner.authorization \in Authorizations[workflow]
  /\ workflow = "survey" => plan = None

ExecutorTypes ==
  /\ executor = [pc |-> executor.pc, plan |-> executor.plan,
                 authorization |-> executor.authorization, next |-> executor.next,
                 at |-> executor.at, queue |-> executor.queue]
  /\ executor.pc \in Places[workflow]
  /\ executor.next \in Nat \ {0} /\ executor.queue \in SUBSET Devices
  /\ executor.pc \notin {"start", "load"} => executor.authorization \in Authorizations[workflow]
  /\ executor.pc # "start" /\ workflow # "survey" => executor.plan # None
  /\ executor.pc # "start" /\ workflow = "survey" => executor.plan \in Requests["survey"]

\* A history or the file of results is a sequence of whatever is in it.
Entries(s) == {s[i] : i \in 1..Len(s)}
IsSequence(s) == s \in Seq(Entries(s))

\* A plan that is there to compare with is one the planner could make.
BuiltOf(a, r, t) ==
  IF workflow = "gatt" THEN CanPlan(a, r, t) /\ built = PlanOf(a, r)
  ELSE CanPlanPairing(a, r, t) /\ built = PairingPlanOf(a, r)
BuiltInv ==
  built # None => \E a \in Authorizations[workflow], r \in Requests[workflow], t \in Times :
                    BuiltOf(a, r, t)

\* The GATT executor: a plan that was verified; before an operation is sent, a
\* window that is open and a record that has begun.
GattInv ==
  LET x == executor IN
    /\ x.pc \in {"run", "send", "stopped"} =>
         \E t \in Times : VerifiesPlan(x.plan, x.authorization, t)
    /\ x.pc = "send" => /\ x.next <= Len(x.plan.operations)
                        /\ AuthorizationValid(x.authorization, x.at)
                        /\ RecordCanBegin(x.plan.operations[x.next])
    /\ x.pc \in {"start", "load", "verify"} => performed = <<>> /\ x.next = 1
    /\ x.pc \in {"run", "send", "refused"} => Len(performed) < x.next
    /\ Len(performed) <= x.next
    /\ x.pc = "refused" =>
         \/ ~VerifiesPlan(x.plan, x.authorization, x.at)
         \/ \E i \in 1..Len(x.plan.operations) :
              ~(AuthorizationValid(x.authorization, x.at) /\ RecordCanBegin(x.plan.operations[i]))

\* The pairing executor: one attempt, of a plan that was verified
PairingInv ==
  LET x == executor IN
    /\ x.pc = "run" => VerifiesPairingPlan(x.plan, x.authorization, x.at)
    /\ x.pc # "stopped" => performed = <<>>
    /\ Len(performed) <= 1
    /\ x.pc = "refused" => ~VerifiesPairingPlan(x.plan, x.authorization, x.at)

\* The survey: what is left of the queue and what was visited is no more than
\* the authorization has operations.
SurveyInv ==
  LET x == executor IN
    /\ x.pc \in {"start", "discover"} => performed = <<>>
    /\ x.pc = "visit" =>
         /\ x.authorization.max_operations \in Nat
         /\ Len(performed) + Cardinality(x.queue) <= x.authorization.max_operations

WorkflowInv ==
  /\ workflow = "gatt" => GattInv
  /\ workflow = "pairing" => PairingInv
  /\ workflow = "survey" => SurveyInv

\* Every success on record was performed; a review is of a record that is there.
SemanticsType(m) ==
  m = [transport |-> m.transport, protocol |-> m.protocol,
       response_expected |-> m.response_expected, stages |-> m.stages]
ResultsInv ==
  /\ \A i \in 1..Len(results) :
       /\ SemanticsType(results[i].semantics)
       /\ results[i].transport_success =>
            \E k \in 1..Len(performed) : performed[k].operation = results[i].operation
       /\ results[i].semantics.protocol = "write_request_completed" =>
            results[i].operation.write_mode = "request"
  /\ \A r \in reviews : \E i \in 1..Len(results), review \in Reviews :
       ReviewAccepted(results[i], review) /\ r = ReviewOf(results[i], review)

LifecycleInv ==
  /\ FileTypes /\ ExecutorTypes /\ IsSequence(performed) /\ IsSequence(results)
  /\ BuiltInv /\ WorkflowInv /\ WithinAuthorization /\ ResultsInv

-----------------------------------------------------------------------------
(* Sequences of anything *)

\* What Append does to a sequence, whatever it holds.
LEMMA AppendFacts ==
  ASSUME NEW s, IsSequence(s), NEW x
  PROVE  /\ IsSequence(Append(s, x)) /\ Len(s) \in Nat /\ Len(Append(s, x)) = Len(s) + 1
         /\ \A i \in 1..Len(s) : Append(s, x)[i] = s[i]
         /\ Append(s, x)[Len(s) + 1] = x
<1> DEFINE S == Entries(s) \cup {x}
           t == Append(s, x)
<1>1. s \in Seq(Entries(s)) /\ Len(s) \in Nat
  BY DEF IsSequence
<1>2. s \in Seq(S) /\ x \in S
  <2> HIDE DEF S
  <2>1. Entries(s) \subseteq S /\ x \in S
    BY DEF S
  <2>2. QED
    BY <1>1, <2>1
<1>3. /\ t \in Seq(S) /\ Len(t) = Len(s) + 1
      /\ \A i \in 1..Len(s) : t[i] = s[i]
      /\ t[Len(s) + 1] = x
  <2> HIDE DEF S
  <2>1. QED
    BY <1>2
<1>4. IsSequence(t)
  <2> HIDE DEF S, t
  <2>1. t \in [1..Len(t) -> S] /\ Len(t) \in Nat
    BY <1>3
  <2>2. t \in [1..Len(t) -> Entries(t)]
    BY <2>1 DEF Entries
  <2>3. QED
    BY <2>1, <2>2, SeqDef DEF IsSequence
<1>5. QED
  BY <1>1, <1>3, <1>4

\* The empty sequence is one.
LEMMA EmptyFacts == IsSequence(<<>>) /\ Len(<<>>) = 0 /\ 1..0 = {}
BY DEF IsSequence

-----------------------------------------------------------------------------
(* Files and commands *)

\* Before the first command every file is what somebody wrote into it.
LEMMA InitInv == Init => LifecycleInv
<1> SUFFICES ASSUME Init PROVE LifecycleInv
  OBVIOUS
<1> USE EmptyFacts
<1>1. FileTypes
  BY LifecycleAssumption DEF Init, FileTypes
<1>2. ExecutorTypes
  BY DEF Init, ExecutorTypes, Places, Workflows
<1>3. IsSequence(performed) /\ IsSequence(results) /\ BuiltInv
  BY DEF Init, BuiltInv
<1>4. WorkflowInv
  BY FS_EmptySet DEF Init, WorkflowInv, GattInv, PairingInv, SurveyInv
<1>5. WithinAuthorization /\ ResultsInv
  BY DEF Init, WithinAuthorization, ResultsInv
<1>6. QED
  BY <1>1, <1>2, <1>3, <1>4, <1>5 DEF LifecycleInv

\* Commands, edits and the clock leave well-formed files behind.
LEMMA FilesStep == LifecycleInv /\ [Next]_vars => FileTypes'
<1> SUFFICES ASSUME LifecycleInv, [Next]_vars PROVE FileTypes'
  OBVIOUS
<1> USE DEF FileTypes, files
<1>0. FileTypes /\ (edits < MaxEdits => edits + 1 \in 0..MaxEdits)
  BY LifecycleAssumption DEF LifecycleInv
<1>1. CASE UNCHANGED vars
  BY <1>0, <1>1 DEF vars
<1>2. CASE Tick
  BY <1>0, <1>2 DEF Tick
<1>3. CASE Edit
  BY <1>0, <1>3 DEF Edit
<1>4. CASE PlannerLoads
  BY <1>0, <1>4 DEF PlannerLoads
<1>5. CASE PlannerBuilds
  BY <1>0, <1>5 DEF PlannerBuilds
<1>6. CASE ExecutorLoadsPlan \/ ExecutorLoadsAuthorization \/ Verify \/ BeginOperation
  BY <1>0, <1>6 DEF ExecutorLoadsPlan, ExecutorLoadsAuthorization, Verify, BeginOperation
<1>7. CASE Send \/ Pair
  BY <1>0, <1>7 DEF Send, Pair
<1>8. CASE SurveyStarts \/ SurveyDiscovers \/ \E d \in Devices : SurveyVisits(d)
  BY <1>0, <1>8 DEF SurveyStarts, SurveyDiscovers, SurveyVisits
<1>9. CASE ReviewResult
  BY <1>0, <1>9 DEF ReviewResult
<1>10. QED
  BY <1>1, <1>2, <1>3, <1>4, <1>5, <1>6, <1>7, <1>8, <1>9 DEF Next

\* What is not of the executor leaves it alone.
Aside == Tick \/ Edit \/ PlannerLoads \/ PlannerBuilds \/ ReviewResult \/ UNCHANGED vars

\* Nothing but the executing command changes its state or acts on the radio.
LEMMA AsideChanges ==
  Aside => UNCHANGED <<workflow, executor, performed>>
BY DEF Aside, Tick, Edit, PlannerLoads, PlannerBuilds, ReviewResult, vars, history

\* The executing command has at each place what the places before have read.
LEMMA ExecutorStep == LifecycleInv /\ [Next]_vars => ExecutorTypes'
<1> SUFFICES ASSUME LifecycleInv, [Next]_vars PROVE ExecutorTypes'
  OBVIOUS
<1> USE DEF ExecutorTypes, Places, Workflows
<1>0. ExecutorTypes /\ FileTypes
  BY DEF LifecycleInv
<1>1. CASE Aside
  BY <1>0, <1>1, AsideChanges
<1>2. CASE ExecutorLoadsPlan
  <2>1. executor.pc = "start" /\ plan # None /\ workflow' = workflow /\ workflow # "survey"
    BY <1>0, <1>2 DEF ExecutorLoadsPlan, FileTypes
  <2>2. executor' = [pc |-> "load", plan |-> plan, authorization |-> executor.authorization,
                     next |-> executor.next, at |-> executor.at, queue |-> executor.queue]
    BY <1>0, <1>2 DEF ExecutorLoadsPlan
  <2>3. QED
    BY <1>0, <2>1, <2>2 DEF FileTypes
<1>3. CASE ExecutorLoadsAuthorization
  <2>1. executor.pc = "load" /\ workflow' = workflow
    BY <1>3 DEF ExecutorLoadsAuthorization
  <2>2. executor' = [pc |-> "verify", plan |-> executor.plan, authorization |-> authorization,
                     next |-> executor.next, at |-> executor.at, queue |-> executor.queue]
    BY <1>0, <1>3 DEF ExecutorLoadsAuthorization
  <2>3. QED
    BY <1>0, <2>1, <2>2 DEF FileTypes
<1>4. CASE Verify
  <2>1. executor.pc = "verify" /\ workflow' = workflow
    BY <1>4 DEF Verify
  <2>2. PICK pc \in {"run", "refused"} : executor' = [executor EXCEPT !.pc = pc, !.at = now]
    BY <1>4 DEF Verify
  <2>3. executor' = [pc |-> pc, plan |-> executor.plan,
                     authorization |-> executor.authorization,
                     next |-> executor.next, at |-> now, queue |-> executor.queue]
    BY <1>0, <2>2
  <2>4. QED
    BY <1>0, <2>1, <2>3 DEF FileTypes
<1>5. CASE BeginOperation
  BY <1>0, <1>5 DEF BeginOperation, FileTypes
<1>6. CASE Send
  <2>1. executor.pc = "send" /\ workflow' = workflow
    BY <1>6 DEF Send
  <2>2. PICK pc \in {"run", "stopped"}, n \in {executor.next, executor.next + 1} :
          executor' = [executor EXCEPT !.pc = pc, !.next = n]
    <3>1. CASE executor' = [executor EXCEPT !.pc = "run", !.next = @ + 1]
      BY <3>1
    <3>2. CASE executor' = [executor EXCEPT !.pc = "stopped"]
      BY <1>0, <3>2
    <3>3. QED
      BY <1>6, <3>1, <3>2 DEF Send
  <2>3. executor' = [pc |-> pc, plan |-> executor.plan,
                     authorization |-> executor.authorization,
                     next |-> n, at |-> executor.at, queue |-> executor.queue]
    BY <1>0, <2>2
  <2>4. QED
    BY <1>0, <2>1, <2>3 DEF FileTypes
<1>7. CASE Pair
  BY <1>0, <1>7 DEF Pair, FileTypes
<1>8. CASE SurveyStarts
  BY <1>0, <1>8 DEF SurveyStarts, FileTypes
<1>9. CASE SurveyDiscovers
  <2>1. executor.pc = "discover" /\ workflow' = workflow
    BY <1>9 DEF SurveyDiscovers
  <2>2. PICK pc \in {"visit", "refused"}, queue \in SUBSET Devices :
          executor' = [executor EXCEPT !.pc = pc, !.queue = queue, !.at = now]
    BY <1>9 DEF SurveyDiscovers
  <2>3. executor' = [pc |-> pc, plan |-> executor.plan,
                     authorization |-> executor.authorization,
                     next |-> executor.next, at |-> now, queue |-> queue]
    BY <1>0, <2>2
  <2>4. QED
    BY <1>0, <2>1, <2>3 DEF FileTypes
<1>10. ASSUME NEW d \in Devices, SurveyVisits(d) PROVE ExecutorTypes'
  <2>1. executor.pc = "visit" /\ workflow' = workflow
    BY <1>10 DEF SurveyVisits
  <2>2. CASE executor' = [executor EXCEPT !.queue = @ \ {d}, !.at = now]
    <3>1. executor' = [pc |-> "visit", plan |-> executor.plan,
                       authorization |-> executor.authorization,
                       next |-> executor.next, at |-> now, queue |-> executor.queue \ {d}]
      BY <1>0, <2>1, <2>2
    <3>2. executor.queue \ {d} \in SUBSET Devices
      BY <1>0
    <3>3. QED
      BY <1>0, <2>1, <3>1, <3>2
  <2>3. CASE executor' = [executor EXCEPT !.pc = "stopped"]
    <3>1. executor' = [pc |-> "stopped", plan |-> executor.plan,
                       authorization |-> executor.authorization,
                       next |-> executor.next, at |-> executor.at, queue |-> executor.queue]
      BY <1>0, <2>3
    <3>2. workflow = "survey"
      BY <1>0, <2>1 DEF FileTypes
    <3>3. QED
      BY <1>0, <2>1, <3>1, <3>2
  <2>4. QED
    BY <1>10, <2>2, <2>3 DEF SurveyVisits
<1>11. QED
  BY <1>1, <1>2, <1>3, <1>4, <1>5, <1>6, <1>7, <1>8, <1>9, <1>10 DEF Next, Aside

\* A history is a sequence because it is only ever appended to.
LEMMA SequencesStep ==
  LifecycleInv /\ [Next]_vars => IsSequence(performed)' /\ IsSequence(results)'
<1> SUFFICES ASSUME LifecycleInv, [Next]_vars
    PROVE IsSequence(performed)' /\ IsSequence(results)'
  OBVIOUS
<1>0. IsSequence(performed) /\ IsSequence(results)
  BY DEF LifecycleInv
<1>1. performed' = performed \/ \E e : performed' = Append(performed, e)
  <2>1. CASE Aside
    BY <2>1, AsideChanges
  <2>2. CASE ExecutorLoadsPlan \/ ExecutorLoadsAuthorization \/ Verify \/ BeginOperation
    BY <2>2 DEF ExecutorLoadsPlan, ExecutorLoadsAuthorization, Verify, BeginOperation, history
  <2>3. CASE Send \/ Pair
    BY <2>3 DEF Send, Pair
  <2>4. CASE SurveyStarts \/ SurveyDiscovers \/ \E d \in Devices : SurveyVisits(d)
    BY <2>4 DEF SurveyStarts, SurveyDiscovers, SurveyVisits, history
  <2>5. QED
    BY <2>1, <2>2, <2>3, <2>4 DEF Next, Aside
<1>2. results' = results \/ \E e : results' = Append(results, e)
  <2>1. CASE Send
    BY <2>1 DEF Send
  <2>2. CASE ~Send
    BY <2>2 DEF Next, vars, history, Tick, Edit, PlannerLoads, PlannerBuilds, ExecutorLoadsPlan,
       ExecutorLoadsAuthorization, Verify, BeginOperation, Pair, SurveyStarts, SurveyDiscovers,
       SurveyVisits, ReviewResult
  <2>3. QED
    BY <2>1, <2>2
<1>3. IsSequence(performed)'
  <2>1. CASE performed' = performed
    BY <1>0, <2>1 DEF IsSequence, Entries
  <2>2. ASSUME NEW e, performed' = Append(performed, e) PROVE IsSequence(performed)'
    <3>1. IsSequence(Append(performed, e))
      BY <1>0, AppendFacts
    <3>2. QED
      BY <2>2, <3>1 DEF IsSequence, Entries
  <2>3. QED
    BY <1>1, <2>1, <2>2
<1>4. IsSequence(results)'
  <2>1. CASE results' = results
    BY <1>0, <2>1 DEF IsSequence, Entries
  <2>2. ASSUME NEW e, results' = Append(results, e) PROVE IsSequence(results)'
    <3>1. IsSequence(Append(results, e))
      BY <1>0, AppendFacts
    <3>2. QED
      BY <2>2, <3>1 DEF IsSequence, Entries
  <2>3. QED
    BY <1>2, <2>1, <2>2
<1>5. QED
  BY <1>3, <1>4

-----------------------------------------------------------------------------
(* Planner and executor *)

\* A plan that was built came from an authorization the planner accepted.
LEMMA BuiltStep == LifecycleInv /\ [Next]_vars => BuiltInv'
<1> SUFFICES ASSUME LifecycleInv, [Next]_vars PROVE BuiltInv'
  OBVIOUS
<1>0. BuiltInv /\ FileTypes
  BY DEF LifecycleInv
<1>1. workflow' = workflow
  BY DEF Next, vars, Tick, Edit, PlannerLoads, PlannerBuilds, ExecutorLoadsPlan,
     ExecutorLoadsAuthorization, Verify, BeginOperation, Send, Pair, SurveyStarts, SurveyDiscovers,
     SurveyVisits, ReviewResult
<1>2. CASE built' = built
  BY <1>0, <1>1, <1>2 DEF BuiltInv, BuiltOf
<1>3. CASE built' # built
  <2>1. PlannerBuilds
    BY <1>3 DEF Next, vars, Tick, Edit, PlannerLoads, ExecutorLoadsPlan,
       ExecutorLoadsAuthorization, Verify, BeginOperation, Send, Pair, SurveyStarts, SurveyDiscovers,
       SurveyVisits, ReviewResult
  <2>2. planner.authorization \in Authorizations[workflow] /\ request \in Requests[workflow]
        /\ now \in Times
    BY <1>0, <2>1 DEF FileTypes, PlannerBuilds
  <2>3. \E a \in Authorizations[workflow], r \in Requests[workflow], t \in Times :
             IF workflow = "gatt" THEN CanPlan(a, r, t) /\ built' = PlanOf(a, r)
             ELSE CanPlanPairing(a, r, t) /\ built' = PairingPlanOf(a, r)
    BY <1>3, <2>1, <2>2 DEF PlannerBuilds
  <2>4. QED
    BY <1>1, <2>3 DEF BuiltInv, BuiltOf
<1>4. QED
  BY <1>2, <1>3

-----------------------------------------------------------------------------
(* The workflows *)

\* A behaviour is of one workflow.
LEMMA WorkflowStays == [Next]_vars => workflow' = workflow
BY DEF Next, vars, Tick, Edit, PlannerLoads, PlannerBuilds, ExecutorLoadsPlan,
   ExecutorLoadsAuthorization, Verify, BeginOperation, Send, Pair, SurveyStarts, SurveyDiscovers,
   SurveyVisits, ReviewResult

\* GattInv is kept: a plan is verified before the first operation, the window and
\* the record are looked at before each, and each is appended at most once.
LEMMA GattStep == LifecycleInv /\ workflow = "gatt" /\ [Next]_vars => GattInv'
<1> SUFFICES ASSUME LifecycleInv, workflow = "gatt", [Next]_vars PROVE GattInv'
  OBVIOUS
<1>0. /\ GattInv /\ ExecutorTypes /\ FileTypes /\ IsSequence(performed)
      /\ executor.pc \in {"start", "load", "verify", "run", "send", "refused", "stopped"}
  BY DEF LifecycleInv, WorkflowInv, ExecutorTypes, Places
<1>1. CASE Aside
  BY <1>0, <1>1, AsideChanges DEF GattInv
<1>2. CASE ExecutorLoadsPlan
  <2>1. executor' = [pc |-> "load", plan |-> plan, authorization |-> executor.authorization,
                     next |-> executor.next, at |-> executor.at, queue |-> executor.queue]
    BY <1>0, <1>2 DEF ExecutorLoadsPlan, ExecutorTypes
  <2>2. performed' = <<>> /\ executor.next = 1
    BY <1>0, <1>2 DEF ExecutorLoadsPlan, GattInv, history
  <2>3. QED
    BY <2>1, <2>2, EmptyFacts DEF GattInv
<1>3. CASE ExecutorLoadsAuthorization
  <2>1. executor' = [pc |-> "verify", plan |-> executor.plan, authorization |-> authorization,
                     next |-> executor.next, at |-> executor.at, queue |-> executor.queue]
    BY <1>0, <1>3 DEF ExecutorLoadsAuthorization, ExecutorTypes
  <2>2. performed' = <<>> /\ executor.next = 1
    BY <1>0, <1>3 DEF ExecutorLoadsAuthorization, GattInv, history
  <2>3. QED
    BY <2>1, <2>2, EmptyFacts DEF GattInv
<1>4. CASE Verify
  <2> DEFINE verified == VerifiesPlan(executor.plan, executor.authorization, now)
  <2>1. executor' = [pc |-> IF verified THEN "run" ELSE "refused", plan |-> executor.plan,
                     authorization |-> executor.authorization,
                     next |-> executor.next, at |-> now, queue |-> executor.queue]
    BY <1>0, <1>4 DEF Verify, ExecutorTypes
  <2>2. performed' = <<>> /\ executor.next = 1 /\ now \in Times
    BY <1>0, <1>4 DEF Verify, GattInv, FileTypes, history
  <2>3. CASE verified
    BY <2>1, <2>2, <2>3, EmptyFacts DEF GattInv
  <2>4. CASE ~verified
    BY <2>1, <2>2, <2>4, EmptyFacts DEF GattInv
  <2>5. QED
    BY <2>3, <2>4
<1>5. CASE BeginOperation
  <2> DEFINE open == /\ AuthorizationValid(executor.authorization, now)
                     /\ RecordCanBegin(executor.plan.operations[executor.next])
  <2>1. executor' = [pc |-> IF open THEN "send" ELSE "refused", plan |-> executor.plan,
                     authorization |-> executor.authorization,
                     next |-> executor.next, at |-> now, queue |-> executor.queue]
    BY <1>0, <1>5 DEF BeginOperation, ExecutorTypes
  <2>2. /\ performed' = performed /\ executor.next <= Len(executor.plan.operations)
        /\ Len(performed) < executor.next /\ Len(performed) <= executor.next
        /\ \E t \in Times : VerifiesPlan(executor.plan, executor.authorization, t)
    BY <1>0, <1>5 DEF BeginOperation, GattInv, history
  <2>3. CASE open
    BY <2>1, <2>2, <2>3 DEF GattInv
  <2>4. CASE ~open
    <3>1. executor.next \in 1..Len(executor.plan.operations)
      BY <1>0, <2>2 DEF VerifiesPlan, AuthorizationValid, ConstraintsValid, ExecutorTypes
    <3>2. QED
      BY <2>1, <2>2, <2>4, <3>1 DEF GattInv
  <2>5. QED
    BY <2>3, <2>4
<1>6. CASE Send
  <2>1. /\ Len(performed) < executor.next /\ executor.next \in Nat /\ Len(performed) \in Nat
        /\ \E t \in Times : VerifiesPlan(executor.plan, executor.authorization, t)
    BY <1>0, <1>6, AppendFacts DEF Send, GattInv, ExecutorTypes
  <2>2. Len(performed') \in {Len(performed), Len(performed) + 1}
    BY <1>0, <1>6, AppendFacts DEF Send
  <2>3. CASE executor' = [executor EXCEPT !.pc = "run", !.next = @ + 1]
    <3>1. executor' = [pc |-> "run", plan |-> executor.plan,
                       authorization |-> executor.authorization,
                       next |-> executor.next + 1, at |-> executor.at, queue |-> executor.queue]
      BY <1>0, <2>3 DEF ExecutorTypes
    <3>2. QED
      BY <2>1, <2>2, <3>1 DEF GattInv
  <2>4. CASE executor' = [executor EXCEPT !.pc = "stopped"]
    <3>1. executor' = [pc |-> "stopped", plan |-> executor.plan,
                       authorization |-> executor.authorization,
                       next |-> executor.next, at |-> executor.at, queue |-> executor.queue]
      BY <1>0, <2>4 DEF ExecutorTypes
    <3>2. QED
      BY <2>1, <2>2, <3>1 DEF GattInv
  <2>5. QED
    BY <1>6, <2>3, <2>4 DEF Send
<1>7. CASE Pair \/ SurveyStarts \/ SurveyDiscovers \/ \E d \in Devices : SurveyVisits(d)
  BY <1>0, <1>7 DEF Pair, SurveyStarts, SurveyDiscovers, SurveyVisits
<1>8. QED
  BY <1>1, <1>2, <1>3, <1>4, <1>5, <1>6, <1>7 DEF Next, Aside

\* PairingInv is kept: one attempt, and only of a plan that was verified.
LEMMA PairingStep == LifecycleInv /\ workflow = "pairing" /\ [Next]_vars => PairingInv'
<1> SUFFICES ASSUME LifecycleInv, workflow = "pairing", [Next]_vars PROVE PairingInv'
  OBVIOUS
<1>0. /\ PairingInv /\ ExecutorTypes /\ IsSequence(performed)
      /\ executor.pc \in {"start", "load", "verify", "run", "refused", "stopped"}
  BY DEF LifecycleInv, WorkflowInv, ExecutorTypes, Places
<1>1. CASE Aside
  BY <1>0, <1>1, AsideChanges DEF PairingInv
<1>2. CASE ExecutorLoadsPlan \/ ExecutorLoadsAuthorization
  <2>1. executor'.pc \in {"load", "verify"} /\ performed' = <<>>
    BY <1>0, <1>2 DEF ExecutorLoadsPlan, ExecutorLoadsAuthorization, ExecutorTypes, PairingInv,
       history
  <2>2. QED
    BY <2>1, EmptyFacts DEF PairingInv
<1>3. CASE Verify
  <2> DEFINE verified == VerifiesPairingPlan(executor.plan, executor.authorization, now)
  <2>1. executor' = [pc |-> IF verified THEN "run" ELSE "refused", plan |-> executor.plan,
                     authorization |-> executor.authorization,
                     next |-> executor.next, at |-> now, queue |-> executor.queue]
    BY <1>0, <1>3 DEF Verify, ExecutorTypes
  <2>2. performed' = <<>>
    BY <1>0, <1>3 DEF Verify, PairingInv, history
  <2>3. CASE verified
    BY <2>1, <2>2, <2>3, EmptyFacts DEF PairingInv
  <2>4. CASE ~verified
    BY <2>1, <2>2, <2>4, EmptyFacts DEF PairingInv
  <2>5. QED
    BY <2>3, <2>4
<1>4. CASE Pair
  <2>1. performed = <<>> /\ executor'.pc = "stopped"
    BY <1>0, <1>4 DEF Pair, PairingInv, ExecutorTypes
  <2>2. Len(performed) = 0 /\ Len(performed) <= 1
    BY <2>1, EmptyFacts
  <2>3. Len(performed') <= 1
    <3>1. CASE performed' = performed
      BY <2>2, <3>1
    <3>2. ASSUME NEW e, performed' = Append(performed, e) PROVE Len(performed') <= 1
      BY <1>0, <2>2, <3>2, AppendFacts
    <3>3. QED
      BY <1>4, <3>1, <3>2 DEF Pair
  <2>4. executor'.pc # "run" /\ executor'.pc # "refused"
    BY <2>1
  <2>5. QED
    BY <2>1, <2>3, <2>4, Zenon DEF PairingInv
<1>5. CASE BeginOperation \/ Send \/ SurveyStarts \/ SurveyDiscovers \/ \E d \in Devices : SurveyVisits(d)
  BY <1>0, <1>5 DEF BeginOperation, Send, SurveyStarts, SurveyDiscovers, SurveyVisits
<1>6. QED
  BY <1>1, <1>2, <1>3, <1>4, <1>5 DEF Next, Aside

\* SurveyInv is kept: the queue is within the authorization when it is made, and
\* what is visited leaves it.
LEMMA SurveyStep == LifecycleInv /\ workflow = "survey" /\ [Next]_vars => SurveyInv'
<1> SUFFICES ASSUME LifecycleInv, workflow = "survey", [Next]_vars PROVE SurveyInv'
  OBVIOUS
<1>0. /\ SurveyInv /\ ExecutorTypes /\ FileTypes /\ IsSequence(performed)
      /\ executor.pc \in {"start", "discover", "visit", "refused", "stopped"}
  BY DEF LifecycleInv, WorkflowInv, ExecutorTypes, Places
<1>1. CASE Aside
  BY <1>0, <1>1, AsideChanges DEF SurveyInv
<1>2. CASE SurveyStarts
  <2>1. executor'.pc \in {"discover", "refused"} /\ performed' = <<>>
    BY <1>0, <1>2 DEF SurveyStarts, SurveyInv, ExecutorTypes, history
  <2>2. QED
    BY <2>1 DEF SurveyInv
<1>3. CASE SurveyDiscovers
  <2>1. PICK queue \in SUBSET Devices :
          executor' = [executor EXCEPT
            !.pc = IF SurveyAuthorized(executor.authorization, executor.plan, queue, now)
                   THEN "visit" ELSE "refused",
            !.queue = queue, !.at = now]
    BY <1>3 DEF SurveyDiscovers
  <2> DEFINE authorized == SurveyAuthorized(executor.authorization, executor.plan, queue, now)
  <2>2. executor' = [pc |-> IF authorized THEN "visit" ELSE "refused", plan |-> executor.plan,
                     authorization |-> executor.authorization,
                     next |-> executor.next, at |-> now, queue |-> queue]
    BY <1>0, <2>1 DEF ExecutorTypes
  <2>3. performed' = <<>>
    BY <1>0, <1>3 DEF SurveyDiscovers, SurveyInv, history
  <2>4. Cardinality(queue) \in Nat
    BY LifecycleAssumption, FS_Subset, FS_CardinalityType
  <2>5. CASE authorized
    <3>1. /\ executor.authorization.max_operations \in Nat
          /\ Cardinality(queue) <= executor.authorization.max_operations
      BY <2>5, HardMaxAssumption DEF SurveyAuthorized, AuthorizationValid, ConstraintsValid
    <3>2. QED
      BY <2>2, <2>3, <2>4, <2>5, <3>1, EmptyFacts DEF SurveyInv
  <2>6. CASE ~authorized
    BY <2>2, <2>6 DEF SurveyInv
  <2>7. QED
    BY <2>5, <2>6
<1>4. ASSUME NEW d \in Devices, SurveyVisits(d) PROVE SurveyInv'
  <2>1. CASE executor' = [executor EXCEPT !.pc = "stopped"]
    <3>1. executor'.pc = "stopped"
      BY <1>0, <2>1 DEF ExecutorTypes
    <3>2. QED
      BY <3>1 DEF SurveyInv
  <2>2. CASE executor' # [executor EXCEPT !.pc = "stopped"]
    <3>1. /\ executor' = [executor EXCEPT !.queue = @ \ {d}, !.at = now]
          /\ performed' = Append(performed,
               [operation |-> d, authorization |-> executor.authorization, at |-> now])
          /\ executor.pc = "visit" /\ d \in executor.queue
      BY <1>4, <2>2 DEF SurveyVisits
    <3>2. executor' = [pc |-> "visit", plan |-> executor.plan,
                       authorization |-> executor.authorization,
                       next |-> executor.next, at |-> now, queue |-> executor.queue \ {d}]
      BY <1>0, <3>1 DEF ExecutorTypes
    <3>3. Len(performed') = Len(performed) + 1 /\ Len(performed) \in Nat
      BY <1>0, <3>1, AppendFacts
    <3>4. IsFiniteSet(executor.queue)
      BY <1>0, LifecycleAssumption, FS_Subset DEF ExecutorTypes
    <3>5. /\ Cardinality(executor.queue \ {d}) = Cardinality(executor.queue) - 1
          /\ Cardinality(executor.queue) \in Nat
      BY <3>1, <3>4, FS_RemoveElement, FS_CardinalityType
    <3>6. QED
      BY <1>0, <3>1, <3>2, <3>3, <3>5 DEF SurveyInv
  <2>3. QED
    BY <2>1, <2>2
<1>5. CASE ExecutorLoadsPlan
  BY <1>0, <1>5 DEF ExecutorLoadsPlan, FileTypes
<1>6. CASE ExecutorLoadsAuthorization \/ Verify \/ BeginOperation \/ Send \/ Pair
  BY <1>0, <1>6 DEF ExecutorLoadsAuthorization, Verify, BeginOperation, Send, Pair
<1>7. QED
  BY <1>1, <1>2, <1>3, <1>4, <1>5, <1>6 DEF Next, Aside

-----------------------------------------------------------------------------
(* Nothing beyond the authorization *)

\* What WithinAuthorization says of the i-th thing done.
Permitted(e, i) ==
  /\ e.authorization.not_before <= e.at /\ e.at < e.authorization.expires
  /\ workflow # "survey" => e.authorization = executor.plan.sha256
  /\ Permits(e.authorization, e.operation)
  /\ i <= IF workflow = "pairing" THEN 1 ELSE e.authorization.max_operations

\* WithinAuthorization says of each thing performed that it was permitted.
LEMMA WithinIsPermitted ==
  WithinAuthorization <=> \A i \in 1..Len(performed) : Permitted(performed[i], i)
BY Zenon DEF WithinAuthorization, Permitted

\* What was permitted stays permitted while the plan is the same.
LEMMA StillPermitted ==
  ASSUME NEW e, NEW i, Permitted(e, i), workflow' = workflow, executor'.plan = executor.plan
  PROVE  Permitted(e, i)'
BY DEF Permitted, Permits

\* An operation of a verified plan whose record begins is one that the
\* authorization permits: a plan with typed operations is not for a survey of
\* all that is discovered, and no write is of an unknown mode.
LEMMA GattPermits ==
  ASSUME NEW a, NEW op, NEW t, AuthorizationValid(a, t), VerifiesOperation(op, a),
         RecordCanBegin(op), workflow = "gatt"
  PROVE  Permits(a, op)
<1>1. a.survey_scope = "none"
  <2>1. a.allowed_operations # {Metadata}
    BY DEF VerifiesOperation, Typed, Metadata, Write, Subscribe
  <2>2. QED
    BY <2>1 DEF AuthorizationValid, SurveyScopeValid
<1>2. op.timeout_seconds <= a.max_timeout_seconds
  BY DEF VerifiesOperation, AuthorizationValid, ConstraintsValid
<1>3. ASSUME op.operation_type = Write
      PROVE  /\ a.allow_writes /\ op.payload_bytes <= a.max_payload_bytes
             /\ op.write_mode = "request" \/ a.allow_write_without_response
  BY <1>3 DEF VerifiesOperation, RecordCanBegin
<1>4. op.operation_type = Subscribe => op.duration_seconds <= a.max_subscription_seconds
  BY DEF VerifiesOperation, AuthorizationValid, ConstraintsValid
<1>5. QED
  BY <1>1, <1>2, <1>3, <1>4 DEF VerifiesOperation, Permits

\* The same for the plan of a pairing.
LEMMA PairingPermits ==
  ASSUME NEW a \in Authorizations["pairing"], NEW made, NEW t, workflow = "pairing",
         VerifiesPairingPlan(made, a, t), made.bond
  PROVE  Permits(a, made)
<1>1. a.target.address_type \in {"public", "random"}
  BY LifecycleAssumption DEF VerifiesPairingPlan, PairingAuthorizationValid
<1>2. made.target = a.target /\ made.agent_mode \in a.agent_modes /\ made.disconnect_after
  BY DEF VerifiesPairingPlan, PairingFits
<1>3. {"pair_target"} \cup (IF made.bond THEN {"establish_bond"} ELSE {}) \subseteq a.allowed_operations
  BY DEF VerifiesPairingPlan, PairingFits, PairingAuthorizationValid
<1>4. \A p \in Phases : made.seconds[p] <= a.max_seconds[p]
  <2>1. \A p \in Phases : made.seconds[p] \in 1..a.max_seconds[p] /\ a.max_seconds[p] \in Int
    BY HardMaxPairingAssumption DEF VerifiesPairingPlan, PairingFits, PairingAuthorizationValid
  <2>2. QED
    BY <2>1
<1>5. a.preconditions \subseteq made.preconditions
  BY DEF VerifiesPairingPlan
<1>6. QED
  BY <1>1, <1>2, <1>3, <1>4, <1>5 DEF Permits

\* The same for one device of a survey.
LEMMA SurveyPermits ==
  ASSUME NEW a, NEW d, NEW t, workflow = "survey", executor.plan \in Requests["survey"],
         SurveyAuthorized(a, [executor.plan EXCEPT !.max_targets = 1], {d}, t)
  PROVE  Permits(a, d)
<1>1. Metadata \in a.allowed_operations
  BY DEF SurveyAuthorized
<1>2. CASE a.survey_scope = "none"
  <2>1. [address |-> d, address_type |-> "unknown"] \in a.targets
    BY <1>2 DEF SurveyAuthorized
  <2>2. QED
    BY <1>1, <2>1 DEF Permits
<1>3. CASE a.survey_scope # "none"
  <2>1. a.survey_scope = "all_discovered"
    BY <1>3 DEF SurveyAuthorized, AuthorizationValid, SurveyScopeValid
  <2>2. [executor.plan EXCEPT !.max_targets = 1].acknowledged
    BY <1>3 DEF SurveyAuthorized
  <2>3. executor.plan.acknowledged
    BY <2>2, LifecycleAssumption
  <2>4. QED
    BY <1>1, <2>1, <2>3 DEF Permits
<1>4. QED
  BY <1>2, <1>3

\* A step that appends at most one permitted thing, under the same plan.
LEMMA AppendPermitted ==
  ASSUME LifecycleInv, [Next]_vars, executor'.plan = executor.plan,
         NEW e, performed' = performed \/ performed' = Append(performed, e),
         performed' # performed => Permitted(e, Len(performed) + 1)
  PROVE  WithinAuthorization'
<1>1. IsSequence(performed) /\ workflow' = workflow
  BY WorkflowStays DEF LifecycleInv
<1>2. \A i \in 1..Len(performed) : Permitted(performed[i], i)
  BY WithinIsPermitted DEF LifecycleInv
<1>3. ASSUME NEW i \in 1..Len(performed'), NEW x, x = performed'[i]
      PROVE  Permitted(x, i)
  <2>1. CASE performed' = performed
    BY <1>2, <1>3, <2>1
  <2>2. CASE performed' = Append(performed, e) /\ performed' # performed
    <3>1. /\ Len(performed) \in Nat /\ Len(performed') = Len(performed) + 1
          /\ \A j \in 1..Len(performed) : performed'[j] = performed[j]
          /\ performed'[Len(performed) + 1] = e
      BY <1>1, <2>2, AppendFacts
    <3>2. CASE i = Len(performed) + 1
      BY <1>3, <2>2, <3>1, <3>2
    <3>3. CASE i # Len(performed) + 1
      <4>1. i \in 1..Len(performed)
        BY <1>3, <3>1, <3>3
      <4>2. QED
        BY <1>2, <1>3, <3>1, <4>1
    <3>4. QED
      BY <3>2, <3>3
  <2>3. QED
    BY <2>1, <2>2
<1>4. ASSUME NEW i \in 1..Len(performed'), NEW x, x = performed'[i]
      PROVE  Permitted(x, i)'
  BY <1>1, <1>3, <1>4, StillPermitted
<1>5. QED
  BY <1>4 DEF WithinAuthorization, Permitted, Permits

\* Some places are of one workflow.
LEMMA SurveyPlaces ==
  ASSUME NEW w \in Workflows, NEW pc \in Places[w]
  PROVE  /\ pc \in {"discover", "visit"} => w = "survey"
         /\ pc = "send" => w = "gatt"
BY DEF Workflows, Places

\* No step performs what the authorization in force did not permit.
LEMMA WithinStep == LifecycleInv /\ [Next]_vars => WithinAuthorization'
<1> SUFFICES ASSUME LifecycleInv, [Next]_vars PROVE WithinAuthorization'
  OBVIOUS
<1>0. ExecutorTypes /\ FileTypes /\ IsSequence(performed) /\ workflow \in Workflows
  BY DEF LifecycleInv, FileTypes
<1>1. CASE Aside
  BY <1>1, AsideChanges, AppendPermitted
<1>2. ASSUME performed' = <<>> PROVE WithinAuthorization'
  BY <1>2, EmptyFacts DEF WithinAuthorization
<1>3. CASE ExecutorLoadsPlan \/ ExecutorLoadsAuthorization \/ Verify
  <2>1. executor.pc \in {"start", "load", "verify"} /\ performed' = performed /\ workflow # "survey"
    BY <1>0, <1>3 DEF ExecutorLoadsPlan, ExecutorLoadsAuthorization, Verify, history, FileTypes,
       ExecutorTypes, Places
  <2>2. performed = <<>>
    BY <1>0, <2>1 DEF LifecycleInv, WorkflowInv, GattInv, PairingInv, Workflows
  <2>3. QED
    BY <1>2, <2>1, <2>2
<1>4. CASE SurveyStarts \/ SurveyDiscovers
  <2>1. executor.pc \in {"start", "discover"} /\ performed' = performed /\ workflow = "survey"
    <3>1. CASE SurveyStarts
      BY <3>1 DEF SurveyStarts, history
    <3>2. CASE SurveyDiscovers
      BY <1>0, <3>2, SurveyPlaces DEF SurveyDiscovers, history, ExecutorTypes
    <3>3. QED
      BY <1>4, <3>1, <3>2
  <2>2. performed = <<>>
    BY <1>0, <2>1 DEF LifecycleInv, WorkflowInv, SurveyInv
  <2>3. QED
    BY <1>2, <2>1, <2>2
<1>5. CASE BeginOperation
  <2>1. executor'.plan = executor.plan /\ performed' = performed
    BY <1>0, <1>5 DEF BeginOperation, ExecutorTypes, history
  <2>2. QED
    BY <2>1, AppendPermitted
<1>6. CASE Send
  <2> DEFINE op == executor.plan.operations[executor.next]
             a == executor.authorization
  <2>1. executor'.plan = executor.plan /\ workflow = "gatt" /\ GattInv
    <3>1. workflow = "gatt"
      BY <1>0, <1>6, SurveyPlaces DEF Send, ExecutorTypes
    <3>2. executor'.plan = executor.plan
      BY <1>0, <1>6 DEF Send, ExecutorTypes
    <3>3. QED
      BY <3>1, <3>2 DEF LifecycleInv, WorkflowInv
  <2>2. performed' = performed \/ performed' = Append(performed, Performed(op))
    BY <1>6 DEF Send
  <2>3. PICK t \in Times : VerifiesPlan(executor.plan, a, t)
    BY <1>6, <2>1 DEF Send, GattInv
  <2>4. /\ AuthorizationValid(a, executor.at) /\ RecordCanBegin(op)
        /\ executor.next <= Len(executor.plan.operations) /\ Len(performed) < executor.next
    BY <1>6, <2>1 DEF Send, GattInv
  <2>5. executor.next \in Nat \ {0} /\ Len(performed) \in Nat
    BY <1>0, AppendFacts DEF ExecutorTypes
  <2>6. /\ Len(executor.plan.operations) \in Nat /\ a.max_operations \in Nat
        /\ Len(executor.plan.operations) <= a.max_operations
        /\ executor.plan.sha256 = a
    BY <2>3, HardMaxAssumption DEF VerifiesPlan, AuthorizationValid, ConstraintsValid
  <2>7. VerifiesOperation(op, a)
    BY <2>3, <2>4, <2>5, <2>6 DEF VerifiesPlan
  <2>8. Permits(a, op)
    BY <2>1, <2>4, <2>7, GattPermits
  <2>9. a.not_before <= executor.at /\ executor.at < a.expires
    BY <2>4 DEF AuthorizationValid, WindowValid
  <2>10. Len(performed) + 1 <= a.max_operations
    BY <2>4, <2>5, <2>6
  <2>11. Permitted(Performed(op), Len(performed) + 1)
    BY <2>1, <2>6, <2>8, <2>9, <2>10 DEF Permitted, Performed
  <2>12. QED
    BY <2>1, <2>2, <2>11, AppendPermitted
<1>7. CASE Pair
  <2> DEFINE a == executor.authorization
  <2>1. executor'.plan = executor.plan /\ workflow = "pairing" /\ executor.pc = "run" /\ PairingInv
    BY <1>0, <1>7 DEF Pair, ExecutorTypes, LifecycleInv, WorkflowInv
  <2>2. performed' = performed \/ performed' = Append(performed, Performed(executor.plan))
    BY <1>7 DEF Pair
  <2>3. CASE ~executor.plan.bond
    BY <1>7, <2>1, <2>3, AppendPermitted DEF Pair
  <2>4. CASE executor.plan.bond
    <3>1. VerifiesPairingPlan(executor.plan, a, executor.at) /\ performed = <<>>
      BY <2>1 DEF PairingInv
    <3>2. a \in Authorizations["pairing"]
      BY <1>0, <2>1 DEF ExecutorTypes
    <3>3. Permits(a, executor.plan)
      BY <2>1, <2>4, <3>1, <3>2, PairingPermits
    <3>4. /\ a.not_before <= executor.at /\ executor.at < a.expires
          /\ executor.plan.sha256 = a
      BY <3>1 DEF VerifiesPairingPlan, PairingAuthorizationValid, PairingWindowValid
    <3>5. Len(performed) + 1 <= 1
      BY <3>1, EmptyFacts
    <3>6. Permitted(Performed(executor.plan), Len(performed) + 1)
      BY <2>1, <3>3, <3>4, <3>5 DEF Permitted, Performed
    <3>7. QED
      BY <2>1, <2>2, <3>6, AppendPermitted
  <2>5. QED
    BY <2>3, <2>4
<1>8. ASSUME NEW d \in Devices, SurveyVisits(d) PROVE WithinAuthorization'
  <2> DEFINE a == executor.authorization
             e == [operation |-> d, authorization |-> executor.authorization, at |-> now]
  <2>1. executor'.plan = executor.plan /\ workflow = "survey" /\ executor.pc = "visit"
    <3>1. workflow = "survey"
      BY <1>0, <1>8, SurveyPlaces DEF SurveyVisits, ExecutorTypes
    <3>2. executor'.plan = executor.plan
      BY <1>0, <1>8 DEF SurveyVisits, ExecutorTypes
    <3>3. QED
      BY <1>8, <3>1, <3>2 DEF SurveyVisits
  <2>2. CASE performed' = performed
    BY <2>1, <2>2, AppendPermitted
  <2>3. CASE performed' # performed
    <3>1. /\ SurveyAuthorized(a, [executor.plan EXCEPT !.max_targets = 1], {d}, now)
          /\ performed' = Append(performed, e) /\ d \in executor.queue
      BY <1>8, <2>3 DEF SurveyVisits
    <3>2. Permits(a, d)
      BY <1>0, <2>1, <3>1, SurveyPermits DEF ExecutorTypes
    <3>3. a.not_before <= now /\ now < a.expires
      BY <3>1 DEF SurveyAuthorized, AuthorizationValid, WindowValid
    <3>4. /\ Len(performed) \in Nat /\ a.max_operations \in Nat
          /\ Len(performed) + Cardinality(executor.queue) <= a.max_operations
      BY <1>0, <2>1, AppendFacts DEF LifecycleInv, WorkflowInv, SurveyInv
    <3>5. Cardinality(executor.queue) \in Nat /\ Cardinality(executor.queue) # 0
      <4>1. IsFiniteSet(executor.queue)
        BY <1>0, LifecycleAssumption, FS_Subset DEF ExecutorTypes
      <4>2. QED
        BY <3>1, <4>1, FS_CardinalityType, FS_EmptySet
    <3>6. Len(performed) + 1 <= a.max_operations
      BY <3>4, <3>5
    <3>7. Permitted(e, Len(performed) + 1)
      BY <2>1, <3>2, <3>3, <3>6 DEF Permitted
    <3>8. QED
      BY <2>1, <3>1, <3>7, AppendPermitted
  <2>4. QED
    BY <2>2, <2>3
<1>9. QED
  BY <1>1, <1>3, <1>4, <1>5, <1>6, <1>7, <1>8 DEF Next, Aside

-----------------------------------------------------------------------------
(* Records and reviews *)

\* A success on record asked for the response that it claims.
LEMMA SucceededClaims ==
  ASSUME NEW op, NEW count, NEW m, m = Succeeded(Baseline(op), op, count)
  PROVE  /\ SemanticsType(m) /\ m.transport = "succeeded"
         /\ m.protocol = "write_request_completed" => op.write_mode = "request"
<1> DEFINE protocol ==
             CASE op.operation_type \in {"read_characteristic", "read_descriptor"} -> "value_received"
               [] op.write_mode = "request" -> "write_request_completed"
               [] op.write_mode = "command" -> "write_command_submitted"
               [] OTHER -> IF count > 0 THEN "notification_received" ELSE "subscription_completed"
           expected ==
             CASE op.operation_type = "subscribe_notifications" -> "null"
               [] op.write_mode = "command" -> "no"
               [] OTHER -> "yes"
           base == Baseline(op)
<1>1. m = [base EXCEPT !.transport = "succeeded", !.protocol = protocol,
                       !.response_expected = expected]
  BY DEF Succeeded
<1>2. base = [transport |-> base.transport, protocol |-> base.protocol,
              response_expected |-> base.response_expected, stages |-> base.stages]
  BY DEF Baseline
<1>3. protocol = "write_request_completed" => op.write_mode = "request"
  <2>1. CASE op.write_mode # "request"
    <3>1. protocol # "write_request_completed"
      BY <2>1
    <3>2. QED
      BY <3>1
  <2>2. QED
    BY <2>1
<1>4. m = [transport |-> "succeeded", protocol |-> protocol, response_expected |-> expected,
           stages |-> base.stages]
  <2> HIDE DEF protocol, expected, base
  <2>1. QED
    BY <1>1, <1>2
<1>5. QED
  <2> HIDE DEF protocol, expected, base
  <2>1. QED
    BY <1>3, <1>4 DEF SemanticsType

\* A failure on record claims nothing.
LEMMA FailedClaims ==
  ASSUME NEW op, NEW m, m = Failed(Baseline(op))
  PROVE  SemanticsType(m) /\ m.transport = "failed" /\ m.protocol = "failed"
<1>1. m = [transport |-> "failed", protocol |-> "failed",
           response_expected |-> Baseline(op).response_expected, stages |-> Baseline(op).stages]
  BY DEF Failed, Baseline
<1>2. QED
  BY <1>1 DEF SemanticsType

\* What ResultsInv says of one record.
Founded(result) ==
  /\ SemanticsType(result.semantics)
  /\ result.transport_success =>
       \E k \in 1..Len(performed) : performed[k].operation = result.operation
  /\ result.semantics.protocol = "write_request_completed" => result.operation.write_mode = "request"
ReviewFounded(r) ==
  \E i \in 1..Len(results), review \in Reviews :
    ReviewAccepted(results[i], review) /\ r = ReviewOf(results[i], review)

\* Each result has its operation, and each review its result.
LEMMA ResultsAreFounded ==
  ResultsInv <=> /\ \A i \in 1..Len(results) : Founded(results[i])
                 /\ \A r \in reviews : ReviewFounded(r)
BY Zenon DEF ResultsInv, Founded, ReviewFounded

\* The histories only grow, and a record only with what it tells of.
LEMMA HistoriesGrow ==
  LifecycleInv /\ [Next]_vars =>
    /\ \A k \in 1..Len(performed) : k \in 1..Len(performed') /\ performed'[k] = performed[k]
    /\ \A i \in 1..Len(results) : i \in 1..Len(results') /\ results'[i] = results[i]
<1> SUFFICES ASSUME LifecycleInv, [Next]_vars
    PROVE  /\ \A k \in 1..Len(performed) : k \in 1..Len(performed') /\ performed'[k] = performed[k]
           /\ \A i \in 1..Len(results) : i \in 1..Len(results') /\ results'[i] = results[i]
  OBVIOUS
<1>0. IsSequence(performed) /\ IsSequence(results)
  BY DEF LifecycleInv
<1>1. performed' = performed \/ \E e : performed' = Append(performed, e)
  BY DEF Next, vars, history, Tick, Edit, PlannerLoads, PlannerBuilds, ExecutorLoadsPlan,
     ExecutorLoadsAuthorization, Verify, BeginOperation, Send, Pair, SurveyStarts, SurveyDiscovers,
     SurveyVisits, ReviewResult
<1>2. results' = results \/ \E e : results' = Append(results, e)
  BY DEF Next, vars, history, Tick, Edit, PlannerLoads, PlannerBuilds, ExecutorLoadsPlan,
     ExecutorLoadsAuthorization, Verify, BeginOperation, Send, Pair, SurveyStarts, SurveyDiscovers,
     SurveyVisits, ReviewResult
<1>3. \A k \in 1..Len(performed) : k \in 1..Len(performed') /\ performed'[k] = performed[k]
  BY <1>0, <1>1, AppendFacts
<1>4. \A i \in 1..Len(results) : i \in 1..Len(results') /\ results'[i] = results[i]
  BY <1>0, <1>2, AppendFacts
<1>5. QED
  BY <1>3, <1>4

\* Records and reviews say no more than their operations, at every step.
LEMMA ResultsStep == LifecycleInv /\ [Next]_vars => ResultsInv'
<1> SUFFICES ASSUME LifecycleInv, [Next]_vars PROVE ResultsInv'
  OBVIOUS
<1>0. /\ IsSequence(performed) /\ IsSequence(results)
      /\ \A i \in 1..Len(results) : Founded(results[i])
      /\ \A r \in reviews : ReviewFounded(r)
  BY ResultsAreFounded DEF LifecycleInv
<1>1. ASSUME NEW result, Founded(result) PROVE Founded(result)'
  BY <1>1, HistoriesGrow DEF Founded
<1>2. ASSUME NEW r, ReviewFounded(r) PROVE ReviewFounded(r)'
  BY <1>2, HistoriesGrow DEF ReviewFounded
<1>3. ASSUME NEW i \in 1..Len(results'), NEW result, result = results'[i] PROVE Founded(result)'
  <2>1. CASE results' = results
    BY <1>0, <1>1, <1>3, <2>1
  <2>2. CASE results' # results
    <3>1. Send
      BY <2>2 DEF Next, vars, history, Tick, Edit, PlannerLoads, PlannerBuilds, ExecutorLoadsPlan,
         ExecutorLoadsAuthorization, Verify, BeginOperation, Pair, SurveyStarts, SurveyDiscovers,
         SurveyVisits, ReviewResult
    <3> DEFINE op == executor.plan.operations[executor.next]
    <3>2. ASSUME NEW e, results' = Append(results, e), e = result => Founded(e)'
          PROVE  Founded(result)'
      <4>1. CASE i \in 1..Len(results)
        BY <1>0, <1>1, <1>3, <4>1, HistoriesGrow
      <4>2. CASE i \notin 1..Len(results)
        <5>1. i = Len(results) + 1
          BY <1>0, <1>3, <3>2, <4>2, AppendFacts
        <5>2. QED
          BY <1>0, <1>3, <3>2, <5>1, AppendFacts
      <4>3. QED
        BY <4>1, <4>2
    <3>3. ASSUME NEW count \in 0..1, performed' = Append(performed, Performed(op)),
                 results' = Append(results, Result(op, Succeeded(Baseline(op), op, count)))
          PROVE  Founded(result)'
      <4>1. /\ performed'[Len(performed) + 1].operation = op
            /\ Len(performed) + 1 \in 1..Len(performed')
        BY <1>0, <3>3, AppendFacts DEF Performed
      <4>2. ASSUME NEW e, e = Result(op, Succeeded(Baseline(op), op, count)) PROVE Founded(e)'
        <5>1. /\ SemanticsType(e.semantics) /\ e.operation = op
              /\ e.semantics.protocol = "write_request_completed" => op.write_mode = "request"
          BY <4>2, SucceededClaims DEF Result
        <5>2. QED
          BY <4>1, <5>1 DEF Founded
      <4>3. QED
        BY <3>2, <3>3, <4>2
    <3>4. ASSUME results' = Append(results, Result(op, Failed(Baseline(op))))
          PROVE  Founded(result)'
      <4>1. ASSUME NEW e, e = Result(op, Failed(Baseline(op))) PROVE Founded(e)'
        <5>1. /\ SemanticsType(e.semantics) /\ ~e.transport_success
              /\ e.semantics.protocol = "failed"
          BY <4>1, FailedClaims DEF Result
        <5>2. QED
          BY <5>1 DEF Founded
      <4>2. QED
        BY <3>2, <3>4, <4>1
    <3>5. QED
      BY <3>1, <3>3, <3>4 DEF Send
  <2>3. QED
    BY <2>1, <2>2
<1>4. ASSUME NEW r \in reviews' PROVE ReviewFounded(r)'
  <2>1. CASE r \in reviews
    BY <1>0, <1>2, <2>1
  <2>2. CASE r \notin reviews
    <3>1. ReviewResult
      BY <1>4, <2>2 DEF Next, vars, history, Tick, Edit, PlannerLoads, PlannerBuilds, ExecutorLoadsPlan,
         ExecutorLoadsAuthorization, Verify, BeginOperation, Send, Pair, SurveyStarts,
         SurveyDiscovers, SurveyVisits
    <3>2. ReviewFounded(r)
      BY <1>4, <3>1 DEF ReviewResult, ReviewFounded
    <3>3. QED
      BY <1>2, <3>2
  <2>3. QED
    BY <2>1, <2>2
<1>5. QED
  BY <1>3, <1>4 DEF ResultsInv, Founded, ReviewFounded

-----------------------------------------------------------------------------
(* The theorems *)

\* The invariant is inductive.
LEMMA LifecycleStep == LifecycleInv /\ [Next]_vars => LifecycleInv'
<1> SUFFICES ASSUME LifecycleInv, [Next]_vars PROVE LifecycleInv'
  OBVIOUS
<1>1. WorkflowInv'
  BY WorkflowStays, GattStep, PairingStep, SurveyStep DEF WorkflowInv
<1>2. QED
  BY <1>1, FilesStep, ExecutorStep, SequencesStep, BuiltStep, WithinStep, ResultsStep
     DEF LifecycleInv

\* The inductive invariant is one of the specification.
LEMMA LifecycleAlways == Spec => []LifecycleInv
<1>1. QED
  BY InitInv, LifecycleStep, PTL DEF Spec

\* TypeOK: the commands are in places of their workflow and read files that
\* were there, and no more operations are done than the plan has come to.
THEOREM TypeCorrect == Spec => []TypeOK
<1>1. LifecycleInv => TypeOK
  <2> SUFFICES ASSUME LifecycleInv PROVE TypeOK
    OBVIOUS
  <2>1. FileTypes /\ ExecutorTypes /\ IsSequence(performed) /\ Len(performed) \in Nat
    BY AppendFacts DEF LifecycleInv
  <2>2. executor.pc = "send" => executor.next <= Len(executor.plan.operations)
    BY <2>1, SurveyPlaces DEF LifecycleInv, WorkflowInv, GattInv, FileTypes, ExecutorTypes
  <2>3. workflow # "survey" => Len(performed) <= executor.next
    <3>1. CASE workflow = "gatt"
      BY <3>1 DEF LifecycleInv, WorkflowInv, GattInv
    <3>2. CASE workflow = "pairing"
      BY <2>1, <3>2 DEF LifecycleInv, WorkflowInv, PairingInv, ExecutorTypes
    <3>3. QED
      BY <2>1, <3>1, <3>2 DEF FileTypes, Workflows
  <2>4. executor.pc \in {"start", "load", "verify", "run", "send", "discover", "visit",
                         "refused", "stopped"}
    BY <2>1 DEF FileTypes, ExecutorTypes, Workflows, Places
  <2>5. QED
    BY <2>1, <2>2, <2>3, <2>4 DEF TypeOK, FileTypes, ExecutorTypes
<1>2. QED
  BY <1>1, LifecycleAlways, PTL

\* WithinAuthorization: nothing is done that the authorization the plan was made
\* from does not permit, at a time it was found open at, and no more often.
THEOREM NothingBeyondAuthorization == Spec => []WithinAuthorization
<1>1. LifecycleInv => WithinAuthorization
  BY DEF LifecycleInv
<1>2. QED
  BY <1>1, LifecycleAlways, PTL

\* PlansAreAccepted: the checks of planner and executor agree, though they are
\* written twice: a plan that reaches the executor as it was written, with the
\* authorization it was written for, is refused by the clock alone.
THEOREM PlannerAndExecutorAgree == Spec => []PlansAreAccepted
<1>1. LifecycleInv => PlansAreAccepted
  <2> SUFFICES ASSUME LifecycleInv, executor.pc = "refused", executor.plan = built,
                      workflow # "survey", executor.authorization = built.sha256,
                      built.sha256.not_before <= executor.at, executor.at < built.sha256.expires
               PROVE  FALSE
    BY DEF PlansAreAccepted
  <2>1. built # None /\ workflow \in {"gatt", "pairing"}
    BY DEF LifecycleInv, ExecutorTypes, FileTypes, Workflows
  <2>2. PICK a \in Authorizations[workflow], r \in Requests[workflow], t \in Times : BuiltOf(a, r, t)
    BY <2>1 DEF LifecycleInv, BuiltInv
  <2>3. CASE workflow = "gatt"
    <3>1. CanPlan(a, r, t) /\ built = PlanOf(a, r) /\ GattInv
      BY <2>2, <2>3 DEF BuiltOf, LifecycleInv, WorkflowInv
    <3>2. /\ built.sha256 = a /\ built.operations = r.operations
          /\ built.status = "contract_only" /\ built.authorization_ref = a.authorization_id
      BY <3>1 DEF PlanOf
    <3>3. AuthorizationValid(a, executor.at)
      BY <3>1, <3>2 DEF CanPlan, AuthorizationValid, WindowValid
    <3>4. \A i \in 1..Len(r.operations) :
            VerifiesOperation(r.operations[i], a) /\ RecordCanBegin(r.operations[i])
      BY <3>1 DEF CanPlan, OperationFits, VerifiesOperation, RecordCanBegin
    <3>5. VerifiesPlan(built, a, executor.at)
      BY <3>1, <3>2, <3>3, <3>4 DEF CanPlan, VerifiesPlan
    <3>6. QED
      BY <3>1, <3>2, <3>3, <3>4, <3>5 DEF GattInv
  <2>4. CASE workflow = "pairing"
    <3>1. CanPlanPairing(a, r, t) /\ built = PairingPlanOf(a, r) /\ PairingInv
      BY <2>2, <2>4 DEF BuiltOf, LifecycleInv, WorkflowInv
    <3>2. VerifiesPairingPlan(built, a, executor.at) /\ built.sha256 = a
      BY <3>1 DEF CanPlanPairing, PairingPlanOf, VerifiesPairingPlan, PairingFits,
         PairingAuthorizationValid, PairingWindowValid
    <3>3. QED
      BY <3>1, <3>2 DEF PairingInv
  <2>5. QED
    BY <2>1, <2>3, <2>4
<1>2. QED
  BY <1>1, LifecycleAlways, PTL

\* EvidenceIsModest: a record claims a completed request only for one that was
\* sent with a response asked for, and a review adds to it only with evidence.
THEOREM RecordsAreModest == Spec => []EvidenceIsModest
<1>1. LifecycleInv => EvidenceIsModest
  <2> SUFFICES ASSUME LifecycleInv PROVE EvidenceIsModest
    OBVIOUS
  <2>1. /\ \A i \in 1..Len(results) : Founded(results[i])
        /\ \A r \in reviews : ReviewFounded(r)
    BY ResultsAreFounded DEF LifecycleInv
  <2>2. ASSUME NEW r \in reviews
        PROVE  /\ Founded(r.sha256) /\ r.semantics.protocol = r.sha256.semantics.protocol
               /\ \A stage \in Stages : r.semantics.stages[stage].state # "not_assessed"
                                          => r.semantics.stages[stage].evidence # {}
    <3>1. PICK i \in 1..Len(results), review \in Reviews :
            ReviewAccepted(results[i], review) /\ r = ReviewOf(results[i], review)
      BY <2>1, <2>2 DEF ReviewFounded
    <3> DEFINE m == results[i].semantics
               stages == [s \in Stages |-> IF s \in DOMAIN review THEN review[s] ELSE m.stages[s]]
    <3>2. r.sha256 = results[i] /\ r.semantics = [m EXCEPT !.stages = stages]
      BY <3>1 DEF ReviewOf
    <3>3. Founded(results[i]) /\ SemanticsType(m)
      BY <2>1, <3>1 DEF Founded
    <3>4. r.semantics.protocol = m.protocol /\ r.semantics.stages = stages
      <4> HIDE DEF stages, m
      <4>1. QED
        BY <3>2, <3>3 DEF SemanticsType
    <3>5. ASSUME NEW stage \in Stages, stages[stage].state # "not_assessed"
          PROVE  stages[stage].evidence # {}
      <4>1. CASE stage \in DOMAIN review
        BY <3>1, <3>5, <4>1 DEF ReviewAccepted
      <4>2. CASE stage \notin DOMAIN review
        BY <3>1, <3>5, <4>2 DEF ReviewAccepted, SemanticsValid
      <4>3. QED
        BY <4>1, <4>2
    <3>6. QED
      BY <3>2, <3>3, <3>4, <3>5
  <2>3. \A s \in {results[i] : i \in 1..Len(results)} \cup {r.sha256 : r \in reviews} : Founded(s)
    BY <2>1, <2>2
  <2>4. QED
    BY <2>2, <2>3 DEF EvidenceIsModest, Founded
<1>2. QED
  BY <1>1, LifecycleAlways, PTL
=============================================================================
