------------------------------ MODULE Operation ------------------------------
(***************************************************************************)
(* One operation on one device, from the HTTP request to the audit record: *)
(* operationsvc.Service.Submit, the planner, the executor, the task row    *)
(* and the audit row, run against the inventory of module Inventory, the   *)
(* access rules of AccessControl and the plugin of FakePlugin.             *)
(*                                                                         *)
(* A client's request creates at most one task, so a task is named by the  *)
(* client that created it.  The scheduler is the one of module Scheduler   *)
(* with a claim and a final write of one step each, and without its order  *)
(* of claims; the device guard is the one of ExecutionGuards, one holder   *)
(* for each device.                                                        *)
(*                                                                         *)
(* A hash is the hashed value itself.  Statements of PostgreSQL, sessions  *)
(* and the process fail at most MaxFaults times together; a failed         *)
(* statement may have been committed.                                      *)
(***************************************************************************)
EXTENDS Inventory, FakePlugin

CONSTANTS Workers,     \* scheduler.Config.Workers
          MaxFaults    \* bound on failures, shutdowns and crashes

ASSUME BoundsAssumption == Workers \in Nat /\ MaxFaults \in Nat

\* A body's commands are a list of lists of tokens.
ASSUME SubmitRequestsAssumption ==
    \A s \in Scenarios, c \in Clients :
      s[c].kind = "Submit" => s[c].parameters.commands \in Seq(Seq(STRING))

VARIABLES
    tasks,        \* task rows
    audits,       \* status of the audit row of each task, "none" without one
    exec,         \* the executor's state for each task
    guard,        \* the task that holds each device, 0 for none
    vlans,        \* VLANs of the device behind each device row
    app,          \* "starting" and "recovering" (Recover has to list rows, to
                  \* queue them), "up" (workers run), "stopping" (the context
                  \* is cancelled), "down"; requests are served but in the last
    recoverable,  \* the PENDING rows that Recover has still to queue
    faults,
    sent,         \* history: the commands sent for each task
    auditWrites   \* history: every status each audit row was completed with

operationVars == <<tasks, audits, exec, guard, vlans, sent, auditWrites>>
vars == <<req, clientVars, inventoryVars, operationVars, app, recoverable, faults>>

Terminal == {"SUCCESS", "PARTIAL_SUCCESS", "FAILED", "CANCELLED", "INTERRUPTED"}

NoPlan == [device |-> ""]
NoParameters == [vlan |-> 0, name |-> "", commands |-> <<>>]
NoTask == [status |-> "none", actor |-> "", key |-> "", snap |-> NoParameters,
           main |-> NoPlan, save |-> NoPlan, err |-> "", cancel |-> FALSE]
Idle == [pc |-> "idle", row |-> NoDevice, main |-> NoPlan, save |-> NoPlan,
         records |-> <<>>, status |-> "", err |-> "", cancelled |-> FALSE]

Init ==
    /\ InitInventory /\ InitClients
    /\ tasks = [t \in Clients |-> NoTask]
    /\ audits = [t \in Clients |-> "none"]
    /\ exec = [t \in Clients |-> Idle]
    /\ guard = [d \in DevIds |-> 0]
    /\ vlans = [d \in DevIds |-> <<>>]
    /\ app = "starting" /\ recoverable = {} /\ faults = 0
    /\ sent = [t \in Clients |-> <<>>]
    /\ auditWrites = [t \in Clients |-> {}]

Fault == faults < MaxFaults /\ faults' = faults + 1

-----------------------------------------------------------------------------
(* The planner.                                                            *)

validateDeviceForOperation(d, class) ==
    IF ~ValidDevice(d) THEN "INTERNAL_ERROR"
    ELSE IF d.status = "DISABLED" THEN "DEVICE_DISABLED"
    ELSE IF d.status = "UNREACHABLE" THEN "DEVICE_UNREACHABLE"
    ELSE IF class # "QUERY" /\ d.identity # "VERIFIED" THEN "IDENTITY_MISMATCH"
    ELSE ""

mapPlanningError(error) ==
    IF error = "" THEN ""
    ELSE IF error = "ErrPluginNotFound" THEN "PLUGIN_NOT_FOUND"
    ELSE IF error = "INVALID_REQUEST" THEN "VALIDATION_ERROR"
    ELSE IF error = "UNSUPPORTED_OPERATION" THEN "OPERATION_NOT_IMPLEMENTED"
    ELSE "INTERNAL_ERROR"

\* validatePluginPlan: the plan is the one that was asked for.
validatePluginPlan(plan, request) ==
    /\ ValidPlan(plan)
    /\ plan.device = request.device /\ plan.vendor = request.info.vendor
    /\ plan.plugin = Registry[plan.vendor].name /\ plan.version = Registry[plan.vendor].version
    /\ plan.op = request.op /\ plan.class = request.class /\ plan.save = request.save

Failed(code) == [error |-> code, row |-> NoDevice, main |-> NoPlan, save |-> NoPlan,
                 plan |-> NoPlan]
Unless(code, outcome) == IF code # "" THEN Failed(code) ELSE outcome

\* buildPlan: [error, plan].
CheckedPlan(request, built) ==
    Unless(mapPlanningError(built.error),
    Unless(IF validatePluginPlan(built.plan, request) THEN "" ELSE "INTERNAL_ERROR",
           built))

Supported(looked) ==
    IF looked.error # "" THEN mapPlanningError(looked.error)
    ELSE IF looked.level = "UNSUPPORTED" THEN "CAPABILITY_NOT_SUPPORTED" ELSE ""

buildPlan(request) ==
    Unless(IF Declares(Registry[request.info.vendor], request.op) THEN ""
           ELSE IF request.op = SaveConfigOperation THEN "CAPABILITY_NOT_SUPPORTED"
           ELSE "UNSUPPORTED_OPERATION",
    Unless(Supported(LookupCapability(Registry, request.info.vendor, request.info, request.op,
                                      Capabilities(request.info))),
           CheckedPlan(request, BuildPlan(request))))

\* validateCustomCommandPlan: the plugin changed nothing that was decided on.
validateCustomCommandPlan(plan, policy, commands) ==
    /\ plan.op = policy.operation /\ plan.class = policy.class
    /\ plan.enterConfig = (policy.class = "CONFIG")
    /\ Len(plan.commands) = Len(commands)
    /\ \A i \in DOMAIN commands : plan.commands[i].words = commands[i]

\* enforceRisk; higherRisk is maxRisk of CommandSecurity.
enforceRisk(level, confirmed) ==
    IF level = "BLOCKED" THEN "DANGEROUS_COMMAND_BLOCKED"
    ELSE IF level = "HIGH" /\ ~confirmed THEN "RISK_CONFIRMATION_REQUIRED"
    ELSE ""

\* The commands of a custom operation are decided on before any plan is made.
commandDecision(s, info) ==
    LET unsupported == mapPlanningError(CustomCommandPolicyError(info, s.op))
    IN IF s.op \notin CustomCommands THEN [error |-> "", risk |-> "LOW"]
       ELSE IF unsupported # "" THEN Refused(unsupported)
       ELSE Evaluate(CustomCommandPolicy(s.op), s.op, s.parameters.commands)

\* Planner.prepare from the decision on the commands and the plans made.
preparedOperation(s, decision, main, save) ==
    Unless(decision.error,
    Unless(main.error,
    Unless(IF s.op \in CustomCommands
              /\ ~validateCustomCommandPlan(main.plan, CustomCommandPolicy(s.op), s.parameters.commands)
           THEN "INTERNAL_ERROR" ELSE "",
    Unless(enforceRisk(maxRisk(main.plan.risk, decision.risk), s.confirm),
    Unless(save.error,
    Unless(IF s.save THEN enforceRisk(save.plan.risk, s.confirm) ELSE "",
           [error |-> "", row |-> devices[s.device], save |-> save.plan,
            main |-> [main.plan EXCEPT !.risk = maxRisk(@, decision.risk)]]))))))

\* Planner.prepare on the device row as it is now.
prepare(s) ==
    LET d == devices[s.device]
        info == [vendor |-> d.vendor, model |-> d.model]
        request(op, class, parameters, save) ==
            [device |-> s.device, info |-> info, op |-> op, class |-> class,
             parameters |-> parameters, save |-> save]
    IN Unless(IF s.device \in Live(devices) THEN "" ELSE "DEVICE_NOT_FOUND",
       Unless(validateDeviceForOperation(d, s.class),
       Unless(IF d.vendor \in DOMAIN Registry THEN "" ELSE "PLUGIN_NOT_FOUND",
              preparedOperation(s, commandDecision(s, info),
                  buildPlan(request(s.op, s.class, s.parameters, s.save)),
                  IF s.save THEN buildPlan(request(SaveConfigOperation, "CONFIG", NoParameters, FALSE))
                  ELSE [error |-> "", plan |-> NoPlan]))))

-----------------------------------------------------------------------------
(* Service.Submit.                                                         *)

Class(op) == IF op \in VLANChanges \cup {ConfigOperation} THEN "CONFIG" ELSE "QUERY"

OperationRoutes == VLANRoutes @@ CustomCommandRoutes

Access(r) == Require(r.headers, OperationRoutes[r.op], switchScope(r.device))

\* snapshotRequest; the fingerprint is the hash of it.
snapshotRequest(r) ==
    [op |-> r.op, class |-> Class(r.op), device |-> r.device, parameters |-> r.parameters,
     mode |-> r.mode, dry |-> r.dry, save |-> r.save, confirm |-> r.confirm]

\* The middleware, the checks of the VLAN and command handlers and
\* operation.Request.Validate.
SubmitError(r) ==
    LET p == r.parameters
        bad == \/ r.op \in (VLANChanges \cup {"vlan.get"}) /\ p.vlan \notin 1..4094
               \/ r.op = "vlan.update" /\ p.name = ""
               \/ r.op \in CustomCommands /\ p.commands = <<>>
               \/ r.save /\ Class(r.op) # "CONFIG"
    IN IF Access(r).error # "" THEN Access(r).error
       ELSE IF bad THEN "VALIDATION_ERROR" ELSE ""

Submits(c) == req[c].kind = "Submit"

Reject(c) ==
    /\ pc[c] = "start" /\ Submits(c) /\ SubmitError(req[c]) # ""
    /\ Answer(c, SubmitError(req[c]))
    /\ UNCHANGED <<operationVars, faults>>

\* writeVLANSubmission.
SubmissionCode(mode, t) ==
    IF mode = "ASYNC" \/ tasks[t].status \notin Terminal THEN "ACCEPTED"
    ELSE IF tasks[t].status = "FAILED" THEN tasks[t].err
    ELSE IF tasks[t].status \in {"CANCELLED", "INTERRUPTED"} THEN "STATE_CONFLICT"
    ELSE "OK"

Respond(c, t) ==
    /\ answer' = [answer EXCEPT ![c] = [code |-> SubmissionCode(req[c].mode, t), task |-> t]]
    /\ pc' = [pc EXCEPT ![c] = "done"]
    /\ UNCHANGED row

Wait(c, t) ==
    /\ answer' = [answer EXCEPT ![c].task = t]
    /\ pc' = [pc EXCEPT ![c] = "wait"]
    /\ UNCHANGED row

replay(c, t) ==
    IF tasks[t].snap # snapshotRequest(req[c]) THEN Answer(c, "IDEMPOTENCY_CONFLICT")
    ELSE IF req[c].mode = "ASYNC" \/ tasks[t].status \in Terminal THEN Respond(c, t)
    ELSE Wait(c, t)

\* TaskRepository.FindByIdempotency.
Found(c) == {t \in Clients : /\ tasks[t].status # "none" /\ req[c].key # ""
                             /\ tasks[t].key = req[c].key
                             /\ tasks[t].actor = Access(req[c]).actor}

FindByIdempotency(c) ==
    /\ pc[c] = "start" /\ Submits(c) /\ SubmitError(req[c]) = ""
    /\ IF Found(c) = {} THEN Continue(c, "prepare", row[c])
       ELSE \E t \in Found(c) : replay(c, t)
    /\ UNCHANGED <<operationVars, faults>>

\* Planner.prepare in Submit; the row holds what was prepared.
Preflight(c) ==
    /\ pc[c] = "prepare"
    /\ \E prepared \in {prepare(snapshotRequest(req[c]))} :
          IF prepared.error # "" THEN Answer(c, prepared.error)
          ELSE Continue(c, "create", [main |-> prepared.main, save |-> prepared.save,
                                      audited |-> Class(req[c].op) # "QUERY"])
    /\ UNCHANGED <<operationVars, faults>>

\* The new task row.
NewTask(c) ==
    [NoTask EXCEPT !.status = "PENDING", !.actor = Access(req[c]).actor, !.key = req[c].key,
                   !.snap = snapshotRequest(req[c]), !.main = row[c].main, !.save = row[c].save]

\* CreateTaskAndAudit inserts the task and its audit row in one transaction;
\* for a query tasks.Create inserts the task alone.
Insert(c) ==
    /\ tasks' = [tasks EXCEPT ![c] = NewTask(c)]
    /\ audits' = [audits EXCEPT ![c] = IF Class(req[c].op) = "QUERY" THEN @ ELSE "PENDING"]

\* The unique index on actor and key sends a second insert to the first's row.
Create(c) ==
    /\ pc[c] = "create"
    /\ IF Found(c) # {}
       THEN (\E t \in Found(c) : replay(c, t)) /\ UNCHANGED <<tasks, audits>>
       ELSE /\ Insert(c)
            /\ Continue(c, IF Class(req[c].op) = "QUERY" THEN "createAudit" ELSE "queue", row[c])
    /\ UNCHANGED <<exec, guard, vlans, sent, auditWrites, faults>>

\* The insert fails, or is committed and its answer is lost.
CreateFails(c) ==
    /\ pc[c] = "create" /\ Fault
    /\ \/ Insert(c) /\ Found(c) = {}
       \/ UNCHANGED <<tasks, audits>>
    /\ Answer(c, "DATABASE_UNAVAILABLE")
    /\ UNCHANGED <<exec, guard, vlans, sent, auditWrites>>

\* The audit row of a query: its failure is reported and nothing else.
CreateQueryAudit(c) ==
    /\ pc[c] = "createAudit"
    /\ \/ /\ audits' = [audits EXCEPT ![c] = "PENDING"] /\ UNCHANGED faults
          /\ Continue(c, "queue", [row[c] EXCEPT !.audited = TRUE])
       \/ /\ audits' \in {audits, [audits EXCEPT ![c] = "PENDING"]} /\ Fault
          /\ Continue(c, "queue", row[c])
    /\ UNCHANGED <<tasks, exec, guard, vlans, sent, auditWrites>>

\* TaskRepository.QueuePending: a row that is QUEUED already will do, any
\* other is a conflict.
Queueable(t) == tasks[t].status \in {"PENDING", "QUEUED"}
QueuePending(t) == Queueable(t) /\ tasks' = [tasks EXCEPT ![t].status = "QUEUED"]

\* Scheduler.Queue, and then the answer or the wait.
Queue(c) ==
    /\ pc[c] = "queue" /\ QueuePending(c)
    /\ IF req[c].mode = "ASYNC"
       THEN answer' = [answer EXCEPT ![c] = [code |-> "ACCEPTED", task |-> c]]
            /\ pc' = [pc EXCEPT ![c] = "done"] /\ UNCHANGED row
       ELSE Wait(c, c)
    /\ UNCHANGED <<audits, exec, guard, vlans, sent, auditWrites, faults>>

\* The clean-up after a Queue that returned an error; its own errors are
\* dropped, and the error of Queue is the answer.
CleanUp(c, code) == Continue(c, "cancel", [audited |-> row[c].audited, error |-> code])

\* Recovery has queued the row first, and a worker has claimed it.
QueueConflict(c) ==
    /\ pc[c] = "queue" /\ ~Queueable(c)
    /\ CleanUp(c, "STATE_CONFLICT")
    /\ UNCHANGED <<operationVars, faults>>

\* Queue fails, with its statement committed or not.
QueueFails(c) ==
    /\ pc[c] = "queue" /\ Fault
    /\ QueuePending(c) \/ UNCHANGED tasks
    /\ CleanUp(c, "DATABASE_UNAVAILABLE")
    /\ UNCHANGED <<audits, exec, guard, vlans, sent, auditWrites>>

\* The outage that failed Queue may last.
CleanUpFails(c) == IF row[c].error = "DATABASE_UNAVAILABLE" THEN UNCHANGED faults ELSE Fault

\* TaskRepository.RequestCancel.
RequestCancel(task) ==
    IF task.status \in {"PENDING", "QUEUED"} THEN [task EXCEPT !.status = "CANCELLED"]
    ELSE IF task.status = "RUNNING" THEN [task EXCEPT !.cancel = TRUE] ELSE task

CleanUpTask(c) ==
    /\ pc[c] = "cancel"
    /\ \/ tasks' = [tasks EXCEPT ![c] = RequestCancel(@)] /\ UNCHANGED faults
       \/ UNCHANGED tasks /\ CleanUpFails(c)
    /\ Continue(c, "cancelAudit", row[c])
    /\ UNCHANGED <<audits, exec, guard, vlans, sent, auditWrites>>

\* audits.Complete: whatever the row says is replaced.
CompleteAudit(t, status) ==
    IF audits[t] = "none" THEN UNCHANGED <<audits, auditWrites>>
    ELSE /\ audits' = [audits EXCEPT ![t] = status]
         /\ auditWrites' = [auditWrites EXCEPT ![t] = @ \cup {status}]

CleanUpAudit(c) ==
    /\ pc[c] = "cancelAudit"
    /\ IF row[c].audited
       THEN \/ CompleteAudit(c, "CANCELLED") /\ UNCHANGED faults
            \/ UNCHANGED <<audits, auditWrites>> /\ CleanUpFails(c)
       ELSE UNCHANGED <<audits, auditWrites, faults>>
    /\ Answer(c, row[c].error)
    /\ UNCHANGED <<tasks, exec, guard, vlans, sent>>

\* Service.wait: the poll that finds the task ended.
WaitEnded(c) ==
    /\ pc[c] = "wait" /\ tasks[answer[c].task].status \in Terminal
    /\ Respond(c, answer[c].task)
    /\ UNCHANGED <<operationVars, faults>>

\* Service.wait: the timer; the submission is deferred.
WaitTimesOut(c) ==
    /\ pc[c] = "wait"
    /\ Answer(c, "ACCEPTED")
    /\ UNCHANGED <<operationVars, faults>>

SubmitStep(c) ==
    \/ Reject(c) \/ FindByIdempotency(c) \/ Preflight(c)
    \/ Create(c) \/ CreateFails(c) \/ CreateQueryAudit(c)
    \/ Queue(c) \/ QueueConflict(c) \/ QueueFails(c) \/ CleanUpTask(c) \/ CleanUpAudit(c)
    \/ WaitEnded(c) \/ WaitTimesOut(c)

-----------------------------------------------------------------------------
(* Executor.Execute, in the scheduler's worker.                            *)

Executing(t, at) == exec[t].pc = at
Goto(t, at) == exec' = [exec EXCEPT ![t].pc = at]

\* The context of the execution is done: the task was cancelled or the
\* application is stopping.
ContextDone(t) == exec[t].cancelled \/ app = "stopping"

\* TaskRepository.ClaimNextQueued in Scheduler.worker; Run starts the workers
\* after Recover.
Claim(t) ==
    /\ app = "up" /\ tasks[t].status = "QUEUED"
    /\ Cardinality({u \in Clients : exec[u].pc # "idle"}) < Workers
    /\ tasks' = [tasks EXCEPT ![t].status = "RUNNING"]
    /\ Goto(t, "reload")
    /\ UNCHANGED <<audits, guard, vlans, sent, auditWrites, faults>>

\* Scheduler.execute up to the handler: the row is read again for a request
\* to cancel; a stopping application does not call the handler.
Reload(t) ==
    /\ Executing(t, "reload")
    /\ exec' = [exec EXCEPT ![t] =
                  IF app = "stopping" THEN [@ EXCEPT !.pc = "finalize", !.err = "context"]
                  ELSE [@ EXCEPT !.pc = "prepare", !.cancelled = tasks[t].cancel]]
    /\ UNCHANGED <<tasks, audits, guard, vlans, sent, auditWrites, faults>>

\* Execute returns an error; the device is given back.
Fail(t, code) ==
    /\ exec' = [exec EXCEPT ![t] = [Idle EXCEPT !.pc = "auditFailure", !.err = code,
                                                !.cancelled = exec[t].cancelled]]
    /\ guard' = [d \in DevIds |-> IF guard[d] = t THEN 0 ELSE guard[d]]

\* Mutant: the plan is not compared with the stored one.
SamePlanUnchecked(prepared, t) == prepared.error = ""

\* The plan made now is the one that was stored and audited.
SamePlan(prepared, t) == prepared.main = tasks[t].main /\ prepared.save = tasks[t].save

\* Execute: the plan is made again from the device row of this moment.
ExecutePrepare(t) ==
    /\ Executing(t, "prepare")
    /\ IF ContextDone(t) THEN Fail(t, "context")
       ELSE \E prepared \in {prepare(tasks[t].snap)} :
          IF prepared.error # "" THEN Fail(t, prepared.error)
          ELSE IF ~SamePlan(prepared, t) THEN Fail(t, "STATE_CONFLICT")
          ELSE /\ exec' = [exec EXCEPT ![t] =
                             [Idle EXCEPT !.pc = IF tasks[t].snap.dry THEN "audit" ELSE "guard",
                                          !.row = prepared.row, !.main = prepared.main,
                                          !.save = prepared.save, !.status = "SUCCESS"]]
               /\ UNCHANGED guard
    /\ UNCHANGED <<tasks, audits, vlans, sent, auditWrites, faults>>

\* Mutant: the device is taken whoever holds it.
AcquireShared(t) ==
    /\ Executing(t, "guard")
    /\ IF ContextDone(t) THEN Fail(t, "context")
       ELSE guard' = [guard EXCEPT ![tasks[t].snap.device] = t] /\ Goto(t, "main")
    /\ UNCHANGED <<tasks, audits, vlans, sent, auditWrites, faults>>

\* guards.Do: the device is this task's alone, and the session is opened; when
\* that fails the device is given back.
Acquire(t) ==
    /\ Executing(t, "guard")
    /\ LET d == tasks[t].snap.device
       IN IF ContextDone(t) THEN Fail(t, "context") /\ UNCHANGED faults
          ELSE /\ guard[d] = 0
               /\ \/ /\ guard' = [guard EXCEPT ![d] = t]
                     /\ Goto(t, "main") /\ UNCHANGED faults
                  \/ Fail(t, "DEVICE_UNREACHABLE") /\ Fault
    /\ UNCHANGED <<tasks, audits, vlans, sent, auditWrites>>

\* The parsed result of a plan that has run to its end: the wrapper of
\* commandsecurity looks at a custom operation's output first.
Result(plan, records) ==
    IF plan.op \in CustomCommands
       /\ ~OutputWithinLimit(CustomCommandPolicy(plan.op), [i \in DOMAIN records |-> records[i].size])
    THEN [status |-> "FAILED", error |-> "RESULT_TOO_LARGE"]
    ELSE ParseResult(plan, records)

\* executePrepared after a plan's last record: the configuration is saved
\* after a success only, and a failure to save is a partial success.
Leave(t, status, code) ==
    /\ exec' = [exec EXCEPT ![t].pc = "audit", ![t].records = <<>>,
                            ![t].status = status, ![t].err = code]
    /\ guard' = [d \in DevIds |-> IF guard[d] = t THEN 0 ELSE guard[d]]

AfterMain(t, result) ==
    IF result.status = "UNPARSABLE" THEN Fail(t, result.error)
    ELSE IF exec[t].save # NoPlan /\ result.status = "SUCCESS"
    THEN /\ exec' = [exec EXCEPT ![t].pc = "save", ![t].records = <<>>]
         /\ UNCHANGED guard
    ELSE Leave(t, result.status, result.error)

AfterSave(t, result) ==
    IF result.status = "SUCCESS" THEN Leave(t, "SUCCESS", "")
    ELSE Leave(t, "PARTIAL_SUCCESS", "CONFIG_SAVE_FAILED")

\* executePlan: one command, and the end of the plan after its last command
\* or its first failure.
Send(t) ==
    /\ exec[t].pc \in {"main", "save"}
    /\ LET saving == exec[t].pc = "save"
           plan == IF saving THEN exec[t].save ELSE exec[t].main
           command == plan.commands[Len(exec[t].records) + 1]
           after(error, size) ==
               LET records == Append(exec[t].records, [text |-> command, error |-> error, size |-> size])
                   result == Result(plan, records)
               IN IF error = "" /\ Len(records) < Len(plan.commands)
                  THEN exec' = [exec EXCEPT ![t].records = records] /\ UNCHANGED guard
                  ELSE IF saving THEN AfterSave(t, result) ELSE AfterMain(t, result)
           outcome == execute(command, vlans[plan.device])
       IN IF ContextDone(t) THEN Fail(t, "context") /\ UNCHANGED <<vlans, sent, faults>>
          ELSE /\ sent' = [sent EXCEPT ![t] = Append(@, command)]
               /\ \/ /\ vlans' = [vlans EXCEPT ![plan.device] = outcome.vlans]
                     /\ after(outcome.error, outcome.size)
                     /\ UNCHANGED faults
                  \/ /\ vlans' \in {vlans, [vlans EXCEPT ![plan.device] = outcome.vlans]}
                     /\ after("COMMAND_REJECTED", 0)
                     /\ Fault
    /\ UNCHANGED <<tasks, audits, auditWrites>>

\* Mutant: a failure to complete the audit record is only reported.
AuditResultIgnored(t) ==
    /\ Executing(t, "audit")
    /\ Goto(t, "finalize")
    /\ \/ ~ContextDone(t) /\ CompleteAudit(t, exec[t].status) /\ UNCHANGED faults
       \/ UNCHANGED <<audits, auditWrites>> /\ Fault
    /\ UNCHANGED <<tasks, guard, vlans, sent>>

\* Execute: AuditRepository.Complete under the execution's context.  When it
\* fails a change that succeeded is only partly a success.
AuditResult(t) ==
    /\ Executing(t, "audit")
    /\ LET unaudited == IF tasks[t].snap.class # "QUERY" /\ exec[t].status = "SUCCESS"
                        THEN [exec EXCEPT ![t].pc = "finalize", ![t].status = "PARTIAL_SUCCESS",
                                          ![t].err = "AUDIT_UNAVAILABLE"]
                        ELSE [exec EXCEPT ![t].pc = "finalize"]
       IN IF ContextDone(t) \/ audits[t] = "none"
          THEN exec' = unaudited /\ UNCHANGED <<audits, auditWrites, faults>>
          ELSE \/ Goto(t, "finalize") /\ CompleteAudit(t, exec[t].status) /\ UNCHANGED faults
               \/ /\ exec' = unaudited /\ Fault
                  /\ \/ CompleteAudit(t, exec[t].status)
                     \/ UNCHANGED <<audits, auditWrites>>
    /\ UNCHANGED <<tasks, guard, vlans, sent>>

\* auditFailureStatus.
auditFailureStatus(t) ==
    IF exec[t].cancelled THEN "CANCELLED"
    ELSE IF exec[t].err = "context" THEN "INTERRUPTED" ELSE "FAILED"

\* The deferred function of Execute, with a context of its own.
AuditFailure(t) ==
    /\ Executing(t, "auditFailure")
    /\ Goto(t, "finalize")
    /\ \/ CompleteAudit(t, auditFailureStatus(t)) /\ UNCHANGED faults
       \/ UNCHANGED <<audits, auditWrites>> /\ Fault
    /\ UNCHANGED <<tasks, guard, vlans, sent>>

\* Scheduler.execute after the handler, and finalize.
Finalize(t) ==
    /\ Executing(t, "finalize")
    /\ LET failed == exec[t].status = ""
           status == IF ~failed THEN exec[t].status
                     ELSE IF exec[t].cancelled THEN "CANCELLED"
                     ELSE IF app = "stopping" THEN "INTERRUPTED" ELSE "FAILED"
       IN tasks' = [tasks EXCEPT ![t].status = status,
                                 ![t].err = IF status \in {"CANCELLED", "INTERRUPTED"} THEN ""
                                            ELSE exec[t].err]
    /\ exec' = [exec EXCEPT ![t] = Idle]
    /\ UNCHANGED <<audits, guard, vlans, sent, auditWrites, faults>>

ExecuteStep(t) ==
    \/ Claim(t) \/ Reload(t) \/ ExecutePrepare(t) \/ Acquire(t) \/ Send(t)
    \/ AuditResult(t) \/ AuditFailure(t) \/ Finalize(t)

-----------------------------------------------------------------------------
(* The process.                                                            *)

InFlight == {c \in Clients : pc[c] \notin {"start", "done", "lost"}}

\* The process is gone with its memory, the fake devices in it included.
Vanish ==
    /\ app' = "down" /\ recoverable' = {}
    /\ exec' = [t \in Clients |-> Idle]
    /\ guard' = [d \in DevIds |-> 0]
    /\ vlans' = [d \in DevIds |-> <<>>]
    /\ pc' = [c \in Clients |-> IF c \in InFlight THEN "lost" ELSE pc[c]]
    /\ UNCHANGED <<req, row, answer, inventoryVars, tasks, audits, sent, auditWrites>>

Crash == app # "down" /\ Fault /\ Vanish

\* App.Run: the context is cancelled, or a statement of Recover fails ...
Stop ==
    /\ app \in {"starting", "recovering", "up"} /\ Fault
    /\ app' = "stopping" /\ recoverable' = {}
    /\ UNCHANGED <<req, clientVars, inventoryVars, operationVars>>

\* ... and the process ends when its workers have.
Stopped ==
    /\ app = "stopping" /\ \A t \in Clients : exec[t].pc = "idle"
    /\ Vanish
    /\ UNCHANGED faults

\* The application starts again, perhaps with a new master key; HTTP serves
\* beside Recover.
Restart ==
    /\ app = "down" /\ app' = "starting"
    /\ keyVersion' \in {k \in {keyVersion, keyVersion + 1} : k <= MaxKeyVersion}
    /\ UNCHANGED <<req, clientVars, creds, devices, observed, operationVars, recoverable, faults>>

\* Mutant: what ran is put back into the queue.
InterruptedAgain(task) == [task EXCEPT !.status = IF @ = "RUNNING" THEN "QUEUED" ELSE @]

\* What InterruptRunning makes of a row.
Interrupted(task) == [task EXCEPT !.status = IF @ = "RUNNING" THEN "INTERRUPTED" ELSE @]

\* InterruptRunning and ListRecoverable of Scheduler.Recover, in one step: no
\* step of this process changes a row that is RUNNING before it.
RecoverList ==
    /\ app = "starting"
    /\ tasks' = [t \in Clients |-> Interrupted(tasks[t])]
    /\ recoverable' = {t \in Clients : tasks[t].status = "PENDING"}
    /\ app' = IF recoverable' = {} THEN "up" ELSE "recovering"
    /\ UNCHANGED <<audits, exec, guard, vlans, sent, auditWrites, faults>>

\* Recover: QueuePending of a listed row.  After the last one the workers
\* start; a conflict ends Run.
RecoverQueue(t) ==
    /\ t \in recoverable
    /\ \/ /\ QueuePending(t)
          /\ recoverable' = recoverable \ {t}
          /\ app' = IF recoverable' = {} THEN "up" ELSE "recovering"
       \/ /\ ~Queueable(t) /\ UNCHANGED tasks
          /\ recoverable' = {} /\ app' = "stopping"
    /\ UNCHANGED <<audits, exec, guard, vlans, sent, auditWrites, faults>>

\* Nothing is left to do: a row that was committed without its answer stays
\* PENDING until the next start.
Quiet ==
    /\ app = "up" /\ \A c \in Clients : pc[c] \in {"done", "lost"}
    /\ \A t \in Clients : exec[t].pc = "idle" /\ tasks[t].status \in Terminal \cup {"none", "PENDING"}
    /\ UNCHANGED vars

Next ==
    \/ \E c \in Clients :
         /\ app # "down"
         /\ \/ InventoryStep(c) /\ UNCHANGED <<operationVars, faults>>
            \/ SubmitStep(c) /\ UNCHANGED inventoryVars
         /\ UNCHANGED <<req, app, recoverable>>
    \/ \E t \in Clients :
         ExecuteStep(t) /\ UNCHANGED <<req, clientVars, inventoryVars, app, recoverable>>
    \/ (RecoverList \/ \E t \in Clients : RecoverQueue(t))
         /\ UNCHANGED <<req, clientVars, inventoryVars>>
    \/ Crash \/ Stop \/ Stopped \/ Restart \/ Quiet

Spec == Init /\ [][Next]_vars

-----------------------------------------------------------------------------
(* Properties.                                                             *)

Approved(t) == tasks[t].main.commands \o (IF tasks[t].save = NoPlan THEN <<>>
                                          ELSE tasks[t].save.commands)

\* The rows of the inventory, of the tasks and of the audit are of their
\* types, the guard is held by the task that uses the device, no more tasks
\* run than there are workers, and a row is RUNNING while it is executed.
TypeOK ==
    /\ app \in {"starting", "recovering", "up", "stopping", "down"} /\ faults \in 0..MaxFaults
    /\ recoverable \subseteq {t \in Clients : tasks[t].status # "none"}
    /\ recoverable # {} <=> app = "recovering"
    /\ keyVersion \in 1..MaxKeyVersion
    /\ \A i \in Live(creds) : ValidCredential(creds[i])
    /\ \A i \in Live(devices) : ValidDevice(devices[i])
    /\ \A t \in Clients :
         /\ tasks[t].status \in Terminal \cup {"none", "PENDING", "QUEUED", "RUNNING"}
         /\ audits[t] \in Terminal \cup {"none", "PENDING"}
         /\ exec[t].pc # "idle" => tasks[t].status = "RUNNING"
         /\ exec[t].pc \in {"main", "save"} <=> \E d \in DevIds : guard[d] = t
    /\ Cardinality({t \in Clients : exec[t].pc # "idle"}) <= Workers

\* An idempotency key stands for one execution: an actor's key has one task,
\* the commands sent for a task are a prefix of its plans whatever crashes
\* (nothing is sent twice), and a client is only ever answered with a task
\* of its own actor for the very request it made.
KeyExecutesOnce ==
    /\ \A t, u \in Clients :
         tasks[t].status # "none" /\ tasks[u].status # "none" /\ tasks[t].key # ""
         /\ tasks[t].key = tasks[u].key /\ tasks[t].actor = tasks[u].actor => t = u
    /\ \A t \in Clients : tasks[t].status # "none" => IsPrefix(sent[t], Approved(t))
    /\ \A c \in Clients :
         LET t == answer[c].task
         IN t # 0 => /\ tasks[t].actor = Access(req[c]).actor
                     /\ tasks[t].snap = snapshotRequest(req[c])

\* A command is sent only for the plan that was stored and audited when the
\* request was accepted, for a caller who holds the permission on that very
\* device, never in a dry run, never at a risk that is blocked or not
\* confirmed, never against a blocking rule, and for a change only with its
\* audit record in place.
SentWasApproved ==
    [][\A t \in Clients : sent'[t] # sent[t] =>
         LET task == tasks[t] IN
         /\ exec[t].main = task.main /\ exec[t].save = task.save /\ ~task.snap.dry
         /\ Access(req[t]).error = ""
         /\ task.main.risk # "BLOCKED" /\ (task.main.risk = "HIGH" => task.snap.confirm)
         /\ task.snap.op \in CustomCommands =>
              \A i \in DOMAIN task.main.commands :
                "BLOCKED" \notin MatchedEffects(CustomCommandPolicy(task.snap.op),
                                                task.main.commands[i].words)
         /\ task.snap.class # "QUERY" => audits[t] # "none"]_vars

\* A change is made only on a device that was detected: a live row that says
\* VERIFIED names an address, vendor and model that a detection has seen
\* together, whatever requests raced to write it, and the row a change is
\* executed with is such a row, and ACTIVE.
ConfigOnlyWhereDetected ==
    LET seen(d) == d.identity = "VERIFIED" => <<d.host, d.vendor, d.model>> \in observed
    IN /\ \A i \in Live(devices) : seen(devices[i])
       /\ \A t \in Clients :
            exec[t].pc \in {"main", "save"} /\ tasks[t].snap.class # "QUERY" =>
              LET d == exec[t].row
              IN d.status = "ACTIVE" /\ d.identity = "VERIFIED" /\ seen(d)

\* A change whose task says SUCCESS was recorded as SUCCESS in the audit
\* trail, whatever failed in between; and when nothing fails a task whose
\* submission was accepted ends with the status its audit record has.  Without
\* the acceptance this is not so: a submission that recovery and a worker
\* overtake is answered with a conflict, and its clean-up writes CANCELLED into
\* the record of a task that goes on to its end.
SuccessIsAudited ==
    \A t \in Clients :
      /\ tasks[t].status = "SUCCESS" /\ tasks[t].snap.class # "QUERY" =>
           "SUCCESS" \in auditWrites[t]
      /\ faults = 0 /\ tasks[t].status \in Terminal /\ answer[t].task = t =>
           audits[t] = tasks[t].status
=============================================================================
