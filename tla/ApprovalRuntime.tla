--------------------------- MODULE ApprovalRuntime ---------------------------
(***************************************************************************)
(* The approval boundary of one deployment-regression session: operators   *)
(* approve, deny, re-verify and change the autonomy mode, each command     *)
(* through its own process or server thread, over two files that are the   *)
(* only durable state (a checkpoint that is replaced and a transcript that *)
(* is appended to) and one live service that a rollback changes.           *)
(*                                                                         *)
(* One action is one durable write or one HTTP exchange, so that crashes   *)
(* and other operators' steps fall between them as they do in the code.    *)
(***************************************************************************)
EXTENDS SessionArtifacts, FiniteSets

CONSTANTS
    Operators,      \* the processes or server threads that issue commands
    Commands,       \* the commands they issue, a subset of AllCommands
    StubPhases,     \* how the action-stub step may have left the session
    StartModes,     \* the autonomy modes the session may have been opened with
    MaxCommands,    \* commands per operator            (bound)
    MaxCrashes,     \* crashes in all                   (bound)
    MaxRestarts     \* restarts of the live service     (bound)

Decisions == {"approve", "deny"}
Modes == {"manual", "semi-auto", "auto-safe"}
AllCommands == Decisions \cup {"verify", "resume"} \cup Modes
StubStates == {"action_stub_pending_approval", "action_stub_not_actionable",
               "action_stub_deferred"}

ASSUME OperatorsAssumption == IsFiniteSet(Operators)
ASSUME CommandsAssumption == Commands \subseteq AllCommands
ASSUME StubAssumption == StubPhases \subseteq StubStates
ASSUME ModesAssumption == StartModes \subseteq Modes
ASSUME BoundsAssumption ==
    MaxCommands \in Nat /\ MaxCrashes \in Nat /\ MaxRestarts \in Nat

VARIABLES
    checkpoint,     \* {session}.json
    transcript,     \* {session}.jsonl
    target,         \* the version the live service runs: "bad" or "previous"
    rollbacksSent,  \* POST /rollback requests that left an operator
    pc,             \* operator -> where its command is
    job,            \* operator -> the slice it runs and the command's argument
    context,        \* operator -> the checkpoint its slice loaded
    branch,         \* operator -> what the slice chose to do
    toolResult,     \* operator -> what its tool call returned
    seen,           \* operator -> the versions its tool saw after acting
    verdict,        \* operator -> what its verifier returned
    issued,         \* operator -> commands it has issued
    stamps,         \* operator-shell checkpoint ids handed out
    crashes, restarts

durable == <<checkpoint, transcript>>
environment == <<target, rollbacksSent, restarts>>
slice == <<branch, toolResult, seen, verdict>>
counters == <<issued, stamps, crashes>>
vars == <<durable, environment, pc, job, context, slice, counters>>

-----------------------------------------------------------------------------
(* Checkpoints *)

Id(name) == [name |-> name, stamp |-> 0]

\* The autonomy state: a mode the operator asked for, or auto-safe degraded to
\* semi-auto by a refused gate.
ShellStates == Modes \cup {"degraded"}

\* What the action-stub step leaves: an action candidate awaits a decision,
\* a verified stub proposes none, or the step had no recommendation to build on.
StubCheckpoint(phase, mode) ==
    [id |-> Id("incident-action-stub"), phase |-> phase, step |-> 6,
     approval |-> IF phase = "action_stub_pending_approval" THEN "pending" ELSE "none",
     mode |-> mode]

StubTranscript(chk) ==
    (IF chk.phase = "action_stub_deferred" THEN << >>
     ELSE <<Event("tool_request", ActionStub.tool, 6, "none"),
            Event("tool_result", ActionStub.tool, 6, "succeeded")>>)
    \o <<Event("verifier_request", ActionStub.verifier, 6, "none"),
         Event("verifier_result", ActionStub.verifier, 6, "pass"),
         Marker(chk, 6)>>

NoCheckpoint == [id |-> Id("none"), phase |-> "none", step |-> 0,
                 approval |-> "none", mode |-> "manual"]

\* Every slice writes one step past the checkpoint it loaded.
NextStep(o) == context[o].step + 1

-----------------------------------------------------------------------------
(* Operators *)

NoJob == [slice |-> "none", argument |-> "none"]

JobOf(command) ==
    [slice |-> CASE command \in Decisions -> "resolve"
                 [] command = "verify" -> "probe"
                 [] command = "resume" -> "auto"
                 [] command \in Modes -> "set_mode",
     argument |-> command]

Init ==
    /\ \E phase \in StubPhases, mode \in StartModes :
          checkpoint = StubCheckpoint(phase, mode)
    /\ transcript = StubTranscript(checkpoint)
    /\ target = "bad" /\ rollbacksSent = 0
    /\ pc = [o \in Operators |-> "idle"]
    /\ job = [o \in Operators |-> NoJob]
    /\ context = [o \in Operators |-> NoCheckpoint]
    /\ branch = [o \in Operators |-> "none"]
    /\ toolResult = [o \in Operators |-> "none"]
    /\ seen = [o \in Operators |-> {}]
    /\ verdict = [o \in Operators |-> "none"]
    /\ issued = [o \in Operators |-> 0]
    /\ stamps = 0 /\ crashes = 0 /\ restarts = 0

Goto(o, label) == pc' = [pc EXCEPT ![o] = label]
Append1(event) == transcript' = Append(transcript, event)

\* The command is over: nothing of it survives but the files.
Finish(o) ==
    /\ Goto(o, "idle")
    /\ job' = [job EXCEPT ![o] = NoJob]
    /\ context' = [context EXCEPT ![o] = NoCheckpoint]
    /\ branch' = [branch EXCEPT ![o] = "none"]
    /\ toolResult' = [toolResult EXCEPT ![o] = "none"]
    /\ seen' = [seen EXCEPT ![o] = {}]
    /\ verdict' = [verdict EXCEPT ![o] = "none"]

\* The command goes on with another slice, which loads the session afresh.
Continue(o, next) ==
    /\ Goto(o, "load")
    /\ job' = [job EXCEPT ![o] = next]
    /\ context' = [context EXCEPT ![o] = NoCheckpoint]
    /\ branch' = [branch EXCEPT ![o] = "none"]
    /\ toolResult' = [toolResult EXCEPT ![o] = "none"]
    /\ seen' = [seen EXCEPT ![o] = {}]
    /\ verdict' = [verdict EXCEPT ![o] = "none"]

StartCommand(o, command) ==
    /\ pc[o] = "idle" /\ issued[o] < MaxCommands
    /\ Goto(o, "load")
    /\ job' = [job EXCEPT ![o] = JobOf(command)]
    /\ issued' = [issued EXCEPT ![o] = @ + 1]
    /\ UNCHANGED <<durable, environment, context, slice, stamps, crashes>>

\* SessionArtifactContext.load reads the checkpoint first ...
ReadCheckpoint(o) ==
    /\ pc[o] = "load"
    /\ context' = [context EXCEPT ![o] = checkpoint]
    /\ Goto(o, "reconcile")
    /\ UNCHANGED <<durable, environment, job, slice, counters>>

\* ... and the transcript second: the rest of load() and the slice's own entry
\* checks look at the checkpoint of then and the transcript of now.
Resolved(o, a) ==
    \E n \in CommitPoint(context[o], transcript) :
        VerifiedRecord(transcript, n, a) = "artifact"

Accepted(o) ==
    /\ Loadable(context[o], transcript)
    /\ CASE job[o].slice = "resolve" ->
              /\ Resolved(o, ActionStub)
              /\ context[o].phase \in APPROVAL_RESOLUTION_ENTRY_PHASES
              /\ context[o].approval = "pending"
         [] job[o].slice = "execute" ->
              context[o].phase \in ROLLBACK_EXECUTION_STEP_ENTRY_PHASES
         [] job[o].slice = "probe" ->
              context[o].phase \in OUTCOME_VERIFICATION_STEP_ENTRY_PHASES
         [] OTHER -> TRUE

\* The exception of a refused load or entry check ends the command.
Reject(o) ==
    /\ pc[o] = "reconcile" /\ ~Accepted(o)
    /\ Finish(o)
    /\ UNCHANGED <<durable, environment, counters>>

-----------------------------------------------------------------------------
(* Resolving the approval: resolve_deployment_regression_approval *)

BeginResolve(o) ==
    /\ pc[o] = "reconcile" /\ job[o].slice = "resolve" /\ Accepted(o)
    /\ Goto(o, "record_decision")
    /\ UNCHANGED <<durable, environment, job, context, slice, counters>>

\* The auto-safe gate approves too, under a reason of its own.
Approves(o) == job[o].argument \in {"approve", "auto-approve"}
ApprovalOf(o) == IF Approves(o) THEN "approved" ELSE "denied"

\* Mutant: the decision is saved in the checkpoint but never logged.
RecordDecisionUnlogged(o) ==
    /\ pc[o] = "record_decision"
    /\ Goto(o, "save_decision")
    /\ UNCHANGED <<durable, environment, job, context, slice, counters>>

RecordDecision(o) ==
    /\ pc[o] = "record_decision"
    /\ Append1(Event("approval_resolved", job[o].argument, NextStep(o), ApprovalOf(o)))
    /\ Goto(o, "save_decision")
    /\ UNCHANGED <<checkpoint, environment, job, context, slice, counters>>

\* Mutant: a denial leaves the approval state as it was loaded.
ResolutionCheckpointDenialOpen(o) ==
    [context[o] EXCEPT
        !.id = Id("approval-resolution"),
        !.phase = IF Approves(o) THEN "action_stub_approved" ELSE "action_stub_denied",
        !.step = NextStep(o),
        !.approval = IF Approves(o) THEN "approved" ELSE @]

\* The checkpoint saved keeps the autonomy mode of the one that was loaded.
ResolutionCheckpoint(o) ==
    [context[o] EXCEPT
        !.id = Id("approval-resolution"),
        !.phase = IF Approves(o) THEN "action_stub_approved" ELSE "action_stub_denied",
        !.step = NextStep(o),
        !.approval = ApprovalOf(o)]

SaveDecision(o) ==
    /\ pc[o] = "save_decision"
    /\ checkpoint' = ResolutionCheckpoint(o)
    /\ Goto(o, "mark_decision")
    /\ UNCHANGED <<transcript, environment, job, context, slice, counters>>

\* Mutant: a denial goes on to the execution step too.
MarkDecisionAlwaysExecutes(o) ==
    /\ pc[o] = "mark_decision"
    /\ Append1(Marker(ResolutionCheckpoint(o), NextStep(o)))
    /\ Continue(o, [slice |-> "execute", argument |-> "none"])
    /\ UNCHANGED <<checkpoint, environment, counters>>

\* Mutant: the execution step is left to a later command.
MarkDecisionOnly(o) ==
    /\ pc[o] = "mark_decision"
    /\ Append1(Marker(ResolutionCheckpoint(o), NextStep(o)))
    /\ Finish(o)
    /\ UNCHANGED <<checkpoint, environment, counters>>

MarkDecision(o) ==
    /\ pc[o] = "mark_decision"
    /\ Append1(Marker(ResolutionCheckpoint(o), NextStep(o)))
    /\ IF Approves(o)
       THEN Continue(o, [slice |-> "execute", argument |-> "none"])
       ELSE Finish(o)
    /\ UNCHANGED <<checkpoint, environment, counters>>

-----------------------------------------------------------------------------
(* Executing the rollback: DeploymentRollbackExecutionStep *)

\* Mutant: the stub alone decides.
RollbackBranchUnapproved(o) ==
    IF Resolved(o, ActionStub) THEN "execute_rollback" ELSE "insufficient_state"

\* The live start path always records the service's base url, so only the
\* approval and the stub decide between acting and deferring.
RollbackBranch(o) ==
    IF context[o].approval = "approved" /\ Resolved(o, ActionStub)
    THEN "execute_rollback"
    ELSE IF \A n \in CommitPoint(context[o], transcript) :
               VerifiedRecord(transcript, n, ActionStub) = "failure"
    THEN "insufficient_after_failure" ELSE "insufficient_state"

BeginExecute(o) ==
    /\ pc[o] = "reconcile" /\ job[o].slice = "execute" /\ Accepted(o)
    /\ branch' = [branch EXCEPT ![o] = RollbackBranch(o)]
    /\ Goto(o, IF RollbackBranch(o) = "execute_rollback" THEN "request_rollback"
               ELSE "request_verifier")
    /\ UNCHANGED <<durable, environment, job, context, toolResult, seen, verdict, counters>>

\* Mutant: the request is written together with the result.
RequestRollbackUnlogged(o) ==
    /\ pc[o] = "request_rollback"
    /\ Goto(o, "check_target")
    /\ UNCHANGED <<durable, environment, job, context, slice, counters>>

RequestRollback(o) ==
    /\ pc[o] = "request_rollback"
    /\ Append1(Event("tool_request", ActionExecution.tool, NextStep(o), "none"))
    /\ Goto(o, "check_target")
    /\ UNCHANGED <<checkpoint, environment, job, context, slice, counters>>

\* A tool call that ends without output: an HTTP error or a refused
\* precondition is reported by the tool ("failed"), anything else is caught
\* by the harness around it ("raised").
ToolEnds(o, result, next) ==
    /\ toolResult' = [toolResult EXCEPT ![o] = result]
    /\ Goto(o, next)

\* GET /deployment and GET /health: the preconditions look at the first.
CheckTarget(o) ==
    /\ pc[o] = "check_target"
    /\ \/ \E result \in {"failed", "raised"} : ToolEnds(o, result, "record_rollback")
       \/ /\ target = "bad"
          /\ Goto(o, "post_rollback")
          /\ UNCHANGED toolResult
    /\ UNCHANGED <<durable, environment, job, context, branch, seen, verdict, counters>>

\* Mutant: a lost answer is retried.
PostRollbackRetried(o) ==
    /\ pc[o] = "post_rollback"
    /\ rollbacksSent' = rollbacksSent + 1
    /\ \/ target = "bad" /\ target' = "previous"
          /\ Goto(o, "read_back") /\ UNCHANGED toolResult
       \/ target' \in {target, "previous"}
          /\ Goto(o, "check_target") /\ UNCHANGED toolResult
    /\ UNCHANGED <<durable, restarts, job, context, branch, seen, verdict, counters>>

\* POST /rollback: the service switches once, answers 409 when the bad release
\* is gone, and the request or the answer may be lost.
PostRollback(o) ==
    /\ pc[o] = "post_rollback"
    /\ rollbacksSent' = rollbacksSent + 1
    /\ \/ target = "bad" /\ target' = "previous"
          /\ Goto(o, "read_back") /\ UNCHANGED toolResult
       \/ target' \in {target, "previous"}
          /\ ToolEnds(o, "failed", "record_rollback")
    /\ UNCHANGED <<durable, restarts, job, context, branch, seen, verdict, counters>>

\* GET /deployment and GET /health after the rollback.
ReadBack(o) ==
    /\ pc[o] = "read_back"
    /\ \/ ToolEnds(o, "failed", "record_rollback") /\ UNCHANGED seen
       \/ /\ ToolEnds(o, "succeeded", "record_rollback")
          /\ seen' = [seen EXCEPT ![o] = {target}]
    /\ UNCHANGED <<durable, environment, job, context, branch, verdict, counters>>

ResultStatus(o) == IF toolResult[o] = "succeeded" THEN "succeeded" ELSE "failed"

RecordRollback(o) ==
    /\ pc[o] = "record_rollback"
    /\ Append1(Event("tool_result", ActionExecution.tool, NextStep(o), ResultStatus(o)))
    /\ Goto(o, "request_verifier")
    /\ UNCHANGED <<checkpoint, environment, job, context, slice, counters>>

-----------------------------------------------------------------------------
(* Verifying the outcome: DeploymentOutcomeVerificationStep *)

ExecutionRecord(o) ==
    {VerifiedActionExecution(context[o], transcript, n) :
        n \in CommitPoint(context[o], transcript)}

OutcomeBranch(o) ==
    CASE "artifact" \in ExecutionRecord(o) -> "probe_outcome"
      [] "failure" \in ExecutionRecord(o) -> "insufficient_after_failure"
      [] OTHER -> "insufficient_state"

BeginProbe(o) ==
    /\ pc[o] = "reconcile" /\ job[o].slice = "probe" /\ Accepted(o)
    /\ branch' = [branch EXCEPT ![o] = OutcomeBranch(o)]
    /\ Goto(o, IF OutcomeBranch(o) = "probe_outcome" THEN "request_probe"
               ELSE "request_verifier")
    /\ UNCHANGED <<durable, environment, job, context, toolResult, seen, verdict, counters>>

RequestProbe(o) ==
    /\ pc[o] = "request_probe"
    /\ Append1(Event("tool_request", OutcomeVerification.tool, NextStep(o), "none"))
    /\ Goto(o, "probe_deployment")
    /\ UNCHANGED <<checkpoint, environment, job, context, slice, counters>>

\* GET /deployment, GET /metrics, GET /health: three reads of a service that
\* may restart or be rolled back in between.
ProbeLabels == <<"probe_deployment", "probe_metrics", "probe_health", "record_probe">>

\* Mutant: the probe polls until the service has recovered.
ProbeEndpointPolling(o) ==
    \E k \in 1 .. 3 :
        /\ pc[o] = ProbeLabels[k] /\ target = "previous"
        /\ seen' = [seen EXCEPT ![o] = @ \cup {target}]
        /\ ToolEnds(o, IF k = 3 THEN "succeeded" ELSE "none", ProbeLabels[k + 1])
        /\ UNCHANGED <<durable, environment, job, context, branch, verdict, counters>>

ProbeEndpoint(o) ==
    \E k \in 1 .. 3 :
        /\ pc[o] = ProbeLabels[k]
        /\ \/ /\ \E result \in IF k = 1 THEN {"failed", "raised"} ELSE {"failed"} :
                    ToolEnds(o, result, "record_probe")
              /\ UNCHANGED seen
           \/ /\ seen' = [seen EXCEPT ![o] = @ \cup {target}]
              /\ ToolEnds(o, IF k = 3 THEN "succeeded" ELSE "none", ProbeLabels[k + 1])
        /\ UNCHANGED <<durable, environment, job, context, branch, verdict, counters>>

RecordProbe(o) ==
    /\ pc[o] = "record_probe"
    /\ Append1(Event("tool_result", OutcomeVerification.tool, NextStep(o), ResultStatus(o)))
    /\ Goto(o, "request_verifier")
    /\ UNCHANGED <<checkpoint, environment, job, context, slice, counters>>

-----------------------------------------------------------------------------
(* The rest of a slice, shared by both steps: ResumableSliceHarness *)

VerifierOf(o) ==
    IF job[o].slice = "execute" THEN ActionExecution.verifier ELSE OutcomeVerification.verifier

RequestVerifier(o) ==
    /\ pc[o] = "request_verifier"
    /\ Append1(Event("verifier_request", VerifierOf(o), NextStep(o), "none"))
    /\ Goto(o, "record_verdict")
    /\ UNCHANGED <<checkpoint, environment, job, context, slice, counters>>

\* DeploymentRollbackExecutionVerifier: deferring is correct, a missing output
\* proves nothing, and an output must show the approved move to the previous
\* version (the approval was checked when the branch was chosen).  For a missing
\* output the verifier fails to build its answer and raises; the harness records
\* "unverified" for it, and the tool's failure is the one that is kept.
RollbackVerdict(o) ==
    IF branch[o] # "execute_rollback" THEN "pass"
    ELSE IF toolResult[o] # "succeeded" THEN "unverified"
    ELSE IF context[o].approval = "approved" /\ seen[o] = {"previous"} THEN "pass" ELSE "fail"

\* Mutant: a probe that had nothing to do passes, as a deferred rollback does.
OutcomeVerdictLenient(o) ==
    IF branch[o] # "probe_outcome" THEN "pass"
    ELSE IF toolResult[o] # "succeeded" THEN "unverified"
    ELSE IF seen[o] = {"previous"} THEN "pass" ELSE "fail"

\* Mutant: the tool's status leaks into the verdict.
OutcomeVerdictLeaking(o) ==
    IF branch[o] # "probe_outcome" THEN "unverified"
    ELSE IF toolResult[o] # "succeeded" THEN toolResult[o]
    ELSE IF seen[o] = {"previous"} THEN "pass" ELSE "fail"

\* DeploymentOutcomeProbeVerifier: every endpoint must show the recovery.
OutcomeVerdict(o) ==
    IF branch[o] # "probe_outcome" \/ toolResult[o] # "succeeded" THEN "unverified"
    ELSE IF seen[o] = {"previous"} THEN "pass" ELSE "fail"

RecordVerdict(o) ==
    LET v == IF job[o].slice = "execute" THEN RollbackVerdict(o) ELSE OutcomeVerdict(o)
    IN  /\ pc[o] = "record_verdict"
        /\ verdict' = [verdict EXCEPT ![o] = v]
        /\ Append1(Event("verifier_result", VerifierOf(o), NextStep(o), v))
        /\ Goto(o, "save_checkpoint")
        /\ UNCHANGED <<checkpoint, environment, job, context, branch, toolResult, seen, counters>>

\* combine_artifact_failure: a failure of the artifact consumed, or a tool call
\* the harness had to catch; the tool's own failure report is not one.
ArtifactFailure(o) ==
    branch[o] = "insufficient_after_failure" \/ toolResult[o] = "raised"

ExecutionPhase(o) ==
    CASE ArtifactFailure(o) -> "action_execution_failed_artifacts"
      [] ~ArtifactFailure(o) /\ verdict[o] = "unverified" -> "action_execution_unverified"
      [] ~ArtifactFailure(o) /\ verdict[o] = "fail" -> "action_execution_failed_verification"
      [] OTHER -> IF branch[o] = "execute_rollback" THEN "action_execution_completed"
                  ELSE "action_execution_deferred"

\* Mutant: whatever does not fail succeeds.
OutcomePhaseUnlessFailed(o) ==
    CASE ArtifactFailure(o) -> "outcome_verification_failed_artifacts"
      [] ~ArtifactFailure(o) /\ verdict[o] = "fail" -> "outcome_verification_failed_verification"
      [] OTHER -> "outcome_verification_succeeded"

OutcomePhase(o) ==
    CASE ArtifactFailure(o) -> "outcome_verification_failed_artifacts"
      [] ~ArtifactFailure(o) /\ verdict[o] = "pass" -> "outcome_verification_succeeded"
      [] ~ArtifactFailure(o) /\ verdict[o] = "fail" -> "outcome_verification_failed_verification"
      [] OTHER -> "outcome_verification_unverified"

\* Mutant: the step resets the approval, as the steps before the stub do.
StepCheckpointApprovalReset(o) ==
    [context[o] EXCEPT
        !.id = Id(IF job[o].slice = "execute" THEN "deployment-rollback-execution"
                  ELSE "deployment-outcome-verification"),
        !.phase = IF job[o].slice = "execute" THEN ExecutionPhase(o) ELSE OutcomePhase(o),
        !.step = NextStep(o),
        !.approval = "none"]

\* Approval and mode are copied from the checkpoint the slice loaded.
StepCheckpoint(o) ==
    [context[o] EXCEPT
        !.id = Id(IF job[o].slice = "execute" THEN "deployment-rollback-execution"
                  ELSE "deployment-outcome-verification"),
        !.phase = IF job[o].slice = "execute" THEN ExecutionPhase(o) ELSE OutcomePhase(o),
        !.step = NextStep(o)]

SaveCheckpoint(o) ==
    /\ pc[o] = "save_checkpoint"
    /\ checkpoint' = StepCheckpoint(o)
    /\ Goto(o, "mark_checkpoint")
    /\ UNCHANGED <<transcript, environment, job, context, slice, counters>>

\* A completed rollback is probed at once, by the same command.
MarkCheckpoint(o) ==
    /\ pc[o] = "mark_checkpoint"
    /\ Append1(Marker(StepCheckpoint(o), NextStep(o)))
    /\ IF StepCheckpoint(o).phase = "action_execution_completed"
       THEN Continue(o, [slice |-> "probe", argument |-> "none"])
       ELSE Finish(o)
    /\ UNCHANGED <<checkpoint, environment, counters>>

-----------------------------------------------------------------------------
(* The operator shell: /mode, /resume and the auto-safe gate *)

AutoJob == [slice |-> "auto", argument |-> "none"]

\* Writing the mode the checkpoint already has writes nothing.
SkipMode(o) ==
    /\ pc[o] = "reconcile" /\ job[o].slice = "set_mode" /\ Accepted(o)
    /\ context[o].mode = job[o].argument
    /\ IF job[o].argument = "degraded" THEN Finish(o) ELSE Continue(o, AutoJob)
    /\ UNCHANGED <<durable, environment, counters>>

BeginMode(o) ==
    /\ pc[o] = "reconcile" /\ job[o].slice = "set_mode" /\ Accepted(o)
    /\ context[o].mode # job[o].argument
    /\ Goto(o, "save_mode")
    /\ UNCHANGED <<durable, environment, job, context, slice, counters>>

\* Mutant: the mode is saved in a checkpoint built afresh.
SaveModeAfresh(o) ==
    LET fresh == [context[o] EXCEPT !.id = [name |-> "operator-shell", stamp |-> stamps + 1],
                                    !.mode = job[o].argument, !.approval = "none"]
    IN  /\ pc[o] = "save_mode"
        /\ stamps' = stamps + 1
        /\ checkpoint' = fresh
        /\ context' = [context EXCEPT ![o] = fresh]
        /\ Goto(o, "mark_mode")
        /\ UNCHANGED <<transcript, environment, job, slice, issued, crashes>>

\* A copy of the loaded checkpoint under a fresh id: the write does not look
\* again at the file it replaces.
SaveMode(o) ==
    LET copy == [context[o] EXCEPT !.id = [name |-> "operator-shell", stamp |-> stamps + 1],
                                   !.mode = job[o].argument]
    IN  /\ pc[o] = "save_mode"
        /\ stamps' = stamps + 1
        /\ checkpoint' = copy
        /\ context' = [context EXCEPT ![o] = copy]
        /\ Goto(o, "mark_mode")
        /\ UNCHANGED <<transcript, environment, job, slice, issued, crashes>>

\* A mode the operator chose is followed by the auto-safe check; a degraded
\* gate is not.
MarkMode(o) ==
    /\ pc[o] = "mark_mode"
    /\ Append1(Marker(context[o], context[o].step))
    /\ IF job[o].argument = "degraded" THEN Finish(o) ELSE Continue(o, AutoJob)
    /\ UNCHANGED <<checkpoint, environment, counters>>

\* Mutant: the effective mode is not looked at.
AutoAppliesInAnyMode(o) ==
    /\ context[o].phase = "action_stub_pending_approval"
    /\ context[o].approval = "pending"

AutoApplies(o) ==
    /\ context[o].mode = "auto-safe"
    /\ context[o].phase = "action_stub_pending_approval"
    /\ context[o].approval = "pending"

SkipAuto(o) ==
    /\ pc[o] = "reconcile" /\ job[o].slice = "auto" /\ Accepted(o)
    /\ ~AutoApplies(o)
    /\ Finish(o)
    /\ UNCHANGED <<durable, environment, counters>>

BeginAuto(o) ==
    /\ pc[o] = "reconcile" /\ job[o].slice = "auto" /\ Accepted(o)
    /\ AutoApplies(o)
    /\ branch' = [branch EXCEPT ![o] = IF Resolved(o, ActionStub) THEN "stub_verified"
                                       ELSE "stub_missing"]
    /\ Goto(o, "evaluate_gate")
    /\ UNCHANGED <<durable, environment, job, context, toolResult, seen, verdict, counters>>

\* The gate reads the live deployment itself.  Its policy, allowlist, hypothesis,
\* recommendation and working-memory conditions may hold or not.
EvaluateGate(o) ==
    /\ pc[o] = "evaluate_gate"
    /\ \/ /\ branch[o] = "stub_verified" /\ target = "bad"
          /\ Continue(o, [slice |-> "resolve", argument |-> "auto-approve"])
       \/ Continue(o, [slice |-> "set_mode", argument |-> "degraded"])
    /\ UNCHANGED <<durable, environment, counters>>

-----------------------------------------------------------------------------
(* Failures *)

\* The process dies, or an exception escapes the command.
Crash(o) ==
    /\ pc[o] # "idle" /\ crashes < MaxCrashes
    /\ crashes' = crashes + 1
    /\ Finish(o)
    /\ UNCHANGED <<durable, environment, issued, stamps>>

Appending == {"record_decision", "mark_decision", "request_rollback", "record_rollback",
              "request_probe", "record_probe", "request_verifier", "record_verdict",
              "mark_checkpoint", "mark_mode"}

\* The process dies with part of a transcript line written.
CrashMidLine(o) ==
    /\ pc[o] \in Appending /\ crashes < MaxCrashes
    /\ crashes' = crashes + 1
    /\ Append1(TornLine)
    /\ Finish(o)
    /\ UNCHANGED <<checkpoint, environment, issued, stamps>>

\* The demo service keeps its version in memory and starts with the bad one.
RestartTarget ==
    /\ restarts < MaxRestarts /\ target = "previous"
    /\ restarts' = restarts + 1 /\ target' = "bad"
    /\ UNCHANGED <<durable, rollbacksSent, pc, job, context, slice, counters>>

-----------------------------------------------------------------------------
Proceed(o) ==
    \/ ReadCheckpoint(o) \/ Reject(o)
    \/ BeginResolve(o) \/ RecordDecision(o) \/ SaveDecision(o) \/ MarkDecision(o)
    \/ BeginExecute(o) \/ RequestRollback(o) \/ CheckTarget(o) \/ PostRollback(o)
    \/ ReadBack(o) \/ RecordRollback(o)
    \/ BeginProbe(o) \/ RequestProbe(o) \/ ProbeEndpoint(o) \/ RecordProbe(o)
    \/ RequestVerifier(o) \/ RecordVerdict(o) \/ SaveCheckpoint(o) \/ MarkCheckpoint(o)
    \/ SkipMode(o) \/ BeginMode(o) \/ SaveMode(o) \/ MarkMode(o)
    \/ SkipAuto(o) \/ BeginAuto(o) \/ EvaluateGate(o)

Next ==
    \/ \E o \in Operators :
         \/ \E command \in Commands : StartCommand(o, command)
         \/ Proceed(o)
         \/ Crash(o) \/ CrashMidLine(o)
    \/ RestartTarget

Spec == Init /\ [][Next]_vars

\* A command that has begun keeps running: it is straight-line code whose only
\* waits are HTTP calls with a five-second timeout.
FairSpec == Spec /\ \A o \in Operators : WF_vars(Proceed(o))

=============================================================================
