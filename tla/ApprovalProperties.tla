------------------------- MODULE ApprovalProperties -------------------------
(***************************************************************************)
(* What must hold at the approval boundary.  The properties of the first   *)
(* part hold for any number of concurrent operators; those of the second   *)
(* part are the promises of a session driven by one operator at a time,    *)
(* however often it crashes; the third part states what the repository's   *)
(* documents say and the code does not do.                                 *)
(***************************************************************************)
EXTENDS ApprovalRuntime

Labels == {"idle", "load", "reconcile", "record_decision", "save_decision",
           "mark_decision", "request_rollback", "check_target", "post_rollback",
           "read_back", "record_rollback", "request_probe", "probe_deployment",
           "probe_metrics", "probe_health", "record_probe", "request_verifier",
           "record_verdict", "save_checkpoint", "mark_checkpoint", "save_mode",
           "mark_mode", "evaluate_gate"}

Branches == {"none", "execute_rollback", "probe_outcome", "insufficient_state",
             "insufficient_after_failure", "stub_verified", "stub_missing"}
Approvals == {"none", "pending", "approved", "denied"}
Versions == {"bad", "previous"}

CheckpointNames == {"none", "incident-action-stub", "approval-resolution",
                    "deployment-rollback-execution", "deployment-outcome-verification",
                    "operator-shell"}
CheckpointIds == [name : CheckpointNames, stamp : Nat]
Checkpoints == [id : CheckpointIds, phase : Phases \cup {"none"}, step : Nat,
                approval : Approvals, mode : ShellStates]

EventNames ==
    CheckpointNames \cup {"approve", "deny", "auto-approve"}
    \cup {ActionStub.tool, ActionExecution.tool, OutcomeVerification.tool}
    \cup {ActionStub.verifier, ActionExecution.verifier, OutcomeVerification.verifier}
Statuses == Phases \cup {"none", "succeeded", "failed", "pass", "fail", "unverified",
                        "approved", "denied"}
Events == [type : EventTypes, name : EventNames, step : Nat, status : Statuses, stamp : Nat]

\* What each slice's argument may be: a decision, a mode, or nothing it reads.
Jobs == [slice : {"none", "execute", "probe", "auto"}, argument : AllCommands \cup {"none"}]
        \cup [slice : {"resolve"}, argument : Decisions \cup {"auto-approve"}]
        \cup [slice : {"set_mode"}, argument : ShellStates]

DurableTypeOK ==
    /\ checkpoint \in Checkpoints
    /\ transcript \in Seq(Events)

EnvironmentTypeOK ==
    /\ target \in Versions
    /\ rollbacksSent \in Nat
    /\ restarts \in Nat

VolatileTypeOK ==
    /\ pc \in [Operators -> Labels]
    /\ job \in [Operators -> Jobs]
    /\ context \in [Operators -> Checkpoints]
    /\ branch \in [Operators -> Branches]
    /\ toolResult \in [Operators -> {"none", "succeeded", "failed", "raised"}]
    /\ seen \in [Operators -> SUBSET Versions]
    /\ verdict \in [Operators -> {"none", "pass", "fail", "unverified"}]

CountersTypeOK ==
    /\ issued \in [Operators -> Nat]
    /\ stamps \in Nat /\ crashes \in Nat

\* Type invariant: every variable keeps the shape the code gives it.
TypeOK == DurableTypeOK /\ EnvironmentTypeOK /\ VolatileTypeOK /\ CountersTypeOK

-----------------------------------------------------------------------------
(* Positions of the transcript *)

Positions == 1 .. Len(transcript)

ApprovedAt(i) == transcript[i].type = "approval_resolved" /\ transcript[i].status = "approved"
DeniedAt(i) == transcript[i].type = "approval_resolved" /\ transcript[i].status = "denied"
RequestedAt(i, a) == transcript[i].type = "tool_request" /\ transcript[i].name = a.tool
SucceededAt(i, a) ==
    /\ transcript[i].type = "tool_result" /\ transcript[i].name = a.tool
    /\ transcript[i].status = "succeeded"
PassedAt(i, a) ==
    /\ transcript[i].type = "verifier_result" /\ transcript[i].name = a.verifier
    /\ transcript[i].status = "pass"

\* What the transcript shows of the session's history.
Approved == \E i \in Positions : ApprovedAt(i)
Denied == \E i \in Positions : DeniedAt(i)
Requested == \E i \in Positions : RequestedAt(i, ActionExecution)
RolledBack ==
    /\ \E i \in Positions : SucceededAt(i, ActionExecution)
    /\ \E i \in Positions : PassedAt(i, ActionExecution)
Confirmed == \E i \in Positions : PassedAt(i, OutcomeVerification)

-----------------------------------------------------------------------------
(* Any number of operators *)

\* The transcript never shows a write-capable tool request that no recorded
\* approval precedes, whoever else resolves, denies or changes the mode at the
\* same time (live_surface.py:192-238, deployment_rollback_execution.py:263).
RequestFollowsApproval ==
    \A j \in Positions : RequestedAt(j, ActionExecution) =>
        \E i \in Positions : i < j /\ ApprovedAt(i)

\* No rollback leaves an operator before the request for it is on disk: the
\* transcript is a write-ahead log of writes (deployment_rollback_execution.py:332-345).
RollbackIsRecorded ==
    rollbacksSent > 0 => Requested

\* A session says the outcome is verified only when its transcript holds an
\* approval, a successful rollback that its verifier passed, and a passed probe,
\* whatever re-verifications, races and crashes came before
\* (deployment_outcome_verification.py:272-312).
SucceededIsBacked ==
    checkpoint.phase = "outcome_verification_succeeded" =>
        Approved /\ RolledBack /\ Confirmed

\* Every rollback request spends an approval of its own: no prefix of the
\* transcript shows more rollback requests than recorded approvals, even when
\* two operators resolve the same pending approval.
RequestsNeverOutnumberApprovals ==
    \A n \in Positions :
        Cardinality({j \in 1 .. n : RequestedAt(j, ActionExecution)})
            <= Cardinality({i \in 1 .. n : ApprovedAt(i)})

\* The inductive invariant behind those theorems.  A checkpoint, on disk or in a
\* slice's memory, claims only what the transcript shows ...
ClaimsBacked(chk) ==
    /\ chk.approval = "approved" => Approved
    /\ chk.phase = "outcome_verification_succeeded" => RolledBack /\ Confirmed

\* ... an operator is at a point of a slice only after the events that lead to it
\* were written, although every one of them may come from another slice ...
RollbackLabels == {"request_rollback", "check_target", "post_rollback",
                   "read_back", "record_rollback"}

OperatorBacked(o) ==
    /\ ClaimsBacked(context[o])
    /\ pc[o] \in {"save_decision", "mark_decision"} /\ Approves(o) => Approved
    /\ pc[o] \in RollbackLabels => context[o].approval = "approved"
    /\ pc[o] \in RollbackLabels \ {"request_rollback"} => Requested
    /\ branch[o] = "probe_outcome" => RolledBack
    /\ /\ pc[o] \in {"save_checkpoint", "mark_checkpoint"}
       /\ job[o].slice # "execute" /\ verdict[o] = "pass"
       => RolledBack /\ Confirmed

\* ... and the transcript's own order is right: requests and successful results of
\* the rollback follow an approval.
SuccessFollowsApproval == (\E i \in Positions : SucceededAt(i, ActionExecution)) => Approved

HistoryBacked ==
    /\ ClaimsBacked(checkpoint)
    /\ \A o \in Operators : OperatorBacked(o)
    /\ RequestFollowsApproval
    /\ RollbackIsRecorded
    /\ SuccessFollowsApproval

-----------------------------------------------------------------------------
(* One operator at a time, with crashes, torn lines and service restarts *)

\* Approval status and phase never contradict each other, although every write
\* copies one of them from a checkpoint loaded earlier: what the operator decided
\* is what the phase tells, and nothing past the stub carries an open decision
\* (live_surface.py:202-222, deployment_rollback_execution.py:196, shell.py:1152).
PhaseMatchesApproval ==
    /\ checkpoint.approval = "pending" => checkpoint.phase = "action_stub_pending_approval"
    /\ checkpoint.approval = "denied" <=> checkpoint.phase = "action_stub_denied"
    /\ checkpoint.phase \in ACTION_EXECUTION_PHASES \cup OUTCOME_VERIFICATION_PHASES
         => checkpoint.approval = "approved"

\* At most one rollback leaves the session, even when the service comes back
\* with the bad release and the operator tries everything again.
AtMostOneRollback == rollbacksSent <= 1

\* A rollback that may have been sent but whose end is not on record leaves no
\* loadable session that still looks as if nothing had been done
\* (session_artifacts.py:1312-1330).
UnfinishedWriteNotResumable ==
    /\ rollbacksSent > 0
    /\ Loadable(checkpoint, transcript)
    => checkpoint.phase \in ACTION_EXECUTION_PHASES \cup OUTCOME_VERIFICATION_PHASES

\* When a session loads, the marker it was matched by is the marker of this very
\* checkpoint: re-verification reuses its checkpoint id, and a crash between the
\* checkpoint and its marker must not pair the new file with the old marker
\* (harness.py:243-256, session_artifacts.py:1239-1258).
TrustedCheckpointMatchesMarker ==
    Loadable(checkpoint, transcript) =>
        \A n \in CommitPoint(checkpoint, transcript) :
            /\ transcript[n].status = checkpoint.phase
            /\ transcript[n].step = checkpoint.step

\* A decision is final: a session that was denied stays denied, one that was
\* approved never becomes pending or denied again.
DecisionStands ==
    [][ /\ checkpoint.approval = "denied" => checkpoint'.approval = "denied"
        /\ checkpoint.approval = "approved" => checkpoint'.approval = "approved" ]_vars

\* The auto-safe policy resolves an approval only while the session on disk is
\* still pending and in auto-safe mode, although its gate looked at them several
\* loads earlier (shell.py:733-763, live_surface.py:159-174).
AutoApprovalUnderAutoSafe ==
    [][ \A i \in 1 .. Len(transcript') :
            /\ i > Len(transcript)
            /\ transcript'[i].type = "approval_resolved"
            /\ transcript'[i].name = "auto-approve"
            => /\ checkpoint.mode = "auto-safe"
               /\ checkpoint.approval = "pending"
               /\ ~Denied ]_vars

\* Changing the autonomy mode rewrites the whole checkpoint, yet never moves the
\* phase, the step or the decision (shell.py:1152-1166).
ModeWriteKeepsDecision ==
    [][ checkpoint'.id.name = "operator-shell" /\ checkpoint' # checkpoint
        => /\ checkpoint'.phase = checkpoint.phase
           /\ checkpoint'.step = checkpoint.step
           /\ checkpoint'.approval = checkpoint.approval ]_vars

\* The session implements the abstract approval gate.
Decision ==
    CASE Approved -> "approved"
      [] Denied /\ ~Approved -> "denied"
      [] OTHER -> "open"

RollbackView ==
    IF rollbacksSent = 0 THEN "none" ELSE IF rollbacksSent = 1 THEN "sent" ELSE "repeated"

RecoveryView ==
    IF checkpoint.phase = "outcome_verification_succeeded" THEN "confirmed"
    ELSE IF checkpoint.phase \in OUTCOME_VERIFICATION_PHASES THEN "not_confirmed"
    ELSE "unknown"

Gate == INSTANCE ApprovalGate WITH
    decision <- Decision, rollback <- RollbackView, recovery <- RecoveryView

\* Refinement: every step of the runtime is a step of the gate or changes
\* nothing the gate sees.
ImplementsGate == Gate!GateSpec

-----------------------------------------------------------------------------
(* The inductive invariant behind the promises of one operator at a time *)

Solo == \A p, q \in Operators : p = q

\* What the files say to each other.  The phase tells the decision ...
StatusOf(phase) ==
    CASE phase = "action_stub_pending_approval" -> "pending"
      [] phase = "action_stub_denied" -> "denied"
      [] phase \in {"action_stub_approved"} \cup OUTCOME_VERIFICATION_STEP_ENTRY_PHASES ->
           "approved"
      [] OTHER -> "none"

\* ... a marker that carries the checkpoint's id is this checkpoint's, or an unsafe
\* event stands between it and the end ...
MarksCheckpoint(n) ==
    /\ transcript[n].type = "checkpoint_written"
    /\ transcript[n].name = checkpoint.id.name /\ transcript[n].stamp = checkpoint.id.stamp

UnsafeAfter(n) == \E i \in Positions : n < i /\ UnsafeEvent(transcript[i])

MarkersMatch ==
    \A n \in Positions : MarksCheckpoint(n) =>
        \/ UnsafeAfter(n)
        \/ transcript[n].status = checkpoint.phase /\ transcript[n].step = checkpoint.step

\* ... and what the transcript shows and the checkpoint does not tell yet, a decision
\* or a rollback request, stands after every marker of the checkpoint.
DecidedAt(i) == transcript[i].type = "approval_resolved"

Untold(i) ==
    \/ checkpoint.phase = "action_stub_pending_approval" /\ DecidedAt(i)
    \/ checkpoint.phase = "action_stub_approved" /\ RequestedAt(i, ActionExecution)

NothingUntold == \A i \in Positions : ~Untold(i)

UntoldComesLast == \A i, n \in Positions : Untold(i) /\ MarksCheckpoint(n) => n < i

StampsAreOld ==
    /\ checkpoint.id.stamp <= stamps
    /\ \A n \in Positions : transcript[n].stamp <= stamps

NotSent == rollbacksSent = 0 /\ ~Requested

RollbackAccounted ==
    /\ rollbacksSent <= 1
    /\ checkpoint.approval # "approved" => NotSent
    /\ (\E i \in Positions : SucceededAt(i, ActionExecution)) => rollbacksSent = 1

FilesConsistent ==
    /\ checkpoint.approval = StatusOf(checkpoint.phase)
    /\ MarkersMatch /\ UntoldComesLast /\ StampsAreOld /\ RollbackAccounted

\* Where a command is, and what the files are then.  Until it saves, the checkpoint
\* it loaded is the one on disk; once it has saved, the one on disk is its own.
LastEventIs(type) ==
    LET last == Len(transcript) IN last > 0 /\ transcript[last].type = type

ProbeSteps == {"request_probe", "probe_deployment", "probe_metrics", "probe_health", "record_probe"}
VerifySteps == {"request_verifier", "record_verdict", "save_checkpoint", "mark_checkpoint"}

SliceFits(o) ==
    /\ pc[o] \in RollbackLabels => job[o].slice = "execute"
    /\ pc[o] \in ProbeSteps => job[o].slice = "probe"
    /\ pc[o] \in VerifySteps => job[o].slice \in {"execute", "probe"}

LoadedIsCurrent(o) ==
    /\ pc[o] \notin {"idle", "load", "mark_decision", "mark_checkpoint"}
          => context[o] = checkpoint
    /\ pc[o] = "mark_decision" => checkpoint = ResolutionCheckpoint(o)
    /\ pc[o] = "mark_checkpoint" => checkpoint = StepCheckpoint(o)

ResolvingFits(o) ==
    /\ pc[o] \in {"record_decision", "save_decision"}
          => checkpoint.phase = "action_stub_pending_approval"
    /\ pc[o] = "record_decision" => NothingUntold
    /\ pc[o] = "save_decision" => LastEventIs("approval_resolved")
    /\ pc[o] = "mark_decision" => NotSent

ExecutingFits(o) ==
    /\ job[o].slice = "execute" /\ pc[o] # "mark_checkpoint"
          => checkpoint.phase = "action_stub_approved"
    /\ job[o].slice = "execute" /\ pc[o] \in {"load", "reconcile", "request_rollback"} => NotSent
    /\ pc[o] \in {"check_target", "post_rollback"} => rollbacksSent = 0
    /\ pc[o] = "read_back" => rollbacksSent = 1
    /\ pc[o] = "record_rollback" /\ toolResult[o] = "succeeded" => rollbacksSent = 1

ProbingFits(o) ==
    /\ job[o].slice = "probe" /\ pc[o] \notin {"load", "reconcile", "mark_checkpoint"}
          => checkpoint.phase \in OUTCOME_VERIFICATION_STEP_ENTRY_PHASES
    /\ pc[o] = "save_checkpoint" => LastEventIs("verifier_result")

ShellFits(o) ==
    /\ pc[o] \in {"save_mode", "mark_mode"} => NothingUntold
    /\ pc[o] = "evaluate_gate" => AutoApplies(o)
    /\ pc[o] \in {"load", "reconcile", "record_decision"} /\ job[o].argument = "auto-approve"
          => checkpoint.mode = "auto-safe"

CommandConsistent(o) ==
    /\ SliceFits(o) /\ LoadedIsCurrent(o)
    /\ ResolvingFits(o) /\ ExecutingFits(o) /\ ProbingFits(o) /\ ShellFits(o)

SessionConsistent == FilesConsistent /\ \A o \in Operators : CommandConsistent(o)

-----------------------------------------------------------------------------
(* Progress, for commands that do not crash *)

\* Every command ends: no HTTP failure, refused load or refused gate leaves one
\* waiting.
CommandsEnd == \A o \in Operators : pc[o] # "idle" ~> pc[o] = "idle"

\* An approval on disk is followed by the rollback's own record.
ApprovalSettles ==
    checkpoint.phase = "action_stub_approved" ~>
        checkpoint.phase \in ACTION_EXECUTION_PHASES \cup OUTCOME_VERIFICATION_PHASES

-----------------------------------------------------------------------------
(* What the documents say and the code does not do *)

\* docs/operator_shell_smoke_checklist.md:97-102: after a denial "No rollback
\* executes"; "Deny still mutates the target service" is a red flag.
DenialPreventsRollback ==
    [][ rollbacksSent' > rollbacksSent => checkpoint.approval # "denied" ]_vars

\* docs/review/REVIEW_CHECKLIST.md:19: checkpoint state is "sufficient to safely
\* resume execution".  A trusted session whose approval is recorded and whose
\* operator is idle accepts some command that carries the rollback on.
CommandAdvances ==
    \/ checkpoint.phase \in APPROVAL_RESOLUTION_ENTRY_PHASES /\ checkpoint.approval = "pending"
    \/ checkpoint.phase \in OUTCOME_VERIFICATION_STEP_ENTRY_PHASES

NoStrandedApproval ==
    /\ \A o \in Operators : pc[o] = "idle"
    /\ Loadable(checkpoint, transcript)
    /\ checkpoint.approval = "approved"
    => CommandAdvances

=============================================================================
