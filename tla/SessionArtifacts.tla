-------------------------- MODULE SessionArtifacts --------------------------
(***************************************************************************)
(* What a loaded session may be trusted for: SessionArtifactContext.load   *)
(* (src/src/context/session_artifacts.py) pairs the checkpoint file with   *)
(* the append-only transcript, decides how much of the transcript is       *)
(* committed, refuses an unsafe tail, and rebuilds artifacts from the      *)
(* committed prefix.  Everything here is a pure operator on a transcript   *)
(* (a sequence of events) and a checkpoint.                                *)
(*                                                                         *)
(* A "latest" event is a set of at most one position, so that "there is    *)
(* none" needs no special value.                                           *)
(***************************************************************************)
EXTENDS Integers, Sequences, IncidentPhases

\* The bookkeeping events (resume_started, model_step, permission_decision)
\* are left out: reconciliation skips them and no artifact is built of them.
\* "torn" is a line a crash left half written.
EventTypes == {"tool_request", "tool_result", "verifier_request",
               "verifier_result", "approval_resolved", "checkpoint_written", "torn"}

Event(type, name, step, status) ==
    [type |-> type, name |-> name, step |-> step, status |-> status, stamp |-> 0]

\* A checkpoint_written event repeats the checkpoint's id and its
\* summary_of_progress, which tells of the phase: "status" stands for it.
Marker(chk, step) ==
    [type |-> "checkpoint_written", name |-> chk.id.name, step |-> step,
     status |-> chk.phase, stamp |-> chk.id.stamp]

TornLine == Event("torn", "none", 0, "none")

Artifact(tool, verifier) == [tool |-> tool, verifier |-> verifier]

Triage == Artifact("incident_payload_summary", "incident_triage_output")
FollowUp == Artifact("investigation_focus_selector", "incident_follow_up_outcome")
Evidence == Artifact("evidence_bundle_reader", "incident_evidence_read_outcome")
Hypothesis == Artifact("incident_hypothesis_builder", "incident_hypothesis_outcome")
Recommendation ==
    Artifact("incident_recommendation_builder", "incident_recommendation_outcome")
ActionStub == Artifact("incident_action_stub_builder", "incident_action_stub_outcome")
ActionExecution == Artifact("deployment_rollback_executor", "deployment_rollback_execution")
OutcomeVerification == Artifact("deployment_outcome_probe", "deployment_outcome_verification")

\* call_id is a function of the session and the tool, so the tool's name
\* stands for it when a result is matched to its request.
ReadOnlyTools ==
    {a.tool : a \in {Triage, FollowUp, Evidence, Hypothesis, Recommendation,
                     ActionStub, OutcomeVerification}}

LatestOf(S) == {i \in S : \A j \in S : j <= i}
FirstOf(S) == {i \in S : \A j \in S : i <= j}

-----------------------------------------------------------------------------
(* Reconciliation of the checkpoint with the transcript. *)

Parses(log) == \A i \in 1 .. Len(log) : log[i].type # "torn"

\* The last checkpoint_written event that names the checkpoint.
CommitPoint(chk, log) ==
    LatestOf({i \in 1 .. Len(log) : /\ log[i].type = "checkpoint_written"
                                    /\ log[i].name = chk.id.name
                                    /\ log[i].stamp = chk.id.stamp})

\* Mutant: a write-capable request without a result is only shown.
UnsafeEventExceptRequests(e) ==
    e.type \in {"tool_result", "verifier_result", "approval_resolved", "checkpoint_written"}

\* Mutant: a verdict after the checkpoint is only shown.
UnsafeEventExceptVerdicts(e) ==
    \/ e.type \in {"tool_result", "approval_resolved", "checkpoint_written"}
    \/ e.type = "tool_request" /\ e.name \notin ReadOnlyTools

\* Mutant: what read-only tools and their verifiers returned is harmless.
UnsafeEventIfWriting(e) ==
    \/ e.type \in {"approval_resolved", "checkpoint_written"}
    \/ e.type \in {"tool_request", "tool_result"} /\ e.name \notin ReadOnlyTools

UnsafeEvent(e) ==
    \/ e.type \in {"tool_result", "verifier_result", "approval_resolved",
                   "checkpoint_written"}
    \/ e.type = "tool_request" /\ e.name \notin ReadOnlyTools

VisibleEvent(e) ==
    \/ e.type = "verifier_request"
    \/ e.type = "tool_request" /\ e.name \in ReadOnlyTools

TailClass(log, n) ==
    LET tail == {log[i] : i \in (n + 1) .. Len(log)}
    IN  CASE \E e \in tail : UnsafeEvent(e) -> "unsafe"
          [] (\A e \in tail : ~UnsafeEvent(e)) /\ (\E e \in tail : VisibleEvent(e)) ->
               "visible_non_resumable"
          [] OTHER -> "clean"

\* load() returns a context: anything else raises before a step can begin.
Loadable(chk, log) ==
    /\ Parses(log)
    /\ \E n \in CommitPoint(chk, log) : TailClass(log, n) # "unsafe"

-----------------------------------------------------------------------------
(* Artifacts rebuilt from the first n events of the log. *)

\* The step of the latest committed event of the artifact's tool or verifier.
AttemptStep(log, n, a) ==
    {log[i].step : i \in LatestOf({j \in 1 .. n :
        \/ log[j].type \in {"tool_request", "tool_result"} /\ log[j].name = a.tool
        \/ log[j].type \in {"verifier_request", "verifier_result"}
           /\ log[j].name = a.verifier})}

AtAttempt(log, n, a, type, name) ==
    {i \in 1 .. n : /\ log[i].type = type
                    /\ log[i].name = name
                    /\ log[i].step \in AttemptStep(log, n, a)}

MatchingRequest(log, n, a) == LatestOf(AtAttempt(log, n, a, "tool_request", a.tool))

MatchingResult(log, n, a) ==
    LET results == AtAttempt(log, n, a, "tool_result", a.tool)
        requests == MatchingRequest(log, n, a)
    IN  IF requests = {} THEN LatestOf(results)
        ELSE FirstOf({i \in results : \A q \in requests : q < i})

MatchingVerdict(log, n, a) ==
    LatestOf(AtAttempt(log, n, a, "verifier_result", a.verifier))

\* ArtifactRecord followed by _require_verified_record: a missing or failed
\* result and a missing verdict are failures, a verdict short of pass is an
\* insufficiency, and only the rest is an artifact.
VerifiedRecord(log, n, a) ==
    LET results == MatchingResult(log, n, a)
        verdicts == MatchingVerdict(log, n, a)
    IN  IF \/ ~ \E i \in results : log[i].status = "succeeded"
           \/ verdicts = {}
        THEN "failure"
        ELSE IF \E v \in verdicts : log[v].status = "pass" THEN "artifact"
        ELSE "insufficient"

\* The rollback record counts only while the checkpoint's phase allows it.
VerifiedActionExecution(chk, log, n) ==
    IF chk.phase \in ACTION_EXECUTION_ARTIFACT_COMPATIBLE_PHASES
    THEN VerifiedRecord(log, n, ActionExecution)
    ELSE "insufficient"

=============================================================================
