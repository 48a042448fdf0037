--------------------------- MODULE IncidentPhases ---------------------------
(***************************************************************************)
(* The incident workflow's phase vocabulary: the phases a checkpoint may   *)
(* name, and the sets the runtime tests them against                       *)
(* (src/src/runtime/phases.py).                                            *)
(***************************************************************************)

TRIAGE_PHASES ==
    {"triage_completed", "triage_failed_verification", "triage_unverified"}

FOLLOW_UP_PHASES ==
    {"follow_up_investigation_selected", "follow_up_complete_no_action",
     "follow_up_unverified", "follow_up_failed_verification"}

\* Mutant: the phases in which nothing was read are not listed.
EvidenceReadingPhasesWithOutput ==
    {"evidence_reading_completed", "evidence_reading_unverified",
     "evidence_reading_failed_verification", "evidence_reading_failed_artifacts"}

EVIDENCE_READING_PHASES ==
    {"evidence_reading_completed", "evidence_reading_not_applicable",
     "evidence_reading_deferred", "evidence_reading_unverified",
     "evidence_reading_failed_verification", "evidence_reading_failed_artifacts"}

HYPOTHESIS_PHASES ==
    {"hypothesis_supported", "hypothesis_insufficient_evidence",
     "hypothesis_deferred", "hypothesis_unverified",
     "hypothesis_failed_verification", "hypothesis_failed_artifacts"}

RECOMMENDATION_PHASES ==
    {"recommendation_supported", "recommendation_conservative",
     "recommendation_deferred", "recommendation_unverified",
     "recommendation_failed_verification", "recommendation_failed_artifacts"}

ACTION_STUB_PHASES ==
    {"action_stub_pending_approval", "action_stub_not_actionable",
     "action_stub_deferred", "action_stub_unverified",
     "action_stub_failed_verification", "action_stub_failed_artifacts",
     "action_stub_approved", "action_stub_denied"}

ACTION_EXECUTION_PHASES ==
    {"action_execution_completed", "action_execution_deferred",
     "action_execution_unverified", "action_execution_failed_verification",
     "action_execution_failed_artifacts"}

OUTCOME_VERIFICATION_PHASES ==
    {"outcome_verification_succeeded", "outcome_verification_unverified",
     "outcome_verification_failed_verification",
     "outcome_verification_failed_artifacts"}

EarlyPhases ==
    TRIAGE_PHASES \cup FOLLOW_UP_PHASES \cup EVIDENCE_READING_PHASES
        \cup HYPOTHESIS_PHASES \cup RECOMMENDATION_PHASES

\* The phases from the action stub on.
Phases ==
    ACTION_STUB_PHASES \cup ACTION_EXECUTION_PHASES \cup OUTCOME_VERIFICATION_PHASES

\* Which phase a command or a step insists on before it does anything.
APPROVAL_RESOLUTION_ENTRY_PHASES == {"action_stub_pending_approval"}

ROLLBACK_EXECUTION_STEP_ENTRY_PHASES == ACTION_STUB_PHASES

OUTCOME_VERIFICATION_STEP_ENTRY_PHASES ==
    ACTION_EXECUTION_PHASES \cup OUTCOME_VERIFICATION_PHASES

\* Which phases let the next step treat an artifact as one it may consume.
FOLLOW_UP_TARGET_COMPATIBLE_PHASES == {"follow_up_investigation_selected"}

EVIDENCE_COMPATIBLE_PHASES == {"evidence_reading_completed"}

HYPOTHESIS_COMPATIBLE_PHASES ==
    {"hypothesis_supported", "hypothesis_insufficient_evidence"}

RECOMMENDATION_COMPATIBLE_PHASES ==
    {"recommendation_supported", "recommendation_conservative"}

\* Which phases let a later reader treat the rollback record as an artifact.
ACTION_EXECUTION_ARTIFACT_COMPATIBLE_PHASES ==
    {"action_execution_completed"} \cup OUTCOME_VERIFICATION_PHASES
=============================================================================
