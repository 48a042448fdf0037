----------------------------- MODULE AutoSafeGate -----------------------------
(***************************************************************************)
(* evaluate_auto_safe_gate of the operator shell: fifteen conditions,      *)
(* each passed, failed or unknown, and one answer.  A session's artifact   *)
(* that may be missing is a set of at most one record, and so are the      *)
(* working memory's gaps and the live deployment.                          *)
(***************************************************************************)
EXTENDS ToolContracts

\* The versions the alert was raised about.
ExpectedBad == "v2"
ExpectedPrevious == "v1"

\* What the intake kept: the live target and the expected versions, or less.
Intakes == {"complete", "no_versions", "no_target"}

\* One condition, from what it needs to be known and what it asks.
Condition(known, holds) ==
    IF ~known THEN "unknown" ELSE IF holds THEN "pass" ELSE "fail"

\* "view" is what the gate has before it: the policy, the session's artifacts, the
\* working memory and the answer of GET /deployment.
GateConditions(view) ==
    LET intake == view.intake = "complete"
        live == intake /\ view.deployment # {}
    IN  [policy_enabled |-> Condition(TRUE, view.enabled),
         pending_approval_boundary |-> Condition(TRUE, view.pending),
         triage_context |-> Condition(intake, TRUE),
         target_allowlisted |-> Condition(intake, view.allowlisted),
         verified_artifacts |->
            Condition(view.hypothesis # {} /\ view.recommendation # {} /\ view.stub # {}, TRUE),
         supported_hypothesis |->
            Condition(view.hypothesis # {}, \A h \in view.hypothesis : SupportedHypothesis(h)),
         supported_recommendation |->
            Condition(view.recommendation # {},
                      \A r \in view.recommendation :
                         r.recommendation_type = "validate_recent_deployment"),
         bounded_action_candidate |->
            Condition(view.stub # {},
                      \A s \in view.stub :
                         s.candidate = "rollback_recent_deployment_candidate" /\ s.created),
         working_memory |-> Condition(view.gaps # {}, TRUE),
         blocking_gaps |-> Condition(view.gaps # {}, "causal" \notin view.gaps),
         live_deployment_state |-> Condition(live, TRUE),
         live_current_version |->
            Condition(live, \A d \in view.deployment : d.current_version = ExpectedBad),
         live_previous_version |->
            Condition(live, \A d \in view.deployment : d.previous_version = ExpectedPrevious),
         live_bad_release_state |->
            Condition(live, \A d \in view.deployment :
                               /\ d.recent_deployment
                               /\ d.bad_release_active /\ d.rollback_available),
         rollback_not_already_executed |-> Condition(TRUE, ~view.probed)]

\* Mutant: only a failed condition blocks.
BlockersFailedOnly(conditions) ==
    {c \in DOMAIN conditions : conditions[c] = "fail"}

\* Anything but a pass blocks.
Blockers(conditions) == {c \in DOMAIN conditions : conditions[c] # "pass"}

GateAllows(view) == Blockers(GateConditions(view)) = {}

=============================================================================
