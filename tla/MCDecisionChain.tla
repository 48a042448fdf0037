--------------------------- MODULE MCDecisionChain ---------------------------
(* The instance of DecisionChain for TLC. *)
EXTENDS DecisionProperties

\* Nothing, the deployment only, or everything: each target but ownership comes up,
\* and ownership by a replaced triage.
SomeAlerts == {{}, {"deployment"}, Metadata}

FieldValues(slot) ==
    CASE slot = "triage" ->
           [subject |-> Subjects, unknowns |-> SUBSET Metadata, actionable |-> BOOLEAN]
      [] slot = "follow_up" ->
           [subject |-> Subjects, target |-> Targets, actionable |-> BOOLEAN]
      [] slot = "evidence" ->
           [subject |-> Subjects, snapshot |-> {"read", "foreign"}, target |-> Targets,
            markers |-> BOOLEAN, bad_release_active |-> Readout, healthy |-> Readout,
            versions |-> {"same", "different", "absent"}, actionable |-> BOOLEAN]
      [] slot = "hypothesis" ->
           [subject |-> Subjects, snapshot |-> {"read", "foreign"}, target |-> Targets,
            hypothesis_type |-> {"deployment_regression", "insufficient_evidence"},
            evidence_supported |-> BOOLEAN, confidence |-> {"low", "medium"},
            gaps |-> Gaps, actionable |-> BOOLEAN, more |-> BOOLEAN]
      [] slot = "recommendation" ->
           [subject |-> Subjects,
            consumed |-> {"deployment_regression", "insufficient_evidence"},
            recommendation_type |-> {"validate_recent_deployment", "investigate_more"},
            risk_level |-> {"low", "medium"}, approval_level |-> {"none", "oncall_lead"},
            already_healthy |-> BOOLEAN, notes |-> BOOLEAN, actionable |-> BOOLEAN,
            more |-> BOOLEAN]
      [] slot = "action_stub" ->
           [subject |-> Subjects,
            consumed |-> {"validate_recent_deployment", "investigate_more"},
            candidate |-> Candidates, created |-> BOOLEAN, blocked |-> BOOLEAN,
            actionable |-> BOOLEAN, more |-> BOOLEAN,
            approval_required |-> BOOLEAN, proposed |-> Candidates,
            allowed_without_approval |-> BOOLEAN, approval_level |-> {"none", "oncall_lead"},
            conservative |-> BOOLEAN]

\* A replaced tool changes one field of the output.
OneOff(slot, own) ==
    UNION {{[own EXCEPT ![f] = v] : v \in FieldValues(slot)[f]} : f \in DOMAIN own}
==============================================================================
