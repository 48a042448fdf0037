---------------------------- MODULE ToolContracts ----------------------------
(***************************************************************************)
(* The decision tables of the chain: what each tool of the repository      *)
(* makes of its input, and what each verifier asks of whatever a tool      *)
(* returned.  Everything here is a pure operator on records.               *)
(*                                                                         *)
(* A text is kept as the one thing a table asks of it: "actionable" is     *)
(* that it starts with the words its verifier wants, "notes" that it is    *)
(* there.  "subject" stands for the incident and the service.              *)
(***************************************************************************)
EXTENDS Integers

Subjects == {"this", "other"}
Metadata == {"deployment", "runbook", "ownership"}
Targets == {"recent_deployment", "runbook", "ownership", "primary_service_evidence"}

\* What a regular expression finds in the observations.
Readout == {"true", "false", "absent"}

-----------------------------------------------------------------------------
(* Triage and follow-up *)

Triages == [subject : Subjects, unknowns : SUBSET Metadata, actionable : BOOLEAN]

\* The unknowns are what the alert came without.
TriageOutput(given) ==
    [subject |-> "this", unknowns |-> Metadata \ given, actionable |-> TRUE]

TriageVerdict(triage) == IF triage.actionable THEN "pass" ELSE "fail"

Investigations == [subject : Subjects, target : Targets, actionable : BOOLEAN]

\* Mutant: without an unknown the focus is on nothing.
FocusOnNothing(unknowns) ==
    CASE "deployment" \in unknowns -> "recent_deployment"
      [] "deployment" \notin unknowns /\ "runbook" \in unknowns -> "runbook"
      [] unknowns = {"ownership"} -> "ownership"
      [] OTHER -> "none"

\* Deployment context first, then the runbook, then ownership.
FocusOn(unknowns) ==
    CASE "deployment" \in unknowns -> "recent_deployment"
      [] "deployment" \notin unknowns /\ "runbook" \in unknowns -> "runbook"
      [] unknowns = {"ownership"} -> "ownership"
      [] OTHER -> "primary_service_evidence"

InvestigationOutput(triage) ==
    [subject |-> triage.subject, target |-> FocusOn(triage.unknowns), actionable |-> TRUE]

NoFollowUpNeeded(triagePassed, triage) == triagePassed /\ triage.unknowns = {}

NoOpVerdict(triagePassed, triage) ==
    IF NoFollowUpNeeded(triagePassed, triage) THEN "pass" ELSE "fail"

InvestigationVerdict(triagePassed, triage, investigation) ==
    IF NoFollowUpNeeded(triagePassed, triage) \/ ~investigation.actionable
    THEN "fail" ELSE "pass"

-----------------------------------------------------------------------------
(* Evidence *)

\* "markers": the text mentions a deploy before the alert and a timeout.
\* "versions": how the reported current version compares with the previous one.
Evidences ==
    [subject : Subjects, snapshot : {"read", "foreign"}, target : Targets,
     markers : BOOLEAN, bad_release_active : Readout, healthy : Readout,
     versions : {"same", "different", "absent"}, actionable : BOOLEAN]

\* The bundles on file say nothing of the live service; only the deployment record
\* tells of a deploy, before the alert, and of timeouts.
FixtureEvidence(investigation) ==
    [subject |-> investigation.subject, snapshot |-> "read",
     target |-> investigation.target,
     markers |-> investigation.target = "recent_deployment",
     bad_release_active |-> "absent", healthy |-> "absent", versions |-> "absent",
     actionable |-> TRUE]

Reported(flag) == IF flag THEN "true" ELSE "false"

\* Three reads of the service, at three moments; the text that is composed of them
\* always has the markers.
LiveEvidence(investigation, deployment, healthy) ==
    [subject |-> investigation.subject, snapshot |-> "read",
     target |-> investigation.target, markers |-> TRUE,
     bad_release_active |-> Reported(deployment.bad_release_active),
     healthy |-> Reported(healthy),
     versions |-> IF deployment.current_version = deployment.previous_version
                  THEN "same" ELSE "different",
     actionable |-> TRUE]

ReadsLive(target, urlGiven) == urlGiven /\ target = "recent_deployment"

EvidenceVerdict(target, evidence) ==
    IF evidence.target = target /\ evidence.actionable THEN "pass" ELSE "fail"

\* Mutant: a service that is healthy by now is not looked at.
evidence_supports_unhealthy_unasked(evidence) ==
    /\ evidence.target = "recent_deployment"
    /\ evidence.markers
    /\ evidence.bad_release_active # "false"

evidence_supports_deployment_regression(evidence) ==
    /\ evidence.target = "recent_deployment"
    /\ evidence.markers
    /\ evidence.bad_release_active # "false"
    /\ evidence.healthy # "true"

evidence_shows_known_good_recovery(evidence) ==
    /\ evidence.target = "recent_deployment"
    /\ evidence.bad_release_active = "false"
    /\ evidence.healthy = "true"
    /\ evidence.versions = "same"

-----------------------------------------------------------------------------
(* Hypothesis *)

\* "gaps": nothing left open, only the validation of the rollback, or causal
\* evidence still missing.
Gaps == {"none", "validation", "causal"}

Hypotheses ==
    [subject : Subjects, snapshot : {"read", "foreign"}, target : Targets,
     hypothesis_type : {"deployment_regression", "insufficient_evidence"},
     evidence_supported : BOOLEAN, confidence : {"low", "medium"},
     gaps : Gaps, actionable : BOOLEAN, more : BOOLEAN]

HypothesisOutput(evidence) ==
    LET supported == evidence_supports_deployment_regression(evidence)
        recovered == evidence_shows_known_good_recovery(evidence)
    IN  [subject |-> evidence.subject, snapshot |-> evidence.snapshot,
         target |-> evidence.target,
         hypothesis_type |-> IF supported THEN "deployment_regression"
                             ELSE "insufficient_evidence",
         evidence_supported |-> supported,
         confidence |-> IF supported THEN "medium" ELSE "low",
         gaps |-> CASE supported -> "validation"
                    [] ~supported /\ recovered -> "none"
                    [] OTHER -> "causal",
         actionable |-> TRUE, more |-> TRUE]

HypothesisMatches(evidence, hypothesis) ==
    /\ hypothesis.subject = evidence.subject
    /\ hypothesis.snapshot = evidence.snapshot
    /\ hypothesis.target = evidence.target

\* Mutant: the verifier believes the type and checks the rest.
HypothesisVerdictTypeUnasked(evidence, hypothesis) ==
    LET supported == evidence_supports_deployment_regression(evidence)
    IN  IF /\ HypothesisMatches(evidence, hypothesis)
           /\ hypothesis.confidence = (IF supported THEN "medium" ELSE "low")
           /\ hypothesis.actionable /\ hypothesis.more
        THEN "pass" ELSE "fail"

\* Mutant: the verifier forgets that a recovered service leaves no gap.
HypothesisVerdictAlwaysGaps(evidence, hypothesis) ==
    LET supported == evidence_supports_deployment_regression(evidence)
    IN  IF /\ HypothesisMatches(evidence, hypothesis)
           /\ hypothesis.hypothesis_type =
                 (IF supported THEN "deployment_regression" ELSE "insufficient_evidence")
           /\ hypothesis.evidence_supported = supported
           /\ hypothesis.confidence = (IF supported THEN "medium" ELSE "low")
           /\ hypothesis.actionable /\ hypothesis.more
           /\ supported \/ hypothesis.gaps # "none"
        THEN "pass" ELSE "fail"

HypothesisVerdict(evidence, hypothesis) ==
    LET supported == evidence_supports_deployment_regression(evidence)
    IN  IF /\ HypothesisMatches(evidence, hypothesis)
           /\ hypothesis.hypothesis_type =
                 (IF supported THEN "deployment_regression" ELSE "insufficient_evidence")
           /\ hypothesis.evidence_supported = supported
           /\ hypothesis.confidence = (IF supported THEN "medium" ELSE "low")
           /\ hypothesis.actionable /\ hypothesis.more
           /\ \/ supported
              \/ evidence_shows_known_good_recovery(evidence)
              \/ hypothesis.gaps # "none"
        THEN "pass" ELSE "fail"

-----------------------------------------------------------------------------
(* Recommendation *)

Recommendations ==
    [subject : Subjects,
     consumed : {"deployment_regression", "insufficient_evidence"},
     recommendation_type : {"validate_recent_deployment", "investigate_more"},
     risk_level : {"low", "medium"}, approval_level : {"none", "oncall_lead"},
     already_healthy : BOOLEAN, notes : BOOLEAN, actionable : BOOLEAN, more : BOOLEAN]

SupportedHypothesis(hypothesis) ==
    /\ hypothesis.hypothesis_type = "deployment_regression"
    /\ hypothesis.evidence_supported

ResolvedNoAction(hypothesis) ==
    /\ hypothesis.hypothesis_type = "insufficient_evidence"
    /\ ~hypothesis.evidence_supported
    /\ hypothesis.target = "recent_deployment"
    /\ hypothesis.gaps = "none"

RecommendationOutput(hypothesis) ==
    LET supported == ~ResolvedNoAction(hypothesis) /\ SupportedHypothesis(hypothesis)
    IN  [subject |-> hypothesis.subject,
         consumed |-> hypothesis.hypothesis_type,
         recommendation_type |-> IF supported THEN "validate_recent_deployment"
                                 ELSE "investigate_more",
         risk_level |-> IF supported THEN "medium" ELSE "low",
         approval_level |-> IF supported THEN "oncall_lead" ELSE "none",
         already_healthy |-> ResolvedNoAction(hypothesis),
         notes |-> TRUE, actionable |-> TRUE, more |-> TRUE]

\* Mutant: the verifier checks the risk and not the type.
RecommendationVerdictTypeUnasked(hypothesis, recommendation) ==
    LET supported == SupportedHypothesis(hypothesis)
    IN  IF /\ recommendation.subject = hypothesis.subject
           /\ recommendation.consumed = hypothesis.hypothesis_type
           /\ recommendation.risk_level = (IF supported THEN "medium" ELSE "low")
           /\ recommendation.actionable /\ recommendation.more
        THEN "pass" ELSE "fail"

\* A recommendation is judged by the hypothesis alone.
RecommendationVerdict(hypothesis, recommendation) ==
    LET supported == SupportedHypothesis(hypothesis)
    IN  IF /\ recommendation.subject = hypothesis.subject
           /\ recommendation.consumed = hypothesis.hypothesis_type
           /\ recommendation.recommendation_type =
                 (IF supported THEN "validate_recent_deployment" ELSE "investigate_more")
           /\ recommendation.risk_level = (IF supported THEN "medium" ELSE "low")
           /\ recommendation.approval_level = (IF supported THEN "oncall_lead" ELSE "none")
           /\ recommendation.actionable /\ recommendation.more
           /\ supported => recommendation.notes
        THEN "pass" ELSE "fail"

-----------------------------------------------------------------------------
(* Action stub *)

Candidates == {"rollback_recent_deployment_candidate", "no_actionable_stub_yet"}

\* The fields from "approval_required" on are those of the stub's approval gate.
Stubs ==
    [subject : Subjects,
     consumed : {"validate_recent_deployment", "investigate_more"},
     candidate : Candidates, created : BOOLEAN, blocked : BOOLEAN,
     actionable : BOOLEAN, more : BOOLEAN,
     approval_required : BOOLEAN, proposed : Candidates,
     allowed_without_approval : BOOLEAN, approval_level : {"none", "oncall_lead"},
     conservative : BOOLEAN]

AsksForRollback(recommendation) ==
    /\ recommendation.recommendation_type = "validate_recent_deployment"
    /\ recommendation.approval_level # "none"

\* The two no-action branches of the builder differ in wording only.
StubOutput(recommendation) ==
    LET candidate == IF AsksForRollback(recommendation)
                     THEN "rollback_recent_deployment_candidate"
                     ELSE "no_actionable_stub_yet"
    IN  [subject |-> recommendation.subject,
         consumed |-> recommendation.recommendation_type,
         candidate |-> candidate, created |-> AsksForRollback(recommendation),
         blocked |-> AsksForRollback(recommendation),
         actionable |-> TRUE, more |-> TRUE,
         approval_required |-> AsksForRollback(recommendation), proposed |-> candidate,
         allowed_without_approval |-> FALSE,
         approval_level |-> IF AsksForRollback(recommendation)
                            THEN recommendation.approval_level ELSE "none",
         conservative |-> ~AsksForRollback(recommendation)]

\* The approval gate's own validator: the gate is for a rollback and complete, or
\* for nothing and says why.
GateParses(stub) ==
    /\ ~stub.allowed_without_approval
    /\ IF stub.proposed = "rollback_recent_deployment_candidate"
       THEN stub.approval_required /\ stub.approval_level # "none" /\ ~stub.conservative
       ELSE ~stub.approval_required /\ stub.approval_level = "none" /\ stub.conservative

\* A stub that does not parse never reaches its verifier.
StubParses(stub) ==
    /\ GateParses(stub)
    /\ IF stub.created
       THEN /\ stub.candidate # "no_actionable_stub_yet"
            /\ stub.approval_required /\ stub.blocked
       ELSE stub.candidate = "no_actionable_stub_yet" /\ ~stub.blocked

StubVerdict(recommendation, stub) ==
    LET expected == AsksForRollback(recommendation)
    IN  IF /\ stub.subject = recommendation.subject
           /\ stub.consumed = recommendation.recommendation_type
           /\ stub.candidate = (IF expected THEN "rollback_recent_deployment_candidate"
                                ELSE "no_actionable_stub_yet")
           /\ stub.created = expected
           /\ stub.approval_required = expected
           /\ stub.blocked = expected
           /\ ~stub.allowed_without_approval
           /\ stub.more /\ stub.actionable
           /\ expected => stub.approval_level # "none"
           /\ ~expected => stub.conservative
        THEN "pass" ELSE "fail"

-----------------------------------------------------------------------------
(* Permissions *)

RiskLevels == {"read_only", "write", "dangerous"}

classify_tool(risk) ==
    CASE risk = "read_only" -> "allow"
      [] risk = "write" -> "ask"
      [] risk = "dangerous" -> "deny"

=============================================================================
