---------------------------- MODULE DecisionProofs ----------------------------
(***************************************************************************)
(* Type correctness of DecisionChain and its properties, for every set of  *)
(* alerts and whatever a plugged-in tool returns (Plugged is not           *)
(* constrained at all): the stub follows the evidence, the auto-safe gate  *)
(* opens for this release only, the repository's own tools pass their      *)
(* verifiers and make no more of torn reads than both reads say, and the   *)
(* outputs implement IncidentPipeline.                                     *)
(***************************************************************************)
EXTENDS DecisionProperties, TLAPS

-----------------------------------------------------------------------------
(* The repository's outputs are in the types of the tools *)

\* The triage tool's output is a triage, whatever it is given.
LEMMA TriageOutputType ==
    ASSUME NEW g PROVE TriageOutput(g) \in Triages
BY DEF TriageOutput, Triages, Subjects

\* What the focus tool makes of a triage is an investigation of one known target.
LEMMA InvestigationOutputType ==
    ASSUME NEW t \in Triages PROVE InvestigationOutput(t) \in Investigations
<1>1. FocusOn(t.unknowns) \in Targets
  BY DEF FocusOn, Targets
<1> QED BY <1>1 DEF InvestigationOutput, Investigations, Triages

\* Evidence read from the live deployment is evidence, whatever the service reports.
LEMMA LiveEvidenceType ==
    ASSUME NEW i \in Investigations, NEW d, NEW flag
    PROVE  LiveEvidence(i, d, flag) \in Evidences
<1>1. Reported(d.bad_release_active) \in Readout /\ Reported(flag) \in Readout
  BY DEF Reported, Readout
<1> QED BY <1>1 DEF LiveEvidence, Investigations, Evidences

\* Evidence read from the fixtures is evidence.
LEMMA FixtureEvidenceType ==
    ASSUME NEW i \in Investigations PROVE FixtureEvidence(i) \in Evidences
BY DEF FixtureEvidence, Investigations, Evidences, Readout

\* The hypothesis tool makes a hypothesis of every evidence record.
LEMMA HypothesisOutputType ==
    ASSUME NEW e \in Evidences PROVE HypothesisOutput(e) \in Hypotheses
<1>1. evidence_supports_deployment_regression(e) \in BOOLEAN
  BY DEF evidence_supports_deployment_regression
<1> QED BY <1>1 DEF HypothesisOutput, Evidences, Hypotheses, Gaps

\* The recommendation tool makes a recommendation of every hypothesis.
LEMMA RecommendationOutputType ==
    ASSUME NEW h \in Hypotheses PROVE RecommendationOutput(h) \in Recommendations
<1>1. ResolvedNoAction(h) \in BOOLEAN
  BY DEF ResolvedNoAction
<1> QED BY <1>1 DEF RecommendationOutput, Hypotheses, Recommendations

\* The stub tool makes an action stub of every recommendation.
LEMMA StubOutputType ==
    ASSUME NEW r \in Recommendations PROVE StubOutput(r) \in Stubs
<1>1. AsksForRollback(r) \in BOOLEAN
  BY DEF AsksForRollback
<1> QED BY <1>1 DEF StubOutput, Recommendations, Stubs, Candidates

\* What a slice takes from its tool is in the type, and counting it keeps the bound.
LEMMA ReturnedType ==
    ASSUME DecisionTypeOK, NEW slot, NEW type, NEW own \in type,
           NEW output \in Returned(slot, own, type)
    PROVE  output \in type /\ (Count(own, output) => replaced' \in 0 .. MaxReplaced)
BY ReplacedAssumption DEF Returned, Count, DecisionTypeOK

-----------------------------------------------------------------------------
\* Outputs, verdicts, reads and endings stay in their types.
THEOREM DecisionTypeCorrect == Spec => []DecisionTypeOK
<1>1. Init => DecisionTypeOK
  BY MetadataAssumption, ReplacedAssumption
     DEF Init, DecisionTypeOK, Slots, Releases
<1>2. DecisionTypeOK /\ [Next]_decisionVars => DecisionTypeOK'
  <2> SUFFICES ASSUME DecisionTypeOK, [Next]_decisionVars PROVE DecisionTypeOK'
    OBVIOUS
  <2> USE DEF Slots, Endings
  <2>1. CASE RunTriage
    <3>1. PICK output \in Returned("triage", TriageOutput(given), Triages) :
             /\ triage' = {output}
             /\ passed' = IF TriageVerdict(output) = "pass" THEN {"triage"} ELSE {}
             /\ Count(TriageOutput(given), output)
      BY <2>1 DEF RunTriage
    <3>2. output \in Triages /\ replaced' \in 0 .. MaxReplaced
      BY <3>1, ReturnedType, TriageOutputType
    <3> QED BY <2>1, <3>1, <3>2 DEF RunTriage, DecisionTypeOK, reads
  <2>2. CASE SkipFollowUp
    BY <2>2 DEF SkipFollowUp, DecisionTypeOK, outputs, reads
  <2>3. CASE RunFollowUp
    <3>0. PICK t \in triage : \E output \in Returned("follow_up", InvestigationOutput(t), Investigations) :
             /\ investigation' = {output}
             /\ Judge("follow_up", InvestigationVerdict("triage" \in passed, t, output),
                      InvestigationOutput(t), output, "evidence")
      BY <2>3 DEF RunFollowUp
    <3>1. PICK output \in Returned("follow_up", InvestigationOutput(t), Investigations) :
             /\ investigation' = {output}
             /\ Judge("follow_up", InvestigationVerdict("triage" \in passed, t, output),
                      InvestigationOutput(t), output, "evidence")
      BY <3>0
    <3>2. InvestigationOutput(t) \in Investigations
      BY <3>0, InvestigationOutputType DEF DecisionTypeOK
    <3>3. output \in Investigations /\ replaced' \in 0 .. MaxReplaced
      BY <3>1, <3>2, ReturnedType DEF Judge
    <3> QED BY <2>3, <3>1, <3>3 DEF RunFollowUp, Judge, DecisionTypeOK, reads
  <2>4. CASE ReadDeployment
    BY <2>4 DEF ReadDeployment, DecisionTypeOK, outputs
  <2>5. CASE ReadFails
    BY <2>5 DEF ReadFails, DecisionTypeOK, record, outputs, reads
  <2>6. CASE ReadHealth
    <3>1. PICK i \in investigation :
             TakeEvidence(i, LiveEvidence(i, DeploymentOf(deployment), Healthy(service)))
      BY <2>6 DEF ReadHealth
    <3> DEFINE own == LiveEvidence(i, DeploymentOf(deployment), Healthy(service))
    <3>2. PICK output \in Returned("evidence", own, Evidences) :
             /\ evidence' = {output}
             /\ Judge("evidence", EvidenceVerdict(i.target, output), own, output, "hypothesis")
      BY <3>1 DEF TakeEvidence
    <3>3. own \in Evidences
      BY <3>1, LiveEvidenceType DEF DecisionTypeOK
    <3>4. output \in Evidences /\ replaced' \in 0 .. MaxReplaced
      BY <3>2, <3>3, ReturnedType DEF Judge
    <3> HIDE DEF own
    <3> QED BY <2>6, <3>2, <3>4 DEF ReadHealth, Judge, DecisionTypeOK
  <2>7. CASE ReadFixture
    <3>1. PICK i \in investigation : TakeEvidence(i, FixtureEvidence(i))
      BY <2>7 DEF ReadFixture
    <3>2. PICK output \in Returned("evidence", FixtureEvidence(i), Evidences) :
             /\ evidence' = {output}
             /\ Judge("evidence", EvidenceVerdict(i.target, output), FixtureEvidence(i),
                      output, "hypothesis")
      BY <3>1 DEF TakeEvidence
    <3>3. FixtureEvidence(i) \in Evidences
      BY <3>1, FixtureEvidenceType DEF DecisionTypeOK
    <3>4. output \in Evidences /\ replaced' \in 0 .. MaxReplaced
      BY <3>2, <3>3, ReturnedType DEF Judge
    <3> QED BY <2>7, <3>2, <3>4 DEF ReadFixture, Judge, DecisionTypeOK, reads
  <2>8. CASE RunHypothesis
    <3>0. PICK e \in evidence : \E output \in Returned("hypothesis", HypothesisOutput(e), Hypotheses) :
             /\ hypothesis' = {output}
             /\ Judge("hypothesis", HypothesisVerdict(e, output), HypothesisOutput(e), output,
                      "recommendation")
             /\ Remember(HypothesisVerdict(e, output), output)
      BY <2>8 DEF RunHypothesis
    <3>1. PICK output \in Returned("hypothesis", HypothesisOutput(e), Hypotheses) :
             /\ hypothesis' = {output}
             /\ Judge("hypothesis", HypothesisVerdict(e, output), HypothesisOutput(e), output,
                      "recommendation")
             /\ Remember(HypothesisVerdict(e, output), output)
      BY <3>0
    <3>2. HypothesisOutput(e) \in Hypotheses
      BY <3>0, HypothesisOutputType DEF DecisionTypeOK
    <3>3. output \in Hypotheses /\ replaced' \in 0 .. MaxReplaced
      BY <3>1, <3>2, ReturnedType DEF Judge
    <3>4. memory' \subseteq Gaps
      BY <3>1, <3>3 DEF Remember, Hypotheses, DecisionTypeOK
    <3> QED BY <2>8, <3>1, <3>3, <3>4 DEF RunHypothesis, Judge, DecisionTypeOK, reads
  <2>9. CASE RunRecommendation
    <3>0. PICK h \in hypothesis : \E output \in Returned("recommendation", RecommendationOutput(h), Recommendations) :
             /\ recommendation' = {output}
             /\ Judge("recommendation", RecommendationVerdict(h, output),
                      RecommendationOutput(h), output, "action_stub")
             /\ Remember(RecommendationVerdict(h, output), h)
      BY <2>9 DEF RunRecommendation
    <3>1. PICK output \in Returned("recommendation", RecommendationOutput(h), Recommendations) :
             /\ recommendation' = {output}
             /\ Judge("recommendation", RecommendationVerdict(h, output),
                      RecommendationOutput(h), output, "action_stub")
             /\ Remember(RecommendationVerdict(h, output), h)
      BY <3>0
    <3>2. h \in Hypotheses /\ RecommendationOutput(h) \in Recommendations
      BY <3>0, RecommendationOutputType DEF DecisionTypeOK
    <3>3. output \in Recommendations /\ replaced' \in 0 .. MaxReplaced
      BY <3>1, <3>2, ReturnedType DEF Judge
    <3>4. memory' \subseteq Gaps
      BY <3>1, <3>2 DEF Remember, Hypotheses, DecisionTypeOK
    <3> QED BY <2>9, <3>1, <3>3, <3>4 DEF RunRecommendation, Judge, DecisionTypeOK, reads
  <2>10. CASE RunActionStub
    <3>0. PICK r \in recommendation : \E output \in Returned("action_stub", StubOutput(r), Stubs) :
             /\ stub' = IF StubParses(output) THEN {output} ELSE {}
             /\ Judge("action_stub",
                      IF StubParses(output) THEN StubVerdict(r, output) ELSE "unverified",
                      StubOutput(r), output, "decided")
      BY <2>10 DEF RunActionStub
    <3>1. PICK output \in Returned("action_stub", StubOutput(r), Stubs) :
             /\ stub' = IF StubParses(output) THEN {output} ELSE {}
             /\ Judge("action_stub",
                      IF StubParses(output) THEN StubVerdict(r, output) ELSE "unverified",
                      StubOutput(r), output, "decided")
      BY <3>0
    <3>2. StubOutput(r) \in Stubs
      BY <3>0, StubOutputType DEF DecisionTypeOK
    <3>3. output \in Stubs /\ replaced' \in 0 .. MaxReplaced
      BY <3>1, <3>2, ReturnedType DEF Judge
    <3> QED BY <2>10, <3>1, <3>3 DEF RunActionStub, Judge, DecisionTypeOK, reads
  <2>11. CASE Refuse
    BY <2>11 DEF Refuse, DecisionTypeOK, record, outputs, reads
  <2>12. CASE EvaluateGate
    BY <2>12 DEF EvaluateGate, DecisionTypeOK, record, outputs, reads
  <2>13. CASE ServiceChanges
    BY <2>13 DEF ServiceChanges, DecisionTypeOK, record, outputs, reads
  <2>14. CASE OtherSessionRemembers
    BY <2>14 DEF OtherSessionRemembers, DecisionTypeOK, record, outputs, reads
  <2>15. CASE UNCHANGED decisionVars
    BY <2>15 DEF decisionVars, DecisionTypeOK, record, outputs, reads
  <2> QED BY <2>1, <2>2, <2>3, <2>4, <2>5, <2>6, <2>7, <2>8, <2>9, <2>10, <2>11, <2>12,
             <2>13, <2>14, <2>15 DEF Next, Slice
<1> QED BY <1>1, <1>2, PTL DEF Spec

-----------------------------------------------------------------------------
(* From the evidence to the stub.  A verifier sees only the artifact before  *)
(* the one it judges, so the invariant carries the claim of the evidence     *)
(* through each output that has passed so far.                               *)

AfterEvidence == {"hypothesis", "recommendation", "action_stub", "decided"}
AfterHypothesis == {"recommendation", "action_stub", "decided"}
AfterRecommendation == {"action_stub", "decided"}

Single(S) == \A x, y \in S : x = y

\* The stub says what the evidence says.
Follows(e, s) ==
    /\ s.created <=> Supports(e)
    /\ s.approval_required <=> Supports(e)
    /\ s.candidate = s.proposed
    /\ ~s.allowed_without_approval

ClaimCarried ==
    /\ Single(evidence) /\ Single(hypothesis) /\ Single(recommendation)
    /\ pc \in AfterEvidence => "evidence" \in passed /\ evidence # {}
    /\ pc \in AfterHypothesis =>
          /\ "hypothesis" \in passed
          /\ \A e \in evidence, h \in hypothesis : SupportedHypothesis(h) <=> Supports(e)
    /\ pc \in AfterRecommendation =>
          /\ "recommendation" \in passed
          /\ \A e \in evidence, r \in recommendation : AsksForRollback(r) <=> Supports(e)
    /\ pc = "decided" =>
          /\ "action_stub" \in passed /\ stub # {}
          /\ \A e \in evidence, s \in stub : Follows(e, s)
    /\ "action_stub" \in passed => pc = "decided"

\* A hypothesis that passes claims what its evidence supports.
LEMMA HypothesisFollows ==
    ASSUME NEW e, NEW h, HypothesisVerdict(e, h) = "pass"
    PROVE  SupportedHypothesis(h) <=> Supports(e)
<1> DEFINE supported == evidence_supports_deployment_regression(e)
<1>1. supported \in BOOLEAN
  BY DEF evidence_supports_deployment_regression
<1>2. /\ h.hypothesis_type =
            (IF supported THEN "deployment_regression" ELSE "insufficient_evidence")
      /\ h.evidence_supported = supported
  BY DEF HypothesisVerdict
<1> HIDE DEF supported
<1>3. SupportedHypothesis(h) <=> supported
  BY <1>1, <1>2 DEF SupportedHypothesis
<1> QED BY <1>3 DEF Supports, supported

\* A recommendation that passes asks for a rollback when the hypothesis is supported.
LEMMA RecommendationFollows ==
    ASSUME NEW h, NEW r, RecommendationVerdict(h, r) = "pass"
    PROVE  AsksForRollback(r) <=> SupportedHypothesis(h)
<1>1. /\ r.recommendation_type =
            (IF SupportedHypothesis(h) THEN "validate_recent_deployment"
             ELSE "investigate_more")
      /\ r.approval_level = (IF SupportedHypothesis(h) THEN "oncall_lead" ELSE "none")
  BY DEF RecommendationVerdict
<1> QED BY <1>1 DEF AsksForRollback

\* A stub that parses and passes proposes what the recommendation asks for.
LEMMA StubFollows ==
    ASSUME NEW r, NEW s \in Stubs, StubParses(s), StubVerdict(r, s) = "pass"
    PROVE  /\ s.created <=> AsksForRollback(r)
           /\ s.approval_required <=> AsksForRollback(r)
           /\ s.candidate = s.proposed
           /\ ~s.allowed_without_approval
<1> DEFINE expected == AsksForRollback(r)
<1>1. expected \in BOOLEAN
  BY DEF AsksForRollback
<1>2. /\ s.candidate = (IF expected THEN "rollback_recent_deployment_candidate"
                         ELSE "no_actionable_stub_yet")
      /\ s.created = expected /\ s.approval_required = expected
      /\ ~s.allowed_without_approval
  BY DEF StubVerdict
<1>3. s.proposed \in Candidates
  BY DEF Stubs
<1>4. IF s.proposed = "rollback_recent_deployment_candidate"
      THEN s.approval_required ELSE ~s.approval_required
  BY DEF StubParses, GateParses
<1> HIDE DEF expected
<1>5. s.candidate = s.proposed
  BY <1>1, <1>2, <1>3, <1>4 DEF Candidates
<1> QED BY <1>1, <1>2, <1>5 DEF expected

\* The inductive part: what a slice committed about the regression is what the verified
\* slice before it committed, all the way back to the evidence.
THEOREM ClaimIsCarried == Spec => []ClaimCarried
<1>1. Init => ClaimCarried
  BY DEF Init, ClaimCarried, Single, AfterEvidence, AfterHypothesis, AfterRecommendation
<1>2. DecisionTypeOK /\ ClaimCarried /\ [Next]_decisionVars => ClaimCarried'
  <2> SUFFICES ASSUME DecisionTypeOK, ClaimCarried, [Next]_decisionVars PROVE ClaimCarried'
    OBVIOUS
  <2> USE DEF AfterEvidence, AfterHypothesis, AfterRecommendation, Slots, Endings
  <2>1. CASE RunTriage
    BY <2>1 DEF RunTriage, ClaimCarried, Single
  <2>2. CASE SkipFollowUp
    BY <2>2 DEF SkipFollowUp, ClaimCarried, Single, outputs
  <2>3. CASE RunFollowUp
    BY <2>3 DEF RunFollowUp, Judge, ClaimCarried, Single
  <2>4. CASE ReadDeployment
    BY <2>4 DEF ReadDeployment, ClaimCarried, Single, outputs
  <2>5. CASE ReadFails
    BY <2>5 DEF ReadFails, ClaimCarried, Single, record, outputs
  <2>6. CASE ReadHealth \/ ReadFixture
    <3>1. /\ pc \in {"read_health", "evidence"}
          /\ UNCHANGED <<hypothesis, recommendation, stub>>
      BY <2>6 DEF ReadHealth, ReadFixture
    <3>2. \E i, own : TakeEvidence(i, own)
      BY <2>6 DEF ReadHealth, ReadFixture
    <3>3. PICK own, output, verdict :
             evidence' = {output} /\ Judge("evidence", verdict, own, output, "hypothesis")
      BY <3>2 DEF TakeEvidence
    <3> QED BY <3>1, <3>3 DEF Judge, ClaimCarried, Single
  <2>7. CASE RunHypothesis
    <3>1. PICK e \in evidence : \E own, output :
             /\ hypothesis' = {output}
             /\ Judge("hypothesis", HypothesisVerdict(e, output), own, output,
                      "recommendation")
      BY <2>7 DEF RunHypothesis
    <3>2. PICK own, output :
             /\ hypothesis' = {output}
             /\ Judge("hypothesis", HypothesisVerdict(e, output), own, output,
                      "recommendation")
      BY <3>1
    <3>3. CASE HypothesisVerdict(e, output) = "pass"
      <4>1. \A e2 \in evidence, h \in hypothesis' : SupportedHypothesis(h) <=> Supports(e2)
        BY <3>1, <3>2, <3>3, HypothesisFollows DEF ClaimCarried, Single
      <4>2. pc = "hypothesis" /\ UNCHANGED <<evidence, recommendation, stub>>
        BY <2>7 DEF RunHypothesis
      <4> QED BY <3>2, <3>3, <4>1, <4>2 DEF Judge, ClaimCarried, Single
    <3>4. CASE HypothesisVerdict(e, output) # "pass"
      BY <2>7, <3>2, <3>4 DEF RunHypothesis, Judge, ClaimCarried, Single
    <3> QED BY <3>3, <3>4
  <2>8. CASE RunRecommendation
    <3>1. PICK h \in hypothesis : \E own, output :
             /\ recommendation' = {output}
             /\ Judge("recommendation", RecommendationVerdict(h, output), own, output,
                      "action_stub")
      BY <2>8 DEF RunRecommendation
    <3>2. PICK own, output :
             /\ recommendation' = {output}
             /\ Judge("recommendation", RecommendationVerdict(h, output), own, output,
                      "action_stub")
      BY <3>1
    <3>3. pc = "recommendation" /\ UNCHANGED <<evidence, hypothesis, stub>>
      BY <2>8 DEF RunRecommendation
    <3>4. CASE RecommendationVerdict(h, output) = "pass"
      <4>1. AsksForRollback(output) <=> SupportedHypothesis(h)
        BY <3>4, RecommendationFollows
      <4>2. \A e \in evidence : SupportedHypothesis(h) <=> Supports(e)
        BY <3>1, <3>3 DEF ClaimCarried
      <4>3. \A e \in evidence, r \in recommendation' : AsksForRollback(r) <=> Supports(e)
        BY <3>2, <4>1, <4>2
      <4> QED BY <3>2, <3>3, <3>4, <4>3 DEF Judge, ClaimCarried, Single
    <3>5. CASE RecommendationVerdict(h, output) # "pass"
      BY <3>2, <3>3, <3>5 DEF Judge, ClaimCarried, Single
    <3> QED BY <3>4, <3>5
  <2>9. CASE RunActionStub
    <3>1. PICK r \in recommendation : \E output \in Returned("action_stub", StubOutput(r), Stubs) :
             /\ stub' = IF StubParses(output) THEN {output} ELSE {}
             /\ Judge("action_stub",
                      IF StubParses(output) THEN StubVerdict(r, output) ELSE "unverified",
                      StubOutput(r), output, "decided")
      BY <2>9 DEF RunActionStub
    <3>2. PICK output \in Returned("action_stub", StubOutput(r), Stubs) :
             /\ stub' = IF StubParses(output) THEN {output} ELSE {}
             /\ Judge("action_stub",
                      IF StubParses(output) THEN StubVerdict(r, output) ELSE "unverified",
                      StubOutput(r), output, "decided")
      BY <3>1
    <3>3. pc = "action_stub" /\ UNCHANGED <<evidence, hypothesis, recommendation>>
      BY <2>9 DEF RunActionStub
    <3>4. output \in Stubs
      BY <3>1, StubOutputType, ReturnedType DEF DecisionTypeOK
    <3>5. CASE StubParses(output) /\ StubVerdict(r, output) = "pass"
      <4>1. \A e \in evidence : AsksForRollback(r) <=> Supports(e)
        BY <3>1, <3>3 DEF ClaimCarried
      <4>2. \A e \in evidence : Follows(e, output)
        BY <3>4, <3>5, <4>1, StubFollows DEF Follows
      <4>3. \A e \in evidence', s \in stub' : Follows(e, s)
        BY <3>2, <3>3, <3>5, <4>2
      <4> QED BY <3>2, <3>3, <3>5, <4>3 DEF Judge, ClaimCarried, Single
    <3>6. CASE ~(StubParses(output) /\ StubVerdict(r, output) = "pass")
      <4>1. pc' = "unverified" /\ passed' = passed
        BY <3>2, <3>6 DEF Judge
      <4> QED BY <3>3, <4>1 DEF ClaimCarried, Single
    <3> QED BY <3>5, <3>6
  <2>10. CASE Refuse
    BY <2>10 DEF Refuse, ClaimCarried, Single, record, outputs
  <2>11. CASE EvaluateGate
    BY <2>11 DEF EvaluateGate, ClaimCarried, Single, record, outputs
  <2>12. CASE ServiceChanges
    BY <2>12 DEF ServiceChanges, ClaimCarried, Single, record, outputs
  <2>13. CASE OtherSessionRemembers
    BY <2>13 DEF OtherSessionRemembers, ClaimCarried, Single, record, outputs
  <2>14. CASE UNCHANGED decisionVars
    BY <2>14 DEF decisionVars, ClaimCarried, Single, record, outputs
  <2> QED BY <2>1, <2>2, <2>3, <2>4, <2>5, <2>6, <2>7, <2>8, <2>9, <2>10, <2>11, <2>12,
             <2>13, <2>14 DEF Next, Slice
<1> QED BY <1>1, <1>2, DecisionTypeCorrect, PTL DEF Spec

\* Whatever the tools return, a stub that has passed every verifier proposes a
\* rollback exactly when the evidence supports one, and its gate agrees with it.
THEOREM StubFollowsEvidence == Spec => []VerifiedStubFollowsEvidence
<1>1. ClaimCarried => VerifiedStubFollowsEvidence
  BY DEF ClaimCarried, VerifiedStubFollowsEvidence, Follows, AfterEvidence
<1> QED BY <1>1, ClaimIsCarried, PTL

-----------------------------------------------------------------------------
(* The auto-safe gate *)

\* A gate condition passes only where its fact is known and holds.
LEMMA PassedCondition ==
    ASSUME NEW known \in BOOLEAN, NEW holds \in BOOLEAN, Condition(known, holds) = "pass"
    PROVE  known /\ holds
BY DEF Condition

\* A gate without blockers has every one of its conditions passed.
LEMMA GateConditionsPass ==
    ASSUME NEW view, GateAllows(view)
    PROVE  /\ GateConditions(view).pending_approval_boundary = "pass"
           /\ GateConditions(view).live_deployment_state = "pass"
           /\ GateConditions(view).live_current_version = "pass"
<1>1. \A c \in DOMAIN GateConditions(view) : GateConditions(view)[c] = "pass"
  BY DEF GateAllows, Blockers
<1>2. /\ "pending_approval_boundary" \in DOMAIN GateConditions(view)
      /\ "live_deployment_state" \in DOMAIN GateConditions(view)
      /\ "live_current_version" \in DOMAIN GateConditions(view)
  BY DEF GateConditions
<1> QED BY <1>1, <1>2

\* A gate that allows the rollback has seen a pending approval, and a live deployment
\* that runs the known bad version (evaluate_auto_safe_gate).
LEMMA GateAllowsOnly ==
    ASSUME NEW view, view.pending \in BOOLEAN, GateAllows(view)
    PROVE  /\ view.pending
           /\ view.deployment # {}
           /\ \A d \in view.deployment : d.current_version = ExpectedBad
<1> DEFINE live == view.intake = "complete" /\ view.deployment # {}
           current == \A d \in view.deployment : d.current_version = ExpectedBad
<1>1. Condition(TRUE, view.pending) = "pass"
  BY GateConditionsPass DEF GateConditions
<1>2. Condition(live, TRUE) = "pass" /\ Condition(live, current) = "pass"
  BY GateConditionsPass DEF GateConditions
<1>3. live /\ current
  BY <1>2, PassedCondition
<1> QED BY <1>1, <1>3, PassedCondition

\* The gate opens only at the approval boundary, on evidence that supports the
\* regression, and only for the release the alert was about.
THEOREM GateIsSound == Spec => []GateOpensOnlyForThisRelease
<1>1. Init => GateOpensOnlyForThisRelease
  BY DEF Init, GateOpensOnlyForThisRelease
<1>2. /\ DecisionTypeOK /\ ClaimCarried
      /\ GateOpensOnlyForThisRelease /\ [Next]_decisionVars
      => GateOpensOnlyForThisRelease'
  <2> SUFFICES ASSUME DecisionTypeOK, ClaimCarried, GateOpensOnlyForThisRelease,
                      [Next]_decisionVars
               PROVE  GateOpensOnlyForThisRelease'
    OBVIOUS
  <2>1. CASE Slice
    <3>1. pc # "decided" /\ opened' = opened
      BY <2>1 DEF Slice, RunTriage, SkipFollowUp, RunFollowUp, ReadDeployment, ReadFails,
                  ReadHealth, ReadFixture, RunHypothesis, RunRecommendation, RunActionStub
    <3> QED BY <3>1 DEF GateOpensOnlyForThisRelease, Pending
  <2>2. CASE Refuse
    BY <2>2 DEF Refuse, Slots, GateOpensOnlyForThisRelease, Pending
  <2>3. CASE EvaluateGate
    <3>1. PICK enabled, allowlisted \in BOOLEAN, answer \in {{}, {DeploymentOf(service)}} :
             opened' = IF GateAllows(View(enabled, allowlisted, answer))
                       THEN service ELSE "none"
      BY <2>3 DEF EvaluateGate
    <3>2. UNCHANGED <<pc, outputs, passed>>
      BY <2>3 DEF EvaluateGate, record
    <3>3. CASE GateAllows(View(enabled, allowlisted, answer))
      <4>1. /\ View(enabled, allowlisted, answer).pending = Pending
            /\ View(enabled, allowlisted, answer).deployment = answer
            /\ Pending \in BOOLEAN
        BY DEF View, Pending
      <4>2. /\ Pending /\ answer # {}
            /\ \A d \in answer : d.current_version = ExpectedBad
        BY <3>3, <4>1, GateAllowsOnly
      <4>3. DeploymentOf(service).current_version = ExpectedBad
        BY <4>2
      <4>4. service = "bad"
        BY <4>3 DEF DeploymentOf, DecisionTypeOK, Releases, ExpectedBad, ExpectedPrevious
      <4>5. Pending' /\ opened' = "bad"
        BY <3>1, <3>2, <3>3, <4>2, <4>4 DEF Pending, outputs
      <4>6. {"evidence", "hypothesis", "recommendation", "action_stub"} \subseteq passed
        BY <4>2 DEF Pending, ClaimCarried, AfterEvidence, AfterHypothesis, AfterRecommendation
      <4>7. \E e \in evidence : Supports(e)
        BY <4>2 DEF Pending, ClaimCarried, AfterEvidence, Follows
      <4> QED BY <3>2, <4>5, <4>6, <4>7 DEF GateOpensOnlyForThisRelease, outputs
    <3>4. CASE ~GateAllows(View(enabled, allowlisted, answer))
      BY <3>1, <3>4 DEF GateOpensOnlyForThisRelease
    <3> QED BY <3>3, <3>4
  <2>4. CASE ServiceChanges
    BY <2>4 DEF ServiceChanges, GateOpensOnlyForThisRelease, Pending, record, outputs
  <2>5. CASE OtherSessionRemembers
    BY <2>5 DEF OtherSessionRemembers, GateOpensOnlyForThisRelease, Pending, record, outputs
  <2>6. CASE UNCHANGED decisionVars
    BY <2>6 DEF decisionVars, GateOpensOnlyForThisRelease, Pending, record, outputs
  <2> QED BY <2>1, <2>2, <2>3, <2>4, <2>5, <2>6 DEF Next
<1> QED BY <1>1, <1>2, DecisionTypeCorrect, ClaimIsCarried, PTL DEF Spec


-----------------------------------------------------------------------------
(* The repository's own tools *)

\* What the hypothesis tool returns passes the hypothesis verifier.
LEMMA OwnHypothesisPasses ==
    ASSUME NEW e \in Evidences PROVE HypothesisVerdict(e, HypothesisOutput(e)) = "pass"
<1> DEFINE supported == evidence_supports_deployment_regression(e)
           recovered == evidence_shows_known_good_recovery(e)
           h == HypothesisOutput(e)
<1>1. supported \in BOOLEAN /\ recovered \in BOOLEAN
  BY DEF evidence_supports_deployment_regression, evidence_shows_known_good_recovery
<1>2. /\ h.subject = e.subject /\ h.snapshot = e.snapshot /\ h.target = e.target
      /\ h.hypothesis_type = (IF supported THEN "deployment_regression"
                              ELSE "insufficient_evidence")
      /\ h.evidence_supported = supported
      /\ h.confidence = (IF supported THEN "medium" ELSE "low")
      /\ h.gaps = CASE supported -> "validation"
                    [] ~supported /\ recovered -> "none"
                    [] OTHER -> "causal"
      /\ h.actionable /\ h.more
  BY DEF HypothesisOutput
<1> HIDE DEF h
<1>3. supported \/ recovered \/ h.gaps # "none"
  BY <1>1, <1>2
<1> QED BY <1>2, <1>3 DEF HypothesisVerdict, HypothesisMatches, h

\* What the recommendation tool returns passes the recommendation verifier, although
\* the tool looks at a settled incident first and the verifier does not.
LEMMA OwnRecommendationPasses ==
    ASSUME NEW h \in Hypotheses
    PROVE  RecommendationVerdict(h, RecommendationOutput(h)) = "pass"
<1>1. ResolvedNoAction(h) => ~SupportedHypothesis(h)
  BY DEF ResolvedNoAction, SupportedHypothesis
<1>2. SupportedHypothesis(h) \in BOOLEAN
  BY DEF SupportedHypothesis
<1> QED BY <1>1, <1>2 DEF RecommendationVerdict, RecommendationOutput

\* What the stub tool returns parses and passes the stub verifier.
LEMMA OwnStubPasses ==
    ASSUME NEW r \in Recommendations
    PROVE  /\ StubParses(StubOutput(r))
           /\ StubVerdict(r, StubOutput(r)) = "pass"
<1> DEFINE expected == AsksForRollback(r)
           s == StubOutput(r)
<1>1. expected \in BOOLEAN /\ (expected => r.approval_level # "none")
  BY DEF AsksForRollback
<1>2. /\ s.subject = r.subject /\ s.consumed = r.recommendation_type
      /\ s.candidate = (IF expected THEN "rollback_recent_deployment_candidate"
                        ELSE "no_actionable_stub_yet")
      /\ s.proposed = s.candidate
      /\ s.created = expected /\ s.blocked = expected /\ s.approval_required = expected
      /\ s.actionable = TRUE /\ s.more = TRUE /\ s.allowed_without_approval = FALSE
      /\ s.approval_level = (IF expected THEN r.approval_level ELSE "none")
      /\ s.conservative = ~expected
  BY DEF StubOutput
<1> HIDE DEF s
<1>3. CASE expected
  BY <1>1, <1>2, <1>3 DEF StubParses, GateParses, StubVerdict, s
<1>4. CASE ~expected
  BY <1>1, <1>2, <1>4 DEF StubParses, GateParses, StubVerdict, s
<1> QED BY <1>1, <1>3, <1>4

\* While no output has been replaced, a slice has taken what its tool made.
LEMMA NothingReplaced ==
    ASSUME DecisionTypeOK, NEW own, NEW output, Count(own, output), replaced' = 0
    PROVE  replaced = 0 /\ output = own
BY ReplacedAssumption DEF DecisionTypeOK, Count

\* The repository's tools meet its verifiers: as long as no tool is replaced, no verdict
\* stops a chain, whatever the alert lacks and however the service changes under the
\* reads (the builders of tools/implementations against _verify_outcome of
\* verifiers/implementations).
THEOREM OwnToolsPass == Spec => []OwnToolsSatisfyVerifiers
<1>1. Init => OwnToolsSatisfyVerifiers
  BY DEF Init, OwnToolsSatisfyVerifiers
<1>2. DecisionTypeOK /\ OwnToolsSatisfyVerifiers /\ [Next]_decisionVars
      => OwnToolsSatisfyVerifiers'
  <2> SUFFICES ASSUME DecisionTypeOK, OwnToolsSatisfyVerifiers, [Next]_decisionVars,
                      replaced' = 0
               PROVE  pc' # "unverified"
    BY DEF OwnToolsSatisfyVerifiers
  <2>1. CASE RunTriage \/ SkipFollowUp \/ ReadDeployment \/ ReadFails \/ Refuse
    BY <2>1 DEF RunTriage, SkipFollowUp, ReadDeployment, ReadFails, Refuse
  <2>2. CASE RunFollowUp
    <3>1. PICK t \in triage : \E output :
             /\ ~NoFollowUpNeeded("triage" \in passed, t)
             /\ Judge("follow_up", InvestigationVerdict("triage" \in passed, t, output),
                      InvestigationOutput(t), output, "evidence")
      BY <2>2 DEF RunFollowUp
    <3>2. PICK output : Judge("follow_up", InvestigationVerdict("triage" \in passed, t, output),
                              InvestigationOutput(t), output, "evidence")
      BY <3>1
    <3>3. output = InvestigationOutput(t)
      BY <3>2, NothingReplaced DEF Judge
    <3>4. InvestigationVerdict("triage" \in passed, t, output) = "pass"
      BY <3>1, <3>3 DEF InvestigationVerdict, InvestigationOutput
    <3> QED BY <3>2, <3>4 DEF Judge
  <2>3. CASE ReadHealth \/ ReadFixture
    <3>1. \E i, own : TakeEvidence(i, own) /\ own.target = i.target /\ own.actionable
      <4>1. CASE ReadHealth
        <5>1. PICK i \in investigation :
                 TakeEvidence(i, LiveEvidence(i, DeploymentOf(deployment), Healthy(service)))
          BY <4>1 DEF ReadHealth
        <5>2. /\ LiveEvidence(i, DeploymentOf(deployment), Healthy(service)).target = i.target
              /\ LiveEvidence(i, DeploymentOf(deployment), Healthy(service)).actionable
          BY DEF LiveEvidence
        <5> QED BY <5>1, <5>2
      <4>2. CASE ReadFixture
        <5>1. PICK i \in investigation : TakeEvidence(i, FixtureEvidence(i))
          BY <4>2 DEF ReadFixture
        <5>2. FixtureEvidence(i).target = i.target /\ FixtureEvidence(i).actionable
          BY DEF FixtureEvidence
        <5> QED BY <5>1, <5>2
      <4> QED BY <2>3, <4>1, <4>2
    <3>2. PICK i, own : TakeEvidence(i, own) /\ own.target = i.target /\ own.actionable
      BY <3>1
    <3>3. PICK output :
             Judge("evidence", EvidenceVerdict(i.target, output), own, output, "hypothesis")
      BY <3>2 DEF TakeEvidence
    <3>4. output = own
      BY <3>3, NothingReplaced DEF Judge
    <3> QED BY <3>2, <3>3, <3>4 DEF Judge, EvidenceVerdict
  <2>4. CASE RunHypothesis
    <3>1. PICK e \in evidence : \E output :
             Judge("hypothesis", HypothesisVerdict(e, output), HypothesisOutput(e), output,
                   "recommendation")
      BY <2>4 DEF RunHypothesis
    <3>2. PICK output : Judge("hypothesis", HypothesisVerdict(e, output), HypothesisOutput(e),
                              output, "recommendation")
      BY <3>1
    <3>3. output = HypothesisOutput(e) /\ e \in Evidences
      BY <3>2, NothingReplaced DEF Judge, DecisionTypeOK
    <3> QED BY <3>2, <3>3, OwnHypothesisPasses DEF Judge
  <2>5. CASE RunRecommendation
    <3>1. PICK h \in hypothesis : \E output :
             Judge("recommendation", RecommendationVerdict(h, output), RecommendationOutput(h),
                   output, "action_stub")
      BY <2>5 DEF RunRecommendation
    <3>2. PICK output : Judge("recommendation", RecommendationVerdict(h, output),
                              RecommendationOutput(h), output, "action_stub")
      BY <3>1
    <3>3. output = RecommendationOutput(h) /\ h \in Hypotheses
      BY <3>2, NothingReplaced DEF Judge, DecisionTypeOK
    <3> QED BY <3>2, <3>3, OwnRecommendationPasses DEF Judge
  <2>6. CASE RunActionStub
    <3>1. PICK r \in recommendation : \E output :
             Judge("action_stub",
                   IF StubParses(output) THEN StubVerdict(r, output) ELSE "unverified",
                   StubOutput(r), output, "decided")
      BY <2>6 DEF RunActionStub
    <3>2. PICK output :
             Judge("action_stub",
                   IF StubParses(output) THEN StubVerdict(r, output) ELSE "unverified",
                   StubOutput(r), output, "decided")
      BY <3>1
    <3>3. output = StubOutput(r) /\ r \in Recommendations
      BY <3>2, NothingReplaced DEF Judge, DecisionTypeOK
    <3> QED BY <3>2, <3>3, OwnStubPasses DEF Judge
  <2>7. CASE EvaluateGate \/ ServiceChanges \/ OtherSessionRemembers \/ UNCHANGED decisionVars
    <3>1. UNCHANGED <<pc, replaced>>
      BY <2>7 DEF EvaluateGate, ServiceChanges, OtherSessionRemembers, decisionVars, record
    <3> QED BY <3>1 DEF OwnToolsSatisfyVerifiers
  <2> QED BY <2>1, <2>2, <2>3, <2>4, <2>5, <2>6, <2>7 DEF Next, Slice
<1> QED BY <1>1, <1>2, DecisionTypeCorrect, PTL DEF Spec

-----------------------------------------------------------------------------
(* Torn reads of the live service *)

\* Nothing has been concluded from the evidence before it is read.
BeforeEvidence == {"triage", "follow_up", "evidence", "read_health"}

\* While only the repository's tools have spoken, live evidence says what the two
\* reads found, and a hypothesis is the one the tool makes of the evidence.
EvidenceTellsReads ==
    replaced = 0 =>
        /\ pc \in BeforeEvidence => evidence = {} /\ hypothesis = {} /\ health = "none"
        /\ pc = "hypothesis" => hypothesis = {}
        /\ health # "none" =>
              \A e \in evidence :
                  /\ e.bad_release_active = Reported(DeploymentOf(deployment).bad_release_active)
                  /\ e.healthy = Reported(Healthy(health))
        /\ \A h \in hypothesis : \E e \in evidence : h = HypothesisOutput(e)

\* The two flags of live evidence are what the two reads reported.
LEMMA LiveEvidenceReads ==
    ASSUME NEW i, NEW d, NEW flag
    PROVE  /\ LiveEvidence(i, d, flag).bad_release_active = Reported(d.bad_release_active)
           /\ LiveEvidence(i, d, flag).healthy = Reported(flag)
BY DEF LiveEvidence

\* A supported hypothesis of the tool's needs a release not known to be good and a
\* service not known to be healthy; a resolved one needs both to be known.
LEMMA OwnHypothesisNeeds ==
    ASSUME NEW e
    PROVE  /\ SupportedHypothesis(HypothesisOutput(e)) =>
                 e.bad_release_active # "false" /\ e.healthy # "true"
           /\ ResolvedNoAction(HypothesisOutput(e)) =>
                 e.bad_release_active = "false" /\ e.healthy = "true"
<1> DEFINE supported == evidence_supports_deployment_regression(e)
           recovered == evidence_shows_known_good_recovery(e)
           h == HypothesisOutput(e)
<1>1. supported \in BOOLEAN /\ recovered \in BOOLEAN
  BY DEF evidence_supports_deployment_regression, evidence_shows_known_good_recovery
<1>2. /\ h.evidence_supported = supported
      /\ h.gaps = CASE supported -> "validation"
                    [] ~supported /\ recovered -> "none"
                    [] OTHER -> "causal"
  BY DEF HypothesisOutput
<1>3. /\ supported => e.bad_release_active # "false" /\ e.healthy # "true"
      /\ recovered => e.bad_release_active = "false" /\ e.healthy = "true"
  BY DEF evidence_supports_deployment_regression, evidence_shows_known_good_recovery
<1> HIDE DEF h, supported, recovered
<1>4. SupportedHypothesis(h) => supported
  BY <1>2 DEF SupportedHypothesis
<1>5. ResolvedNoAction(h) => recovered
  BY <1>1, <1>2 DEF ResolvedNoAction
<1> QED BY <1>3, <1>4, <1>5 DEF h

\* What the repository's tools say of a live service is what its two reads say.
THEOREM EvidenceIsWhatWasRead == Spec => []EvidenceTellsReads
<1>1. Init => EvidenceTellsReads
  BY DEF Init, EvidenceTellsReads
<1>2. DecisionTypeOK /\ EvidenceTellsReads /\ [Next]_decisionVars => EvidenceTellsReads'
  <2> SUFFICES ASSUME DecisionTypeOK, EvidenceTellsReads, [Next]_decisionVars,
                      replaced' = 0
               PROVE  EvidenceTellsReads'
    BY DEF EvidenceTellsReads
  <2> USE DEF BeforeEvidence
  <2>1. CASE RunTriage
    <3>1. PICK output : Count(TriageOutput(given), output)
      BY <2>1 DEF RunTriage
    <3>2. replaced = 0
      BY <3>1, NothingReplaced
    <3> QED BY <2>1, <3>2 DEF RunTriage, EvidenceTellsReads, reads
  <2>2. CASE SkipFollowUp \/ ReadDeployment \/ ReadFails \/ Refuse
    BY <2>2 DEF SkipFollowUp, ReadDeployment, ReadFails, Refuse, Slots, EvidenceTellsReads,
                record, outputs, reads
  <2>3. CASE RunFollowUp
    <3>1. PICK verdict, own, output : Judge("follow_up", verdict, own, output, "evidence")
      BY <2>3 DEF RunFollowUp
    <3>2. replaced = 0
      BY <3>1, NothingReplaced DEF Judge
    <3> QED BY <2>3, <3>1, <3>2 DEF RunFollowUp, Judge, EvidenceTellsReads, reads
  <2>4. CASE ReadHealth
    <3>1. PICK i : TakeEvidence(i, LiveEvidence(i, DeploymentOf(deployment), Healthy(service)))
      BY <2>4 DEF ReadHealth
    <3> DEFINE own == LiveEvidence(i, DeploymentOf(deployment), Healthy(service))
    <3>2. PICK output :
             /\ evidence' = {output}
             /\ Judge("evidence", EvidenceVerdict(i.target, output), own, output, "hypothesis")
      BY <3>1 DEF TakeEvidence
    <3>3. output = own /\ replaced = 0
      BY <3>2, NothingReplaced DEF Judge
    <3>4. /\ own.bad_release_active = Reported(DeploymentOf(deployment).bad_release_active)
          /\ own.healthy = Reported(Healthy(service))
      BY LiveEvidenceReads
    <3>5. /\ pc = "read_health" /\ health' = service
          /\ UNCHANGED <<deployment, hypothesis>>
      BY <2>4 DEF ReadHealth
    <3>6. hypothesis' = {} /\ pc' \in {"hypothesis", "unverified"}
      BY <3>2, <3>3, <3>5 DEF Judge, EvidenceTellsReads
    <3>7. /\ DeploymentOf(deployment)' = DeploymentOf(deployment)
          /\ Healthy(health)' = Healthy(service)
      BY <3>5
    <3>8. \A e \in evidence' :
             /\ e.bad_release_active = Reported(DeploymentOf(deployment)'.bad_release_active)
             /\ e.healthy = Reported(Healthy(health)')
      BY <3>2, <3>3, <3>4, <3>7
    <3> QED BY <3>6, <3>8 DEF EvidenceTellsReads
  <2>5. CASE ReadFixture
    <3>1. PICK i, own : TakeEvidence(i, own)
      BY <2>5 DEF ReadFixture
    <3>2. PICK verdict, output : Judge("evidence", verdict, own, output, "hypothesis")
      BY <3>1 DEF TakeEvidence
    <3>3. replaced = 0
      BY <3>2, NothingReplaced DEF Judge
    <3>4. pc = "evidence" /\ UNCHANGED <<reads, hypothesis>>
      BY <2>5 DEF ReadFixture
    <3>5. hypothesis' = {} /\ health' = "none" /\ pc' \in {"hypothesis", "unverified"}
      BY <3>2, <3>3, <3>4 DEF Judge, EvidenceTellsReads, reads
    <3> QED BY <3>5 DEF EvidenceTellsReads
  <2>6. CASE RunHypothesis
    <3>1. PICK e \in evidence : \E output :
             /\ hypothesis' = {output}
             /\ Judge("hypothesis", HypothesisVerdict(e, output), HypothesisOutput(e), output,
                      "recommendation")
      BY <2>6 DEF RunHypothesis
    <3>2. PICK output :
             /\ hypothesis' = {output}
             /\ Judge("hypothesis", HypothesisVerdict(e, output), HypothesisOutput(e), output,
                      "recommendation")
      BY <3>1
    <3>3. output = HypothesisOutput(e) /\ replaced = 0
      BY <3>2, NothingReplaced DEF Judge
    <3>4. UNCHANGED <<evidence, reads>>
      BY <2>6 DEF RunHypothesis
    <3>5. pc' \in {"recommendation", "unverified"}
      BY <3>2 DEF Judge
    <3>6. \A h \in hypothesis' : \E x \in evidence' : h = HypothesisOutput(x)
      BY <3>1, <3>2, <3>3, <3>4
    <3> QED BY <3>3, <3>4, <3>5, <3>6 DEF EvidenceTellsReads, reads
  <2>7. CASE RunRecommendation
    <3>1. PICK verdict, own, output :
             Judge("recommendation", verdict, own, output, "action_stub")
      BY <2>7 DEF RunRecommendation
    <3>2. replaced = 0 /\ pc' \in {"action_stub", "unverified"}
      BY <3>1, NothingReplaced DEF Judge
    <3> QED BY <2>7, <3>2 DEF RunRecommendation, EvidenceTellsReads, reads
  <2>8. CASE RunActionStub
    <3>1. PICK verdict, own, output : Judge("action_stub", verdict, own, output, "decided")
      BY <2>8 DEF RunActionStub
    <3>2. replaced = 0 /\ pc' \in {"decided", "unverified"}
      BY <3>1, NothingReplaced DEF Judge
    <3> QED BY <2>8, <3>2 DEF RunActionStub, EvidenceTellsReads, reads
  <2>9. CASE EvaluateGate \/ ServiceChanges \/ OtherSessionRemembers \/ UNCHANGED decisionVars
    <3>1. UNCHANGED <<pc, evidence, hypothesis, deployment, health, replaced>>
      BY <2>9 DEF EvaluateGate, ServiceChanges, OtherSessionRemembers, decisionVars, record,
                  outputs, reads
    <3> QED BY <3>1 DEF EvidenceTellsReads
  <2> QED BY <2>1, <2>2, <2>3, <2>4, <2>5, <2>6, <2>7, <2>8, <2>9 DEF Next, Slice
<1> QED BY <1>1, <1>2, DecisionTypeCorrect, PTL DEF Spec

\* The reads of /deployment and /health are not atomic, and a service that changes
\* between them is never taken for more than both reads say: the repository's tools
\* call it a regression only if it was bad at both, and recovered only if it ran the
\* known-good version at both (_read_live_deployment_evidence and the two tests of
\* the hypothesis builder).
THEOREM TornReadsAreConservative == Spec => []TornReadIsConservative
<1>1. EvidenceTellsReads => TornReadIsConservative
  <2> SUFFICES ASSUME EvidenceTellsReads, replaced = 0, health # "none",
                      NEW h \in hypothesis
               PROVE  /\ SupportedHypothesis(h) => ~Healthy(deployment) /\ ~Healthy(health)
                      /\ ResolvedNoAction(h) => Healthy(deployment) /\ Healthy(health)
    BY DEF TornReadIsConservative
  <2>1. PICK e \in evidence : h = HypothesisOutput(e)
    BY DEF EvidenceTellsReads
  <2>2. /\ e.bad_release_active = Reported(DeploymentOf(deployment).bad_release_active)
        /\ e.healthy = Reported(Healthy(health))
    BY <2>1 DEF EvidenceTellsReads
  <2>3. DeploymentOf(deployment).bad_release_active = ~Healthy(deployment)
    BY DEF DeploymentOf, Healthy
  <2>4. /\ Reported(DeploymentOf(deployment).bad_release_active) = "false"
              <=> Healthy(deployment)
        /\ Reported(Healthy(health)) = "true" <=> Healthy(health)
    BY <2>3 DEF Reported, Healthy
  <2> QED BY <2>1, <2>2, <2>4, OwnHypothesisNeeds
<1> QED BY <1>1, EvidenceIsWhatWasRead, PTL

-----------------------------------------------------------------------------
(* The promise of the pipeline *)

\* The slices whose output a chain has when it reaches one, and those it has not.
ChainShape ==
    /\ pc = "triage" => triage = {} /\ passed = {}
    /\ pc = "follow_up" => triage # {} /\ passed \subseteq {"triage"}
    /\ pc \in {"evidence", "read_health"} =>
          /\ triage # {} /\ investigation # {}
          /\ passed \subseteq {"triage", "follow_up"}
    /\ pc = "hypothesis" =>
          /\ triage # {} /\ investigation # {} /\ evidence # {}
          /\ passed \subseteq {"triage", "follow_up", "evidence"}
    /\ pc = "recommendation" =>
          /\ triage # {} /\ investigation # {} /\ evidence # {} /\ hypothesis # {}
          /\ passed \cap {"recommendation", "action_stub"} = {}
    /\ pc = "action_stub" =>
          /\ triage # {} /\ investigation # {} /\ evidence # {} /\ hypothesis # {}
          /\ recommendation # {} /\ "action_stub" \notin passed
    /\ pc \in {"triage", "follow_up"} => investigation = {}
    /\ pc \in BeforeEvidence => evidence = {}
    /\ pc \in BeforeEvidence \cup {"hypothesis"} => hypothesis = {}
    /\ pc \in BeforeEvidence \cup {"hypothesis", "recommendation"} => recommendation = {}
    /\ pc \in BeforeEvidence \cup {"hypothesis", "recommendation", "action_stub"} => stub = {}

\* Each slice finds the output of the one before it, and none of its own yet.
THEOREM SlicesComeInOrder == Spec => []ChainShape
<1>1. Init => ChainShape
  BY DEF Init, ChainShape, BeforeEvidence
<1>2. ChainShape /\ [Next]_decisionVars => ChainShape'
  <2> SUFFICES ASSUME ChainShape, [Next]_decisionVars PROVE ChainShape'
    OBVIOUS
  <2> USE DEF BeforeEvidence
  <2>1. CASE RunTriage
    <3>1. triage' # {} /\ passed' \subseteq {"triage"}
      BY <2>1 DEF RunTriage
    <3> QED BY <2>1, <3>1 DEF RunTriage, ChainShape
  <2>2. CASE SkipFollowUp
    BY <2>2 DEF SkipFollowUp, ChainShape
  <2>3. CASE RunFollowUp
    <3>1. PICK verdict, own, output :
             /\ investigation' = {output}
             /\ Judge("follow_up", verdict, own, output, "evidence")
      BY <2>3 DEF RunFollowUp
    <3>2. pc' \in {"evidence", "unverified"} /\ passed' \subseteq passed \cup {"follow_up"}
      BY <3>1 DEF Judge
    <3> QED BY <2>3, <3>1, <3>2 DEF RunFollowUp, ChainShape
  <2>4. CASE ReadDeployment
    BY <2>4 DEF ReadDeployment, ChainShape, outputs
  <2>5. CASE ReadFails \/ Refuse
    BY <2>5 DEF ReadFails, Refuse, ChainShape
  <2>6. CASE ReadHealth \/ ReadFixture
    <3>1. /\ pc \in {"evidence", "read_health"}
          /\ UNCHANGED <<triage, investigation, hypothesis, recommendation, stub>>
      BY <2>6 DEF ReadHealth, ReadFixture
    <3>2. \E i, own : TakeEvidence(i, own)
      BY <2>6 DEF ReadHealth, ReadFixture
    <3>3. PICK verdict, own, output :
             evidence' = {output} /\ Judge("evidence", verdict, own, output, "hypothesis")
      BY <3>2 DEF TakeEvidence
    <3>4. pc' \in {"hypothesis", "unverified"} /\ passed' \subseteq passed \cup {"evidence"}
      BY <3>3 DEF Judge
    <3> QED BY <3>1, <3>3, <3>4 DEF ChainShape
  <2>7. CASE RunHypothesis
    <3>1. PICK verdict, own, output :
             /\ hypothesis' = {output}
             /\ Judge("hypothesis", verdict, own, output, "recommendation")
      BY <2>7 DEF RunHypothesis
    <3>2. /\ pc' \in {"recommendation", "unverified"}
          /\ passed' \subseteq passed \cup {"hypothesis"}
      BY <3>1 DEF Judge
    <3> QED BY <2>7, <3>1, <3>2 DEF RunHypothesis, ChainShape
  <2>8. CASE RunRecommendation
    <3>1. PICK verdict, own, output :
             /\ recommendation' = {output}
             /\ Judge("recommendation", verdict, own, output, "action_stub")
      BY <2>8 DEF RunRecommendation
    <3>2. /\ pc' \in {"action_stub", "unverified"}
          /\ passed' \subseteq passed \cup {"recommendation"}
      BY <3>1 DEF Judge
    <3> QED BY <2>8, <3>1, <3>2 DEF RunRecommendation, ChainShape
  <2>9. CASE RunActionStub
    <3>1. PICK verdict, own, output : Judge("action_stub", verdict, own, output, "decided")
      BY <2>9 DEF RunActionStub
    <3>2. pc' \in {"decided", "unverified"}
      BY <3>1 DEF Judge
    <3> QED BY <3>2 DEF ChainShape
  <2>10. CASE EvaluateGate \/ ServiceChanges \/ OtherSessionRemembers \/ UNCHANGED decisionVars
    <3>1. UNCHANGED <<pc, outputs, passed>>
      BY <2>10 DEF EvaluateGate, ServiceChanges, OtherSessionRemembers, decisionVars, record
    <3> QED BY <3>1 DEF ChainShape, outputs
  <2> QED BY <2>1, <2>2, <2>3, <2>4, <2>5, <2>6, <2>7, <2>8, <2>9, <2>10 DEF Next, Slice
<1> QED BY <1>1, <1>2, PTL DEF Spec

\* A step of the pipeline, for the outputs of the chain.
PipelineStep == [Promise!PipelineNext]_(Promise!pipelineVars)

\* A step that leaves outputs and verdicts alone leaves the pipeline where it is.
LEMMA PipelineWaits ==
    ASSUME UNCHANGED <<outputs, passed>> PROVE PipelineStep
<1>1. UNCHANGED <<triage, investigation, evidence, hypothesis, recommendation, stub, passed>>
  BY DEF outputs
<1>2. StageReached' = StageReached
  BY <1>1 DEF StageReached
<1>3. ClaimReached' = ClaimReached
  BY <1>1 DEF ClaimReached
<1> QED BY <1>2, <1>3 DEF PipelineStep, Promise!pipelineVars

\* A claim passed on is the one before or none.
LEMMA PipelinePasses ==
    ASSUME StageReached \in 3 .. 5, StageReached' = StageReached + 1,
           ClaimReached' \in {ClaimReached, "none"}
    PROVE  PipelineStep
BY DEF PipelineStep, Promise!PipelineNext, Promise!PassOn, Promise!EvidenceStage,
       Promise!LastStage

\* The claims of the chain are those of its pipeline.
LEMMA ClaimValues ==
    ASSUME NEW b PROVE ClaimOf(b) \in {"none", "supported", "conservative"}
BY DEF ClaimOf

\* A triage begins the pipeline.
LEMMA TriageBegins ==
    ASSUME ChainShape, RunTriage PROVE PipelineStep
<1>1. /\ triage' # {} /\ investigation' = {} /\ evidence' = {} /\ hypothesis' = {}
      /\ recommendation' = {} /\ stub' = {}
  BY DEF RunTriage, ChainShape, BeforeEvidence
<1>2. StageReached' = 1
  BY <1>1 DEF StageReached
<1>3. ClaimReached' = "none"
  BY <1>1 DEF ClaimReached
<1> QED BY <1>2, <1>3 DEF PipelineStep, Promise!PipelineNext, Promise!Begin

\* A follow-up prepares the read.
LEMMA FollowUpPrepares ==
    ASSUME ChainShape, RunFollowUp PROVE PipelineStep
<1>1. /\ triage # {} /\ investigation = {} /\ evidence = {} /\ hypothesis = {}
      /\ recommendation = {} /\ stub = {}
  BY DEF RunFollowUp, ChainShape, BeforeEvidence
<1>2. investigation' # {} /\ UNCHANGED <<evidence, hypothesis, recommendation, stub>>
  BY DEF RunFollowUp
<1>3. StageReached = 1 /\ StageReached' = 2
  BY <1>1, <1>2 DEF StageReached
<1>4. ClaimReached = "none" /\ ClaimReached' = "none"
  BY <1>1, <1>2 DEF ClaimReached
<1> QED BY <1>3, <1>4 DEF PipelineStep, Promise!PipelineNext, Promise!Prepare,
                          Promise!EvidenceStage

\* The evidence makes the claim, if its verifier passes it.
LEMMA EvidenceClaims ==
    ASSUME ChainShape, ReadHealth \/ ReadFixture PROVE PipelineStep
<1>1. /\ pc \in {"evidence", "read_health"}
      /\ UNCHANGED <<triage, investigation, hypothesis, recommendation, stub>>
  BY DEF ReadHealth, ReadFixture
<1>2. /\ triage # {} /\ investigation # {} /\ evidence = {} /\ hypothesis = {}
      /\ recommendation = {} /\ stub = {}
  BY <1>1 DEF ChainShape, BeforeEvidence
<1>3. \E i, own : TakeEvidence(i, own)
  BY DEF ReadHealth, ReadFixture
<1>4. evidence' # {}
  BY <1>3 DEF TakeEvidence
<1>5. StageReached = 2 /\ StageReached' = 3
  BY <1>1, <1>2, <1>4 DEF StageReached
<1>6. \/ ClaimReached' = ClaimOf(\A e \in evidence' : Supports(e))
      \/ ClaimReached' = "none"
  BY <1>1, <1>2, <1>4 DEF ClaimReached
<1>7. ClaimReached' \in {"none", "supported", "conservative"}
  BY <1>6, ClaimValues
<1> QED BY <1>5, <1>7 DEF PipelineStep, Promise!PipelineNext, Promise!ReadEvidence,
                          Promise!EvidenceStage

\* A hypothesis passes on what the evidence supports.
LEMMA HypothesisPassesOn ==
    ASSUME ChainShape, ClaimCarried, RunHypothesis PROVE PipelineStep
<1>1. /\ triage # {} /\ investigation # {}
      /\ evidence # {} /\ "evidence" \in passed /\ "hypothesis" \notin passed
      /\ hypothesis = {} /\ recommendation = {} /\ stub = {}
      /\ hypothesis' # {} /\ UNCHANGED <<triage, investigation, evidence, recommendation, stub>>
  BY DEF RunHypothesis, ChainShape, ClaimCarried, AfterEvidence, BeforeEvidence
<1>2. StageReached = 3 /\ StageReached' = 3 + 1
  BY <1>1 DEF StageReached
<1>3. ClaimReached = ClaimOf(\A x \in evidence : Supports(x))
  BY <1>1 DEF ClaimReached
<1>4. "hypothesis" \in passed' =>
          ClaimReached' = ClaimOf(\A x \in hypothesis' : SupportedHypothesis(x))
  BY <1>1 DEF ClaimReached
<1>5. "hypothesis" \notin passed' => ClaimReached' = "none"
  BY <1>1 DEF ClaimReached
<1>6. PICK e \in evidence : \E own, output :
         /\ hypothesis' = {output}
         /\ Judge("hypothesis", HypothesisVerdict(e, output), own, output, "recommendation")
  BY DEF RunHypothesis
<1>7. PICK own, output :
         /\ hypothesis' = {output}
         /\ Judge("hypothesis", HypothesisVerdict(e, output), own, output, "recommendation")
  BY <1>6
<1>8. CASE HypothesisVerdict(e, output) = "pass"
  <2>1. SupportedHypothesis(output) <=> Supports(e)
    BY <1>8, HypothesisFollows
  <2>2. (\A x \in evidence : Supports(x)) <=> Supports(e)
    BY <1>6 DEF ClaimCarried, Single
  <2>3. (\A x \in hypothesis' : SupportedHypothesis(x)) <=> Supports(e)
    BY <1>7, <2>1
  <2>4. "hypothesis" \in passed'
    BY <1>7, <1>8 DEF Judge
  <2>5. ClaimReached' = ClaimReached
    BY <1>3, <1>4, <2>2, <2>3, <2>4 DEF ClaimOf
  <2> QED BY <1>2, <2>5, PipelinePasses
<1>9. CASE HypothesisVerdict(e, output) # "pass"
  <2>1. ClaimReached' = "none"
    BY <1>1, <1>5, <1>7, <1>9 DEF Judge
  <2> QED BY <1>2, <2>1, PipelinePasses
<1> QED BY <1>8, <1>9

\* A recommendation passes on what the hypothesis claims.
LEMMA RecommendationPassesOn ==
    ASSUME ChainShape, ClaimCarried, RunRecommendation PROVE PipelineStep
<1>1. /\ triage # {} /\ investigation # {} /\ evidence # {}
      /\ hypothesis # {} /\ "hypothesis" \in passed /\ "recommendation" \notin passed
      /\ recommendation = {} /\ stub = {}
      /\ recommendation' # {} /\ UNCHANGED <<triage, investigation, evidence, hypothesis, stub>>
  BY DEF RunRecommendation, ChainShape, ClaimCarried, AfterHypothesis, BeforeEvidence
<1>2. StageReached = 4 /\ StageReached' = 4 + 1
  BY <1>1 DEF StageReached
<1>3. ClaimReached = ClaimOf(\A x \in hypothesis : SupportedHypothesis(x))
  BY <1>1 DEF ClaimReached
<1>4. "recommendation" \in passed' =>
          ClaimReached' = ClaimOf(\A x \in recommendation' : AsksForRollback(x))
  BY <1>1 DEF ClaimReached
<1>5. "recommendation" \notin passed' => ClaimReached' = "none"
  BY <1>1 DEF ClaimReached
<1>6. PICK h \in hypothesis : \E own, output :
         /\ recommendation' = {output}
         /\ Judge("recommendation", RecommendationVerdict(h, output), own, output, "action_stub")
  BY DEF RunRecommendation
<1>7. PICK own, output :
         /\ recommendation' = {output}
         /\ Judge("recommendation", RecommendationVerdict(h, output), own, output, "action_stub")
  BY <1>6
<1>8. CASE RecommendationVerdict(h, output) = "pass"
  <2>1. AsksForRollback(output) <=> SupportedHypothesis(h)
    BY <1>8, RecommendationFollows
  <2>2. (\A x \in hypothesis : SupportedHypothesis(x)) <=> SupportedHypothesis(h)
    BY <1>6 DEF ClaimCarried, Single
  <2>3. (\A x \in recommendation' : AsksForRollback(x)) <=> SupportedHypothesis(h)
    BY <1>7, <2>1
  <2>4. "recommendation" \in passed'
    BY <1>7, <1>8 DEF Judge
  <2>5. ClaimReached' = ClaimReached
    BY <1>3, <1>4, <2>2, <2>3, <2>4 DEF ClaimOf
  <2> QED BY <1>2, <2>5, PipelinePasses
<1>9. CASE RecommendationVerdict(h, output) # "pass"
  <2>1. ClaimReached' = "none"
    BY <1>1, <1>5, <1>7, <1>9 DEF Judge
  <2> QED BY <1>2, <2>1, PipelinePasses
<1> QED BY <1>8, <1>9

\* A stub passes on what the recommendation asks for; one that does not parse leaves
\* nothing behind.
LEMMA StubPassesOn ==
    ASSUME DecisionTypeOK, ChainShape, ClaimCarried, RunActionStub PROVE PipelineStep
<1>1. /\ triage # {} /\ investigation # {} /\ evidence # {} /\ hypothesis # {}
      /\ recommendation # {} /\ "recommendation" \in passed
      /\ stub = {} /\ "action_stub" \notin passed
      /\ UNCHANGED <<triage, investigation, evidence, hypothesis, recommendation>>
  BY DEF RunActionStub, ChainShape, ClaimCarried, AfterRecommendation, BeforeEvidence
<1>2. StageReached = 5 /\ (stub' # {} => StageReached' = 6)
  BY <1>1 DEF StageReached
<1>3. ClaimReached = ClaimOf(\A x \in recommendation : AsksForRollback(x))
  BY <1>1 DEF ClaimReached
<1>4. stub' # {} /\ "action_stub" \in passed' =>
          ClaimReached' = ClaimOf(\A x \in stub' : x.approval_required)
  BY <1>1 DEF ClaimReached
<1>5. stub' # {} /\ "action_stub" \notin passed' => ClaimReached' = "none"
  BY <1>1 DEF ClaimReached
<1>6. PICK r \in recommendation : \E output \in Returned("action_stub", StubOutput(r), Stubs) :
         /\ stub' = IF StubParses(output) THEN {output} ELSE {}
         /\ Judge("action_stub",
                  IF StubParses(output) THEN StubVerdict(r, output) ELSE "unverified",
                  StubOutput(r), output, "decided")
  BY DEF RunActionStub
<1>7. PICK output \in Returned("action_stub", StubOutput(r), Stubs) :
         /\ stub' = IF StubParses(output) THEN {output} ELSE {}
         /\ Judge("action_stub",
                  IF StubParses(output) THEN StubVerdict(r, output) ELSE "unverified",
                  StubOutput(r), output, "decided")
  BY <1>6
<1>8. output \in Stubs
  BY <1>6, StubOutputType, ReturnedType DEF DecisionTypeOK
<1>9. CASE ~StubParses(output)
  <2>1. stub' = stub /\ passed' = passed
    BY <1>1, <1>7, <1>9 DEF Judge
  <2> QED BY <1>1, <2>1, PipelineWaits DEF outputs
<1>10. CASE StubParses(output) /\ StubVerdict(r, output) = "pass"
  <2>1. stub' = {output} /\ "action_stub" \in passed'
    BY <1>7, <1>10 DEF Judge
  <2>2. output.approval_required <=> AsksForRollback(r)
    BY <1>8, <1>10, StubFollows
  <2>3. (\A x \in recommendation : AsksForRollback(x)) <=> AsksForRollback(r)
    BY <1>6 DEF ClaimCarried, Single
  <2>4. (\A x \in stub' : x.approval_required) <=> AsksForRollback(r)
    BY <2>1, <2>2
  <2>5. ClaimReached' = ClaimReached
    BY <1>3, <1>4, <2>1, <2>3, <2>4 DEF ClaimOf
  <2> QED BY <1>2, <2>1, <2>5, PipelinePasses
<1>11. CASE StubParses(output) /\ StubVerdict(r, output) # "pass"
  <2>1. stub' # {} /\ "action_stub" \notin passed'
    BY <1>1, <1>7, <1>11 DEF Judge
  <2> QED BY <1>2, <1>5, <2>1, PipelinePasses
<1> QED BY <1>9, <1>10, <1>11

\* With any tool plugged in, the outputs of a chain keep the promise of IncidentPipeline:
\* the evidence makes a claim once, and every verified output after it repeats that
\* claim or drops it (the four verifiers, each of which compares two artifacts).
THEOREM DataKeepsThePromise == Spec => DataImplementsPipeline
<1>1. Init => Promise!PipelineInit
  <2> SUFFICES ASSUME Init PROVE StageReached = 0 /\ ClaimReached = "none"
    BY DEF Promise!PipelineInit
  <2>1. StageReached = 0
    BY DEF Init, StageReached
  <2>2. ClaimReached = "none"
    BY DEF Init, ClaimReached
  <2> QED BY <2>1, <2>2
<1>2. DecisionTypeOK /\ ChainShape /\ ClaimCarried /\ [Next]_decisionVars => PipelineStep
  <2> SUFFICES ASSUME DecisionTypeOK, ChainShape, ClaimCarried, [Next]_decisionVars
               PROVE  PipelineStep
    OBVIOUS
  <2>1. CASE RunTriage
    BY <2>1, TriageBegins
  <2>2. CASE RunFollowUp
    BY <2>2, FollowUpPrepares
  <2>3. CASE ReadHealth \/ ReadFixture
    BY <2>3, EvidenceClaims
  <2>4. CASE RunHypothesis
    BY <2>4, HypothesisPassesOn
  <2>5. CASE RunRecommendation
    BY <2>5, RecommendationPassesOn
  <2>6. CASE RunActionStub
    BY <2>6, StubPassesOn
  <2>7. CASE SkipFollowUp
    <3>1. pc = "follow_up" /\ UNCHANGED outputs
      BY <2>7 DEF SkipFollowUp
    <3>2. UNCHANGED <<triage, investigation, evidence, hypothesis, recommendation, stub>>
      BY <3>1 DEF outputs
    <3>3. evidence = {} /\ hypothesis = {} /\ recommendation = {} /\ stub = {}
      BY <3>1 DEF ChainShape, BeforeEvidence
    <3>4. StageReached' = StageReached
      BY <3>2 DEF StageReached
    <3>5. ClaimReached = "none" /\ ClaimReached' = "none"
      BY <3>2, <3>3 DEF ClaimReached
    <3> QED BY <3>4, <3>5 DEF PipelineStep, Promise!pipelineVars
  <2>8. CASE ReadDeployment \/ ReadFails \/ Refuse \/ EvaluateGate \/ ServiceChanges
             \/ OtherSessionRemembers \/ UNCHANGED decisionVars
    <3>1. UNCHANGED <<outputs, passed>>
      BY <2>8 DEF ReadDeployment, ReadFails, Refuse, EvaluateGate, ServiceChanges,
                  OtherSessionRemembers, decisionVars, record
    <3> QED BY <3>1, PipelineWaits
  <2> QED BY <2>1, <2>2, <2>3, <2>4, <2>5, <2>6, <2>7, <2>8 DEF Next, Slice
<1> QED BY <1>1, <1>2, DecisionTypeCorrect, ClaimIsCarried, SlicesComeInOrder, PTL
    DEF Spec, DataImplementsPipeline, Promise!PipelineSpec, PipelineStep

=============================================================================
