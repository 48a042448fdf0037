-------------------------- MODULE DecisionProperties --------------------------
(***************************************************************************)
(* What the decision tables achieve together: that the repository's tools  *)
(* meet its verifiers, that nothing a plugged-in tool says turns into a    *)
(* rollback the evidence does not support, and that torn reads of a live   *)
(* service and a shared memory never open the auto-safe gate.              *)
(***************************************************************************)
EXTENDS DecisionChain

\* Outputs are single records of their type, and a verdict is only given on one.
DecisionTypeOK ==
    /\ intake \in Intakes /\ given \subseteq Metadata
    /\ service \in Releases
    /\ memory \subseteq Gaps
    /\ pc \in Slots \cup {"read_health"} \cup Endings
    /\ triage \subseteq Triages /\ investigation \subseteq Investigations
    /\ evidence \subseteq Evidences /\ hypothesis \subseteq Hypotheses
    /\ recommendation \subseteq Recommendations /\ stub \subseteq Stubs
    /\ passed \subseteq Slots
    /\ deployment \in Releases \cup {"none"} /\ health \in Releases \cup {"none"}
    /\ replaced \in 0 .. MaxReplaced
    /\ opened \in Releases \cup {"none"}

-----------------------------------------------------------------------------
\* The tools of the repository meet its verifiers: as long as no tool is replaced,
\* no verdict stops a chain, whatever the alert lacks, whether the evidence is live
\* or on file, and however the service changes between the two reads (the builders
\* of tools/implementations against _verify_outcome of verifiers/implementations).
OwnToolsSatisfyVerifiers == replaced = 0 => pc # "unverified"

Supports(e) == evidence_supports_deployment_regression(e)

\* Whatever the tools return, a stub that all verifiers have passed proposes a
\* rollback exactly when the evidence read supports one; its gate waits for an
\* approval exactly then, and names the same action (four verifiers, each of which
\* only sees the artifact before its own).
VerifiedStubFollowsEvidence ==
    "action_stub" \in passed =>
        \E e \in evidence, s \in stub :
            /\ s.created <=> Supports(e)
            /\ s.approval_required <=> Supports(e)
            /\ s.candidate = s.proposed
            /\ ~s.allowed_without_approval

\* The two reads of a live evidence bundle are not atomic.  Still the repository's
\* tools find a regression only if the service was bad at both reads, and close the
\* incident as recovered only if it ran the known-good version at both
\* (_read_live_deployment_evidence, evidence_supports_deployment_regression,
\* evidence_shows_known_good_recovery).
TornReadIsConservative ==
    replaced = 0 /\ health # "none" =>
        /\ \A h \in hypothesis : SupportedHypothesis(h) =>
              ~Healthy(deployment) /\ ~Healthy(health)
        /\ \A h \in hypothesis : ResolvedNoAction(h) =>
              Healthy(deployment) /\ Healthy(health)

\* The auto-safe gate opens only for a session that waits for an approval, on
\* verified artifacts whose evidence supports the regression, while the live
\* service runs the release the alert was about; an answer that is missing, an
\* intake without versions and the memory another session left never open it
\* (evaluate_auto_safe_gate).
GateOpensOnlyForThisRelease ==
    opened # "none" =>
        /\ opened = "bad"
        /\ Pending
        /\ {"evidence", "hypothesis", "recommendation", "action_stub"} \subseteq passed
        /\ \E e \in evidence : Supports(e)

-----------------------------------------------------------------------------
(* The promise of the chain, kept by its data *)

StageReached ==
    CASE stub # {} -> 6
      [] stub = {} /\ recommendation # {} -> 5
      [] recommendation = {} /\ hypothesis # {} -> 4
      [] hypothesis = {} /\ evidence # {} -> 3
      [] evidence = {} /\ investigation # {} -> 2
      [] investigation = {} /\ triage # {} -> 1
      [] OTHER -> 0

ClaimOf(supported) == IF supported THEN "supported" ELSE "conservative"

\* What the latest output claims, if its verifier passed it.
ClaimReached ==
    CASE stub # {} /\ "action_stub" \in passed ->
           ClaimOf(\A s \in stub : s.approval_required)
      [] stub = {} /\ recommendation # {} /\ "recommendation" \in passed ->
           ClaimOf(\A r \in recommendation : AsksForRollback(r))
      [] recommendation = {} /\ hypothesis # {} /\ "hypothesis" \in passed ->
           ClaimOf(\A h \in hypothesis : SupportedHypothesis(h))
      [] hypothesis = {} /\ evidence # {} /\ "evidence" \in passed ->
           ClaimOf(\A e \in evidence : Supports(e))
      [] OTHER -> "none"

Promise == INSTANCE IncidentPipeline WITH stage <- StageReached, claim <- ClaimReached

\* The data of the chain implements the same pipeline as its files do
\* (ImplementsPipeline of ChainProperties): with any tool plugged in, a verified
\* output repeats the claim of the one before, and never makes one of its own.
DataImplementsPipeline == Promise!PipelineSpec

=============================================================================
