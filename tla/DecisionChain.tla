---------------------------- MODULE DecisionChain ----------------------------
(***************************************************************************)
(* One incident decided by the tables of ToolContracts: the data that the  *)
(* chain's slices hand on, from the alert to the auto-safe gate, while the *)
(* live service changes under the reads and another session of the same    *)
(* incident writes the shared working memory.  Files and crashes are the   *)
(* subject of SliceChain; here every slice runs to its end in one step,    *)
(* except the evidence read, which asks the service twice.                 *)
(*                                                                         *)
(* The steps accept any tool: one that is plugged in may return another    *)
(* output than the repository's, and may declare any risk.                 *)
(***************************************************************************)
EXTENDS AutoSafeGate

CONSTANTS
    AlertMetadata,  \* the metadata an alert may come with: a set of sets
    Risks,          \* the risk levels a plugged-in tool may declare
    Plugged(_, _),  \* what else a slice's tool may return than the repository's output
    MaxReplaced     \* outputs replaced in all                              (bound)

ASSUME MetadataAssumption == AlertMetadata \subseteq SUBSET Metadata
ASSUME RisksAssumption == Risks \subseteq RiskLevels
ASSUME ReplacedAssumption == MaxReplaced \in Nat

VARIABLES
    intake,         \* what the alert said of the live target
    given,          \* the metadata it came with
    service,        \* the release the live service runs
    memory,         \* the gaps in the incident's working memory, if there is one
    pc,             \* the slice that is next, or how the chain ended
    triage, investigation, evidence, hypothesis, recommendation, stub,  \* outputs
    passed,         \* the slices whose verifier passed
    deployment,     \* the release GET /deployment reported to the evidence read
    health,         \* ... and GET /health
    replaced,       \* the outputs so far that are not the repository's own
    opened          \* the release for which the gate opened, at its last evaluation

outputs == <<triage, investigation, evidence, hypothesis, recommendation, stub>>
reads == <<deployment, health>>
record == <<outputs, passed, reads, replaced>>
decisionVars == <<intake, given, service, memory, pc, record, opened>>

-----------------------------------------------------------------------------
(* The live service *)

\* The release the alert is about, the one before it, and a later bad one.
Releases == {"bad", "good", "next"}

DeploymentOf(release) ==
    [current_version |-> CASE release = "bad" -> ExpectedBad
                           [] release = "good" -> ExpectedPrevious
                           [] release = "next" -> "v3",
     previous_version |-> IF release = "next" THEN ExpectedBad ELSE ExpectedPrevious,
     recent_deployment |-> TRUE,
     bad_release_active |-> release # "good",
     rollback_available |-> release # "good"]

Healthy(release) == release = "good"

-----------------------------------------------------------------------------
Slots == {"triage", "follow_up", "evidence", "hypothesis", "recommendation", "action_stub"}

Endings == {"no_action",     \* nothing to follow up
            "decided",       \* a verified stub
            "unverified",    \* an output failed its verifier or does not parse
            "unread",        \* the evidence could not be read
            "refused"}       \* the tool is not read-only

Init ==
    /\ intake \in Intakes /\ given \in AlertMetadata
    /\ service \in Releases /\ memory = {}
    /\ pc = "triage"
    /\ triage = {} /\ investigation = {} /\ evidence = {}
    /\ hypothesis = {} /\ recommendation = {} /\ stub = {}
    /\ passed = {} /\ deployment = "none" /\ health = "none"
    /\ replaced = 0 /\ opened = "none"

\* A read-only slice runs its tool only if the policy allows it outright.
Allowed(risk) == classify_tool(risk) = "allow"

Refuse ==
    /\ pc \in Slots
    /\ \E risk \in Risks : ~Allowed(risk)
    /\ pc' = "refused"
    /\ UNCHANGED <<intake, given, service, memory, record, opened>>

\* The tool of a slice returns its own output or a plugged-in one of the same type.
Returned(slot, own, type) ==
    {own} \cup (IF replaced < MaxReplaced THEN Plugged(slot, own) \cap type ELSE {})

Count(own, output) == replaced' = replaced + (IF output = own THEN 0 ELSE 1)

Judge(slot, verdict, own, output, next) ==
    /\ passed' = IF verdict = "pass" THEN passed \cup {slot} ELSE passed
    /\ Count(own, output)
    /\ pc' = IF verdict = "pass" THEN next ELSE "unverified"

\* The follow-up also takes up a triage that failed its verifier.
RunTriage ==
    /\ pc = "triage"
    /\ LET own == TriageOutput(given)
       IN  \E output \in Returned("triage", own, Triages) :
              /\ triage' = {output}
              /\ passed' = IF TriageVerdict(output) = "pass" THEN {"triage"} ELSE {}
              /\ Count(own, output)
    /\ pc' = "follow_up"
    /\ UNCHANGED <<intake, given, service, memory, investigation, evidence, hypothesis,
                   recommendation, stub, reads, opened>>

SkipFollowUp ==
    /\ pc = "follow_up"
    /\ \E t \in triage :
          /\ NoFollowUpNeeded("triage" \in passed, t)
          /\ passed' = IF NoOpVerdict("triage" \in passed, t) = "pass"
                       THEN passed \cup {"follow_up"} ELSE passed
    /\ pc' = "no_action"
    /\ UNCHANGED <<intake, given, service, memory, outputs, reads, replaced, opened>>

RunFollowUp ==
    /\ pc = "follow_up"
    /\ \E t \in triage :
          /\ ~NoFollowUpNeeded("triage" \in passed, t)
          /\ LET own == InvestigationOutput(t)
             IN  \E output \in Returned("follow_up", own, Investigations) :
                    /\ investigation' = {output}
                    /\ Judge("follow_up",
                             InvestigationVerdict("triage" \in passed, t, output),
                             own, output, "evidence")
    /\ UNCHANGED <<intake, given, service, memory, triage, evidence, hypothesis,
                   recommendation, stub, reads, opened>>

\* Whether the evidence is read live is decided from the verified target.
Live == \E i \in investigation : ReadsLive(i.target, intake # "no_target")

ReadDeployment ==
    /\ pc = "evidence" /\ Live
    /\ deployment' = service
    /\ pc' = "read_health"
    /\ UNCHANGED <<intake, given, service, memory, outputs, passed, health, replaced, opened>>

\* Any of the requests fails; GET /metrics between the two counts for nothing else.
ReadFails ==
    /\ pc \in {"evidence", "read_health"} /\ Live
    /\ pc' = "unread"
    /\ UNCHANGED <<intake, given, service, memory, record, opened>>

TakeEvidence(i, own) ==
    \E output \in Returned("evidence", own, Evidences) :
        /\ evidence' = {output}
        /\ Judge("evidence", EvidenceVerdict(i.target, output), own, output, "hypothesis")

ReadHealth ==
    /\ pc = "read_health"
    /\ health' = service
    /\ \E i \in investigation :
          TakeEvidence(i, LiveEvidence(i, DeploymentOf(deployment), Healthy(service)))
    /\ UNCHANGED <<intake, given, service, memory, triage, investigation, hypothesis,
                   recommendation, stub, deployment, opened>>

ReadFixture ==
    /\ pc = "evidence" /\ ~Live
    /\ \E i \in investigation : TakeEvidence(i, FixtureEvidence(i))
    /\ UNCHANGED <<intake, given, service, memory, triage, investigation, hypothesis,
                   recommendation, stub, reads, opened>>

\* A verified hypothesis or recommendation is remembered, with the hypothesis' gaps.
Remember(verdict, h) == memory' = IF verdict = "pass" THEN {h.gaps} ELSE memory

RunHypothesis ==
    /\ pc = "hypothesis"
    /\ \E e \in evidence :
          LET own == HypothesisOutput(e)
          IN  \E output \in Returned("hypothesis", own, Hypotheses) :
                 /\ hypothesis' = {output}
                 /\ Judge("hypothesis", HypothesisVerdict(e, output), own, output,
                          "recommendation")
                 /\ Remember(HypothesisVerdict(e, output), output)
    /\ UNCHANGED <<intake, given, service, triage, investigation, evidence,
                   recommendation, stub, reads, opened>>

RunRecommendation ==
    /\ pc = "recommendation"
    /\ \E h \in hypothesis :
          LET own == RecommendationOutput(h)
          IN  \E output \in Returned("recommendation", own, Recommendations) :
                 /\ recommendation' = {output}
                 /\ Judge("recommendation", RecommendationVerdict(h, output), own, output,
                          "action_stub")
                 /\ Remember(RecommendationVerdict(h, output), h)
    /\ UNCHANGED <<intake, given, service, triage, investigation, evidence,
                   hypothesis, stub, reads, opened>>

RunActionStub ==
    /\ pc = "action_stub"
    /\ \E r \in recommendation :
          LET own == StubOutput(r)
          IN  \E output \in Returned("action_stub", own, Stubs) :
                 /\ stub' = IF StubParses(output) THEN {output} ELSE {}
                 /\ Judge("action_stub",
                          IF StubParses(output) THEN StubVerdict(r, output) ELSE "unverified",
                          own, output, "decided")
    /\ UNCHANGED <<intake, given, service, memory, triage, investigation, evidence,
                   hypothesis, recommendation, reads, opened>>

-----------------------------------------------------------------------------
(* The gate *)

Verified(slot, output) == IF slot \in passed THEN output ELSE {}

\* The session waits for an approval.
Pending == pc = "decided" /\ \E s \in stub : s.created /\ s.approval_required

View(enabled, allowlisted, answer) ==
    [enabled |-> enabled, allowlisted |-> allowlisted, intake |-> intake,
     pending |-> Pending, probed |-> FALSE,
     hypothesis |-> Verified("hypothesis", hypothesis),
     recommendation |-> Verified("recommendation", recommendation),
     stub |-> Verified("action_stub", stub),
     gaps |-> memory, deployment |-> answer]

\* /why-not-auto asks in any phase, /mode auto-safe and resuming at the boundary.
\* The answer may be missing.
EvaluateGate ==
    /\ pc \in Endings
    /\ \E enabled, allowlisted \in BOOLEAN, answer \in {{}, {DeploymentOf(service)}} :
          opened' = IF GateAllows(View(enabled, allowlisted, answer))
                    THEN service ELSE "none"
    /\ UNCHANGED <<intake, given, service, memory, pc, record>>

-----------------------------------------------------------------------------
(* The world *)

\* A rollback, a restart or a new release, whenever the service is about to be read:
\* a change at another moment is one before the next read.
ServiceChanges ==
    /\ pc \in {"evidence", "read_health"} \cup Endings
    /\ service' \in Releases \ {service}
    /\ UNCHANGED <<intake, given, memory, pc, record, opened>>

\* The working memory is one file per incident: another session replaces it.  What
\* it holds is read by nobody before the chain has ended.
OtherSessionRemembers ==
    /\ pc \in Endings
    /\ memory' \in {{g} : g \in Gaps}
    /\ UNCHANGED <<intake, given, service, pc, record, opened>>

Slice ==
    \/ RunTriage \/ SkipFollowUp \/ RunFollowUp
    \/ ReadDeployment \/ ReadFails \/ ReadHealth \/ ReadFixture
    \/ RunHypothesis \/ RunRecommendation \/ RunActionStub

Next == Slice \/ Refuse \/ EvaluateGate \/ ServiceChanges \/ OtherSessionRemembers

Spec == Init /\ [][Next]_decisionVars

=============================================================================
