------------------------------ MODULE SliceChain ------------------------------
(***************************************************************************)
(* From an alert to a proposed rollback: one command runs six slices, each *)
(* of which loads the session, consumes the artifact of the slice before,  *)
(* runs one tool and one verifier, and commits a checkpoint.  A payload    *)
(* that names its session starts the same session again, on top of the     *)
(* files an earlier start has left.                                        *)
(*                                                                         *)
(* One action is one durable write.  The slices share the actions, as they *)
(* share the harness; what tells them apart is in the table Slices.        *)
(***************************************************************************)
EXTENDS SessionArtifacts

CONSTANTS
    Payloads,       \* does the alert leave triage gaps or is it complete
    Readings,       \* what the evidence read may say of a deployment regression
    FaultySlices,   \* the slices whose tool or verifier may go wrong ...
    FaultKinds,     \* ... and how
    MaxFaults,      \* faults of tools and verifiers    (bound)
    MaxStarts,      \* starts of the session            (bound)
    MaxCrashes      \* crashes in all                   (bound)

\* What an output amounts to: triage leaves gaps or not, a follow-up names a
\* target, and everything later either supports the regression or does not.
Claims == {"supported", "conservative"}

ASSUME PayloadsAssumption == Payloads \subseteq {"gaps", "complete"}
ASSUME ReadingsAssumption == Readings \subseteq Claims
ASSUME FaultKindsAssumption == 
    FaultKinds \subseteq {"failed", "raised", "wrong", "unjudged"}
ASSUME ChainBoundsAssumption == MaxFaults \in Nat /\ MaxStarts \in Nat /\ MaxCrashes \in Nat

VARIABLES
    checkpoint,     \* {session}.json
    transcript,     \* {session}.jsonl
    memory,         \* the incident's working-memory file
    pc,             \* where the command is
    at,             \* the slice it runs, 1 .. 6, or 0
    context,        \* the checkpoint that slice loaded
    branch,         \* what the slice chose to do
    input,          \* the claim of the artifact it consumes
    output,         \* what its tool returned
    verdict,        \* what its verifier returned
    faults, starts, crashes

files == <<checkpoint, transcript, memory>>
slice == <<at, context, branch, input, output, verdict>>
bounds == <<faults, starts, crashes>>
chainVars == <<files, pc, slice, bounds>>

-----------------------------------------------------------------------------
(* The six slices *)

\* "phases" names the phase a slice ends in, per outcome; "consumes" the phases
\* in which it may take the previous slice's artifact.
TriageSlice ==
    [artifact |-> Triage, id |-> "incident-triage",
     entry |-> {}, consumes |-> {},
     phases |-> [gaps |-> "triage_completed", complete |-> "triage_completed",
                 unsound |-> "triage_failed_verification",
                 failed_verification |-> "triage_failed_verification",
                 unverified |-> "triage_unverified"]]

FollowUpSlice ==
    [artifact |-> FollowUp, id |-> "follow-up",
     entry |-> TRIAGE_PHASES, consumes |-> TRIAGE_PHASES,
     phases |-> [target |-> "follow_up_investigation_selected",
                 deferred |-> "follow_up_complete_no_action",
                 failed_verification |-> "follow_up_failed_verification",
                 unverified |-> "follow_up_unverified"]]

EvidenceSlice ==
    [artifact |-> Evidence, id |-> "evidence-read",
     entry |-> FOLLOW_UP_PHASES, consumes |-> FOLLOW_UP_TARGET_COMPATIBLE_PHASES,
     phases |-> [supported |-> "evidence_reading_completed",
                 conservative |-> "evidence_reading_completed",
                 not_applicable |-> "evidence_reading_not_applicable",
                 deferred |-> "evidence_reading_deferred",
                 failed_artifacts |-> "evidence_reading_failed_artifacts",
                 failed_verification |-> "evidence_reading_failed_verification",
                 unverified |-> "evidence_reading_unverified"]]

HypothesisSlice ==
    [artifact |-> Hypothesis, id |-> "incident-hypothesis",
     entry |-> EVIDENCE_READING_PHASES, consumes |-> EVIDENCE_COMPATIBLE_PHASES,
     phases |-> [supported |-> "hypothesis_supported",
                 conservative |-> "hypothesis_insufficient_evidence",
                 deferred |-> "hypothesis_deferred",
                 failed_artifacts |-> "hypothesis_failed_artifacts",
                 failed_verification |-> "hypothesis_failed_verification",
                 unverified |-> "hypothesis_unverified"]]

RecommendationSlice ==
    [artifact |-> Recommendation, id |-> "incident-recommendation",
     entry |-> HYPOTHESIS_PHASES, consumes |-> HYPOTHESIS_COMPATIBLE_PHASES,
     phases |-> [supported |-> "recommendation_supported",
                 conservative |-> "recommendation_conservative",
                 deferred |-> "recommendation_deferred",
                 failed_artifacts |-> "recommendation_failed_artifacts",
                 failed_verification |-> "recommendation_failed_verification",
                 unverified |-> "recommendation_unverified"]]

ActionStubSlice ==
    [artifact |-> ActionStub, id |-> "incident-action-stub",
     entry |-> RECOMMENDATION_PHASES, consumes |-> RECOMMENDATION_COMPATIBLE_PHASES,
     phases |-> [supported |-> "action_stub_pending_approval",
                 conservative |-> "action_stub_not_actionable",
                 deferred |-> "action_stub_deferred",
                 failed_artifacts |-> "action_stub_failed_artifacts",
                 failed_verification |-> "action_stub_failed_verification",
                 unverified |-> "action_stub_unverified"]]

Slices == <<TriageSlice, FollowUpSlice, EvidenceSlice,
            HypothesisSlice, RecommendationSlice, ActionStubSlice>>

Last == Len(Slices)
This == Slices[at]
Tool(k) == Slices[k].artifact.tool
Verifier(k) == Slices[k].artifact.verifier

-----------------------------------------------------------------------------
(* Files and control *)

\* No approval state is written before the action stub.
NoCheckpoint == [id |-> [name |-> "none", stamp |-> 0], phase |-> "none",
                 step |-> 0, approval |-> "none"]

NoMemory == [source |-> "none", phase |-> "none", claim |-> "none"]
TornMemory == [source |-> "torn", phase |-> "none", claim |-> "none"]

Init ==
    /\ checkpoint = NoCheckpoint /\ transcript = << >> /\ memory = NoMemory
    /\ pc = "idle" /\ at = 0 /\ context = NoCheckpoint
    /\ branch = "none" /\ input = "none" /\ output = "none" /\ verdict = "none"
    /\ faults = 0 /\ starts = 0 /\ crashes = 0

Log(event) == transcript' = Append(transcript, event)
NextStep == context.step + 1

\* A slice leaves nothing in memory to the one after it.
Enter(k, label, loaded, choice, consumed) ==
    /\ at' = k /\ pc' = label /\ context' = loaded
    /\ branch' = choice /\ input' = consumed
    /\ output' = "none" /\ verdict' = "none"

Finish == Enter(0, "idle", NoCheckpoint, "none", "none")

Proceed ==
    IF at = Last THEN Finish ELSE Enter(at + 1, "load", NoCheckpoint, "none", "none")

\* Mutant: triage resumes the session it finds.
StartResuming ==
    /\ pc = "idle" /\ starts < MaxStarts
    /\ starts' = starts + 1
    /\ Enter(1, "request_tool", checkpoint, "act", "none")
    /\ UNCHANGED <<files, faults, crashes>>

\* Triage loads nothing: it writes step 1 of the session whatever the files hold.
Start ==
    /\ pc = "idle" /\ starts < MaxStarts
    /\ starts' = starts + 1
    /\ Enter(1, "request_tool", NoCheckpoint, "act", "none")
    /\ UNCHANGED <<files, faults, crashes>>

-----------------------------------------------------------------------------
(* Loading the session and choosing a branch *)

Accepted == Loadable(checkpoint, transcript) /\ checkpoint.phase \in This.entry

Committed == CommitPoint(checkpoint, transcript)

\* The previous slice's artifact: what its matching result claims ...
ConsumedResult(k) ==
    UNION {MatchingResult(transcript, n, Slices[k - 1].artifact) : n \in Committed}

ConsumedClaim == CHOOSE c \in {transcript[i].output : i \in ConsumedResult(at)} : TRUE

\* Mutant: the checkpoint's phase is not asked.
ResolutionAnyPhase ==
    CHOOSE r \in {VerifiedRecord(transcript, n, Slices[at - 1].artifact) : n \in Committed} :
        TRUE

\* ... and whether the checkpoint's phase and the record let it be consumed.
Resolution ==
    IF checkpoint.phase \notin This.consumes THEN "insufficient"
    ELSE CHOOSE r \in {VerifiedRecord(transcript, n, Slices[at - 1].artifact) :
                          n \in Committed} : TRUE

\* A follow-up only needs some triage output, verified or not.
TriageAvailable == \E i \in ConsumedResult(2) : transcript[i].status = "succeeded"

NothingToFollowUp ==
    /\ checkpoint.phase = "triage_completed"
    /\ Resolution = "artifact"
    /\ ConsumedClaim = "complete"

Reject ==
    /\ pc = "load"
    /\ ~Accepted \/ (at = 2 /\ ~TriageAvailable)
    /\ Finish
    /\ UNCHANGED <<files, bounds>>

BeginFollowUp ==
    /\ pc = "load" /\ at = 2 /\ Accepted /\ TriageAvailable
    /\ IF NothingToFollowUp
       THEN Enter(2, "request_verifier", checkpoint, "no_op", ConsumedClaim)
       ELSE Enter(2, "request_tool", checkpoint, "act", ConsumedClaim)
    /\ UNCHANGED <<files, bounds>>

BeginSlice ==
    /\ pc = "load" /\ at > 2 /\ Accepted
    /\ CASE Resolution = "artifact" ->
              Enter(at, "request_tool", checkpoint, "act", ConsumedClaim)
         [] Resolution = "failure" ->
              Enter(at, "request_verifier", checkpoint, "insufficient_after_failure", "none")
         [] OTHER ->
              Enter(at, "request_verifier", checkpoint, "insufficient_state", "none")
    /\ UNCHANGED <<files, bounds>>

-----------------------------------------------------------------------------
(* The tool call *)

RequestTool ==
    /\ pc = "request_tool"
    /\ Log(Event("tool_request", Tool(at), NextStep, "none"))
    /\ pc' = "run_tool"
    /\ UNCHANGED <<checkpoint, memory, slice, bounds>>

\* What a sound tool makes of its input.  A hypothesis supports the regression
\* when the evidence does, a recommendation when the hypothesis does, and a
\* stub proposes the rollback when the recommendation asks for it.
SoundOutputs ==
    CASE at = 1 -> Payloads
      [] at = 2 -> {"target"}
      [] at = 3 -> Readings
      [] OTHER -> {input}

\* A faulty tool may report a failure, raise an exception (or return what does
\* not parse, which the harness treats alike), or return something plausible that
\* its verifier should reject.
WrongOutputs == IF at < 4 THEN {"unsound"} ELSE Claims \ {input}

MayFail == at \in FaultySlices /\ faults < MaxFaults

CountFault(sound) == faults' = faults + (IF sound THEN 0 ELSE 1)

ToolOutputs ==
    SoundOutputs \cup
    (IF ~MayFail THEN {}
     ELSE (FaultKinds \cap {"failed", "raised"})
          \cup (IF "wrong" \in FaultKinds THEN WrongOutputs ELSE {}))

NoOutput == {"none", "failed", "raised"}

ToolResult(result) ==
    [type |-> "tool_result", name |-> Tool(at), step |-> NextStep,
     status |-> IF result \in NoOutput THEN "failed" ELSE "succeeded",
     stamp |-> 0, output |-> result]

\* The harness turns an exception of the tool into a failed result.
RunTool ==
    /\ pc = "run_tool"
    /\ \E result \in ToolOutputs \ (IF at = 2 THEN {"raised"} ELSE {}) :
          /\ output' = result
          /\ Log(ToolResult(result))
          /\ CountFault(result \in SoundOutputs)
    /\ pc' = "request_verifier"
    /\ UNCHANGED <<checkpoint, memory, at, context, branch, input, verdict, starts, crashes>>

\* The follow-up slice calls its tool without the harness: an exception ends the
\* command with the request on disk, an unusable output after the result as well.
EscapeFollowUp ==
    /\ pc = "run_tool" /\ at = 2 /\ "raised" \in ToolOutputs
    /\ \/ UNCHANGED transcript
       \/ Log(ToolResult("raised"))
    /\ CountFault(FALSE)
    /\ Finish
    /\ UNCHANGED <<checkpoint, memory, starts, crashes>>

-----------------------------------------------------------------------------
(* The verifier *)

RequestVerifier ==
    /\ pc = "request_verifier"
    /\ Log(Event("verifier_request", Verifier(at), NextStep, "none"))
    /\ pc' = "record_verdict"
    /\ UNCHANGED <<checkpoint, memory, slice, bounds>>

\* Deferring is right unless the artifact is there after all.
DeferralVerdict ==
    IF /\ branch = "insufficient_state"
       /\ context.phase \in This.consumes
       /\ \E n \in CommitPoint(context, transcript) :
             VerifiedRecord(transcript, n, Slices[at - 1].artifact) = "artifact"
    THEN "fail" ELSE "pass"

\* Mutant: an output is taken at its word.
OutputVerdictTrusting == IF output = "unsound" THEN "fail" ELSE "pass"

\* The verifiers of the last three slices work out what the consumed artifact
\* implies and compare; the others look at the form only.
OutputVerdict ==
    IF output = "unsound" \/ (at > 3 /\ output # input) THEN "fail" ELSE "pass"

\* The verifiers answer "unverified" to a missing output; the follow-up's means to,
\* but builds its answer from a class it does not import, and raises.
VerdictOnAct ==
    CASE output \notin NoOutput -> OutputVerdict
      [] output \in NoOutput /\ at # 2 -> "unverified"
      [] OTHER -> "raised"

Verdict ==
    CASE branch = "no_op" -> "pass"
      [] branch \in {"insufficient_state", "insufficient_after_failure"} -> DeferralVerdict
      [] OTHER -> VerdictOnAct

\* A faulty verifier raises, or returns what is no verdict.
Verdicts ==
    {Verdict} \cup (IF MayFail THEN {"raised" : k \in {"unjudged"} \cap FaultKinds}
                    ELSE {})

\* The harness records an exception of the verifier as "unverified"; triage does
\* the same without the harness.
RecordVerdict ==
    /\ pc = "record_verdict"
    /\ \E v \in Verdicts \ (IF at = 2 THEN {"raised"} ELSE {}) :
          /\ verdict' = v
          /\ Log(Event("verifier_result", Verifier(at), NextStep,
                       IF v = "raised" THEN "unverified" ELSE v))
          /\ CountFault(v = Verdict)
    /\ pc' = "save_checkpoint"
    /\ UNCHANGED <<checkpoint, memory, at, context, branch, input, output, starts, crashes>>

\* The follow-up calls its verifier directly as well: an exception ends the command
\* after the request, with nothing said of the failed tool.
EscapeFollowUpVerifier ==
    /\ pc = "record_verdict" /\ at = 2 /\ "raised" \in Verdicts
    /\ CountFault(Verdict = "raised")
    /\ Finish
    /\ UNCHANGED <<files, starts, crashes>>

-----------------------------------------------------------------------------
(* The checkpoint *)

\* combine_artifact_failure; triage and follow-up do not use it.  A tool that
\* reported its failure itself hides an exception of the verifier.
ArtifactFailure ==
    /\ at > 2
    /\ \/ branch = "insufficient_after_failure"
       \/ output = "raised"
       \/ verdict = "raised" /\ output # "failed"

\* Mutant: an output that says something of the regression is not asked for its verdict.
OutcomeUnjudged ==
    CASE ArtifactFailure -> "failed_artifacts"
      [] ~ArtifactFailure /\ verdict \in {"unverified", "raised"} -> "unverified"
      [] ~ArtifactFailure /\ verdict = "fail" /\ output \notin Claims -> "failed_verification"
      [] OTHER -> IF branch = "act" THEN output
                  ELSE IF context.phase = "follow_up_complete_no_action"
                  THEN "not_applicable" ELSE "deferred"

Outcome ==
    CASE ArtifactFailure -> "failed_artifacts"
      [] ~ArtifactFailure /\ verdict \in {"unverified", "raised"} -> "unverified"
      [] ~ArtifactFailure /\ verdict = "fail" -> "failed_verification"
      [] OTHER -> IF branch = "act" THEN output
                  ELSE IF context.phase = "follow_up_complete_no_action"
                  THEN "not_applicable" ELSE "deferred"

\* Mutant: any stub waits for an approval.
ApprovalAfterAnyStub ==
    IF at = Last /\ ~ArtifactFailure /\ output \notin NoOutput THEN "pending" ELSE "none"

\* The gate of the stub's output decides, not the verdict on it.
ApprovalAfter ==
    IF at = Last /\ ~ArtifactFailure /\ output = "supported" THEN "pending" ELSE "none"

SliceCheckpoint ==
    [id |-> [name |-> This.id, stamp |-> 0], phase |-> This.phases[Outcome],
     step |-> NextStep, approval |-> ApprovalAfter]

SaveCheckpoint ==
    /\ pc = "save_checkpoint"
    /\ checkpoint' = SliceCheckpoint
    /\ pc' = "mark_checkpoint"
    /\ UNCHANGED <<transcript, memory, slice, bounds>>

\* Mutant: any output is remembered.
MemoryDueUnjudged == at \in {4, 5} /\ output \notin NoOutput

\* Only a verified hypothesis or recommendation is remembered.
MemoryDue == at \in {4, 5} /\ verdict = "pass" /\ output \notin NoOutput

MarkCheckpoint ==
    /\ pc = "mark_checkpoint"
    /\ Log(Marker(SliceCheckpoint, NextStep))
    /\ IF MemoryDue THEN pc' = "write_memory" /\ UNCHANGED slice ELSE Proceed
    /\ UNCHANGED <<checkpoint, memory, bounds>>

\* One file per incident, written in place.
WriteMemory ==
    /\ pc = "write_memory"
    /\ memory' = [source |-> This.id, phase |-> SliceCheckpoint.phase, claim |-> output]
    /\ Proceed
    /\ UNCHANGED <<checkpoint, transcript, bounds>>

-----------------------------------------------------------------------------
(* Failures *)

Crash ==
    /\ pc # "idle" /\ crashes < MaxCrashes
    /\ crashes' = crashes + 1
    /\ Finish
    /\ UNCHANGED <<files, faults, starts>>

Appending == {"request_tool", "run_tool", "request_verifier", "record_verdict",
              "mark_checkpoint"}

\* The process dies with part of a transcript line written.
CrashMidLine ==
    /\ pc \in Appending /\ crashes < MaxCrashes
    /\ crashes' = crashes + 1
    /\ Log(TornLine)
    /\ Finish
    /\ UNCHANGED <<checkpoint, memory, faults, starts>>

\* Unlike the checkpoint, the memory has no old version to fall back on.
CrashMidMemory ==
    /\ pc = "write_memory" /\ crashes < MaxCrashes
    /\ crashes' = crashes + 1
    /\ memory' = TornMemory
    /\ Finish
    /\ UNCHANGED <<checkpoint, transcript, faults, starts>>

-----------------------------------------------------------------------------
Run ==
    \/ Reject \/ BeginFollowUp \/ BeginSlice
    \/ RequestTool \/ RunTool \/ EscapeFollowUp
    \/ RequestVerifier \/ RecordVerdict \/ EscapeFollowUpVerifier
    \/ SaveCheckpoint \/ MarkCheckpoint \/ WriteMemory

Next == Start \/ Run \/ Crash \/ CrashMidLine \/ CrashMidMemory

Spec == Init /\ [][Next]_chainVars

\* A start that has begun keeps running: the slices are straight-line code whose
\* only waits are HTTP reads with a five-second timeout.
FairSpec == Spec /\ WF_chainVars(Run)

=============================================================================
