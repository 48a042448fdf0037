--------------------------- MODULE ChainProperties ---------------------------
(***************************************************************************)
(* What must hold of the chain from alert to proposal: of the record it    *)
(* leaves, of the working memory beside it, of a session id that is used   *)
(* twice, and of its progress.                                             *)
(***************************************************************************)
EXTENDS SliceChain

ChainLabels == {"idle", "load", "request_tool", "run_tool", "request_verifier",
                "record_verdict", "save_checkpoint", "mark_checkpoint", "write_memory"}

ChainBranches == {"none", "act", "no_op", "insufficient_state", "insufficient_after_failure"}

ToolOutputValues == NoOutput \cup Claims \cup {"gaps", "complete", "target", "unsound"}

ChainCheckpoints ==
    [id : [name : {"none"} \cup {Slices[k].id : k \in 1 .. Last}, stamp : {0}],
     phase : EarlyPhases \cup ACTION_STUB_PHASES \cup {"none"},
     step : 0 .. Last, approval : {"none", "pending"}]

\* The variables and the files keep their types: in particular every outcome of a
\* slice has a phase (_current_phase of the six slices), and step indices never
\* leave 1 .. 6.
ChainTypeOK ==
    /\ checkpoint \in ChainCheckpoints
    /\ context \in ChainCheckpoints
    /\ \A i \in 1 .. Len(transcript) :
          /\ transcript[i].type \in EventTypes
          /\ transcript[i].step \in 0 .. Last
          /\ transcript[i].type = "tool_result" => transcript[i].output \in ToolOutputValues
    /\ memory \in [source : {"none", "torn", Slices[4].id, Slices[5].id},
                   phase : HYPOTHESIS_PHASES \cup RECOMMENDATION_PHASES \cup {"none"},
                   claim : Claims \cup {"none"}]
    /\ pc \in ChainLabels /\ at \in 0 .. Last
    /\ branch \in ChainBranches
    /\ input \in {"none", "gaps", "complete", "unsound", "target"} \cup Claims
    /\ output \in ToolOutputValues
    /\ verdict \in {"none", "pass", "fail", "unverified", "raised"}
    /\ faults \in 0 .. MaxFaults /\ starts \in 0 .. MaxStarts /\ crashes \in 0 .. MaxCrashes

-----------------------------------------------------------------------------
(* The record *)

Positions == 1 .. Len(transcript)
End == Len(transcript)

IsRequest(i, k) == transcript[i].type = "tool_request" /\ transcript[i].name = Tool(k)

IsPass(i, k) ==
    /\ transcript[i].type = "verifier_result" /\ transcript[i].name = Verifier(k)
    /\ transcript[i].status = "pass"

Returns(i, k, claim) ==
    /\ transcript[i].type = "tool_result" /\ transcript[i].name = Tool(k)
    /\ transcript[i].output = claim

\* Where the run that wrote event n began: the latest triage request before it.
RunOf(n) == LatestOf({i \in 1 .. n : IsRequest(i, 1)})

\* Slice k returned "supported" and was passed after it, between the two events.
Established(k, begin, n) ==
    \E r \in begin .. n : /\ Returns(r, k, "supported")
                          /\ \E p \in r .. n : IsPass(p, k)

\* A rollback is offered for approval only on a complete record: after the triage
\* of the same run, the evidence read, the hypothesis, the recommendation and the
\* stub each returned "supported", each was passed by its own verifier before the
\* next one was produced, and the stub's verdict is committed
\* (start_deployment_regression_incident and the four slices from
\* IncidentEvidenceStep to IncidentActionStubStep).
CandidateIsJustified ==
    Loadable(checkpoint, transcript) /\ checkpoint.phase = "action_stub_pending_approval" =>
        \A n \in Committed : \E begin \in RunOf(n) :
            /\ Established(3, begin, n) /\ Established(Last, begin, n)
            /\ \A k \in 4 .. Last : \E r \in begin .. n :
                  Returns(r, k, "supported") /\ Established(k - 1, begin, r)

\* A trusted checkpoint in a phase from which the next slice takes an artifact has
\* that artifact, whole and verified, in its committed prefix: the slice never
\* meets the failure branch of _require_verified_record
\* (_require_verified_artifact's phase check, _current_phase of the slices).
CompatiblePhaseHasArtifact ==
    Loadable(checkpoint, transcript) =>
        \A k \in 3 .. Last, n \in Committed :
            checkpoint.phase \in Slices[k].consumes =>
                VerifiedRecord(transcript, n, Slices[k - 1].artifact) = "artifact"

\* A checkpoint the loader trusts is the one its marker describes, although the
\* ids are the same in every run of the session and a crash may leave an old
\* marker for a new file (_reconcile_transcript, _classify_tail).
TrustedCheckpointIsMarked ==
    Loadable(checkpoint, transcript) =>
        \A n \in Committed : /\ transcript[n].status = checkpoint.phase
                             /\ transcript[n].step = checkpoint.step

\* The incident's working memory never says more than the transcript: its claim is
\* a result some run has passed and committed under the checkpoint the memory
\* names (_write_incident_working_memory of the hypothesis and recommendation
\* slices, which runs after the marker and may be cut off by a crash).
MemoryIsBacked ==
    memory \notin {NoMemory, TornMemory} =>
        \E k \in {4, 5}, n \in Positions :
            /\ transcript[n].type = "checkpoint_written"
            /\ transcript[n].name = memory.source /\ memory.source = Slices[k].id
            /\ transcript[n].status = memory.phase
            /\ \E p \in 1 .. n :
                  /\ IsPass(p, k)
                  /\ \E r \in 1 .. p :
                        /\ Returns(r, k, memory.claim)
                        /\ \A i \in r .. n - 1 : transcript[i].type # "checkpoint_written"

\* In the run that ends at event n the stub's builder kept to its recommendation, as
\* the repository's does, and its verifier gave a verdict.
StubSound(n) ==
    \A begin \in RunOf(n) : \A i \in begin .. n :
        /\ transcript[i].type = "tool_result" /\ transcript[i].name = Tool(Last) =>
              \E r \in begin .. i : Returns(r, Last - 1, transcript[i].output)
        /\ transcript[i].type = "verifier_result" /\ transcript[i].name = Verifier(Last) =>
              transcript[i].status # "unverified"

\* Unless the stub's own tool or verifier misbehaves, a run that reaches the stub
\* leaves one of the states the approval boundary starts from, whatever the five
\* slices before it did, and waits for an approval exactly when it offers a rollback
\* (IncidentActionStubStep._current_phase and _approval_state, which look at
\* different things).
StubLeavesStartState ==
    Loadable(checkpoint, transcript) /\ checkpoint.step = Last =>
        \A n \in {m \in Committed : StubSound(m)} :
            /\ checkpoint.phase \in {"action_stub_pending_approval",
                                     "action_stub_not_actionable", "action_stub_deferred"}
            /\ checkpoint.approval = "pending"
                  <=> checkpoint.phase = "action_stub_pending_approval"

-----------------------------------------------------------------------------
(* The inductive invariant behind the record's promises *)

IsResult(i, k) == transcript[i].type = "tool_result" /\ transcript[i].name = Tool(k)

\* Event i is of the run that is still going on at the end of the transcript.
InThisRun(i) == \A q \in i + 1 .. End : ~IsRequest(q, 1)

\* What the slice after k may take from it.
ConsumableClaims(k) == IF k = 2 THEN {"target"} ELSE Claims
ClaimPhases(k) == {Slices[k].phases[c] : c \in ConsumableClaims(k)}

\* The four events of a slice that acts, one by one.
Asked(i, k) == i \in Positions /\ IsRequest(i, k) /\ transcript[i].step = k

Answered(i, k, result) ==
    /\ i \in Positions /\ Returns(i, k, result) /\ transcript[i].step = k
    /\ transcript[i].status = IF result \in NoOutput THEN "failed" ELSE "succeeded"

AskedVerifier(i, k) ==
    /\ i \in Positions /\ transcript[i].type = "verifier_request"
    /\ transcript[i].name = Verifier(k) /\ transcript[i].step = k

Judged(i, k, status) ==
    /\ i \in Positions /\ transcript[i].type = "verifier_result"
    /\ transcript[i].name = Verifier(k) /\ transcript[i].step = k
    /\ transcript[i].status = status

Marks(i, chk) ==
    /\ i \in Positions /\ transcript[i].type = "checkpoint_written"
    /\ transcript[i].name = chk.id.name /\ transcript[i].stamp = chk.id.stamp
    /\ transcript[i].step = chk.step /\ transcript[i].status = chk.phase

\* Marker n ends slice k, which returned the claim and was passed.
Produced(n, k, claim) ==
    /\ Asked(n - 4, k) /\ Answered(n - 3, k, claim) /\ AskedVerifier(n - 2, k)
    /\ Judged(n - 1, k, "pass")
    /\ transcript[n].type = "checkpoint_written"

\* From slice 4 on a "supported" came after that of the slice before had been passed.
Leads(k, begin, n) ==
    \A j \in 4 .. k : \E r \in begin .. n :
        Returns(r, j, "supported") /\ Established(j - 1, begin, r)

Grounded(k, n) == \E begin \in RunOf(n) : Leads(k, begin, n) /\ Established(k, begin, n)

\* A checkpoint is the empty one or one of a slice's.
Fits(chk) ==
    \/ chk = NoCheckpoint
    \/ \E k \in 1 .. Last, approval \in {"none", "pending"} :
          \E outcome \in DOMAIN Slices[k].phases :
             chk = [id |-> [name |-> Slices[k].id, stamp |-> 0],
                    phase |-> Slices[k].phases[outcome], step |-> k, approval |-> approval]

StubStarts ==
    /\ checkpoint.phase \in {"action_stub_pending_approval",
                             "action_stub_not_actionable", "action_stub_deferred"}
    /\ checkpoint.approval = "pending" <=> checkpoint.phase = "action_stub_pending_approval"

\* Marker n tells of the checkpoint on disk, whose claim is on record before it.
SpeaksFor(n) ==
    /\ Marks(n, checkpoint)
    /\ \A k \in 2 .. Last : checkpoint.phase \in ClaimPhases(k) =>
          \E claim \in ConsumableClaims(k) :
             /\ Produced(n, k, claim) /\ checkpoint.phase = Slices[k].phases[claim]
             /\ claim = "supported" => Grounded(k, n)
    /\ checkpoint.step = Last /\ StubSound(n) => StubStarts

\* The files: an unmarked checkpoint has an unsafe tail after the marker it is taken for.
FilesSound ==
    /\ Fits(checkpoint)
    /\ \A n \in Committed :
          SpeaksFor(n) \/ \E i \in n + 1 .. End : UnsafeEvent(transcript[i])
    /\ checkpoint.phase = "evidence_reading_completed" =>
          \E i \in LatestOf({j \in Positions : IsResult(j, 3)}) : transcript[i].output \in Claims
    /\ MemoryIsBacked

BeforeTool == pc \in {"load", "request_tool", "run_tool"}
Deciding == pc \in {"save_checkpoint", "mark_checkpoint", "write_memory"}
Waiting == pc = "idle" \/ (at = 1 /\ pc = "request_tool")

\* In one run of the chain each tool returns at most once, and what it returned is what
\* the running slice holds or has taken in.
ToolsReturnOnce ==
    ~Waiting =>
        /\ RunOf(End) # {}
        /\ \A i \in Positions, k \in 1 .. Last : IsResult(i, k) /\ InThisRun(i) =>
              /\ k < at \/ (k = at /\ ~BeforeTool /\ transcript[i].output = output)
              /\ k = at - 1 /\ branch = "act" /\ at > 3 => transcript[i].output = input
              /\ k = at - 1 /\ pc = "load" /\ checkpoint.phase \in This.consumes =>
                    transcript[i].output = transcript[End - 3].output

\* The slice about to load was reached through the marker of the one before it.
LoadFits ==
    pc = "load" => /\ at \in 2 .. Last /\ checkpoint.step = at - 1
                   /\ Marks(End, checkpoint)

OutputsOf(k) ==
    {"failed"} \cup (IF k = 2 THEN {} ELSE {"raised"})
    \cup (IF k < 4 THEN {"unsound"} ELSE {})
    \cup (CASE k = 1 -> {"gaps", "complete"} [] k = 2 -> {"target"} [] OTHER -> Claims)

ContextFits ==
    /\ at \in 1 .. Last /\ Fits(context)
    /\ context.step = at - 1
    /\ branch \in {"act", "no_op", "insufficient_state"}
    /\ branch = "no_op" => at = 2
    /\ branch = "insufficient_state" => at > 2 /\ context.phase \notin This.consumes
    /\ branch = "act" /\ at > 3 =>
          input \in Claims /\ context.phase = Slices[at - 1].phases[input]
    /\ IF pc \in {"mark_checkpoint", "write_memory"} THEN checkpoint = SliceCheckpoint
       ELSE at > 1 => checkpoint = context

OutputFits ==
    IF BeforeTool \/ branch # "act"
    THEN /\ output = "none"
         /\ BeforeTool => branch = "act"
         /\ BeforeTool /\ at > 3 /\ input = "supported" => Grounded(at - 1, End)
    ELSE /\ output \in OutputsOf(at)
         /\ at > 3 /\ output = "supported" /\ input = "supported" =>
               \E begin \in RunOf(End) : Leads(at, begin, End)

VerdictFits ==
    IF ~Deciding THEN verdict = "none"
    ELSE /\ verdict \in {"pass", "fail", "unverified", "raised"}
         /\ verdict = "pass" /\ branch = "act" =>
               output \notin NoOutput \cup {"unsound"} /\ (at > 3 => output = input)
         /\ verdict = "fail" =>
               branch = "act" /\ output \notin NoOutput
               /\ (output = "unsound" \/ (at > 3 /\ output # input))
         /\ verdict = "unverified" => branch = "act" /\ output \in NoOutput /\ at # 2
         /\ verdict = "raised" => at # 2

Status == IF verdict = "raised" THEN "unverified" ELSE verdict

\* What the running slice has logged so far ends the transcript.
EventsFit ==
    /\ pc = "run_tool" => Asked(End, at)
    /\ pc = "request_verifier" /\ branch = "act" =>
          Asked(End - 1, at) /\ Answered(End, at, output)
    /\ pc = "record_verdict" /\ branch = "act" =>
          Asked(End - 2, at) /\ Answered(End - 1, at, output)
    /\ pc = "record_verdict" => AskedVerifier(End, at)
    /\ pc \in {"save_checkpoint", "mark_checkpoint"} /\ branch = "act" =>
          /\ Asked(End - 3, at) /\ Answered(End - 2, at, output)
          /\ AskedVerifier(End - 1, at)
    /\ pc \in {"save_checkpoint", "mark_checkpoint"} => Judged(End, at, Status)
    /\ pc = "write_memory" =>
          /\ Asked(End - 4, at) /\ Answered(End - 3, at, output)
          /\ AskedVerifier(End - 2, at) /\ Judged(End - 1, at, Status)
          /\ Marks(End, SliceCheckpoint) /\ MemoryDue

\* The inductive invariant: the files speak for themselves or are refused, and the
\* running slice stands where its events say (SliceChain as a whole).
ChainConsistent ==
    /\ FilesSound
    /\ ToolsReturnOnce
    /\ LoadFits
    /\ pc \notin {"idle", "load"} => ContextFits /\ OutputFits /\ VerdictFits /\ EventsFit

-----------------------------------------------------------------------------
(* The promise *)

ClaimOnDisk ==
    CASE checkpoint.phase = "evidence_reading_completed" ->
           transcript[CHOOSE i \in LatestOf({j \in 1 .. Len(transcript) :
               transcript[j].type = "tool_result" /\ transcript[j].name = Tool(3)}) : TRUE].output
      [] checkpoint.phase \in {"hypothesis_supported", "recommendation_supported",
                               "action_stub_pending_approval"} -> "supported"
      [] checkpoint.phase \in {"hypothesis_insufficient_evidence",
                               "recommendation_conservative",
                               "action_stub_not_actionable"} -> "conservative"
      [] OTHER -> "none"

Pipeline == INSTANCE IncidentPipeline WITH stage <- checkpoint.step, claim <- ClaimOnDisk

\* The checkpoint file implements the pipeline: whatever fails, crashes or is left
\* over from an earlier run of the session, the claim an operator is finally asked
\* about is the one this run's evidence made, or none.
ImplementsPipeline == Pipeline!PipelineSpec

-----------------------------------------------------------------------------
(* Progress *)

\* A chain that gets past the follow-up reaches the action stub whatever its tools
\* do: every phase a slice can end in lets the next one begin (the *_STEP_ENTRY
\* sets of phases.py against _current_phase of the slices).
FollowUpReachesStub ==
    checkpoint.step = 2 ~> checkpoint.step = Last /\ checkpoint.phase \in ACTION_STUB_PHASES

-----------------------------------------------------------------------------
(* What the documents say *)

\* "Is it explicit which artifact was produced by which step, from which inputs,
\* and under which verifier result?" (docs/review/REVIEW_CHECKLIST.md): the verdict
\* a loaded session pairs with an output is the first one after that output.
VerdictJudgesItsOutput ==
    Loadable(checkpoint, transcript) =>
        \A k \in 1 .. Last, n \in Committed :
            VerifiedRecord(transcript, n, Slices[k].artifact) = "artifact" =>
                \A r \in MatchingResult(transcript, n, Slices[k].artifact),
                   v \in MatchingVerdict(transcript, n, Slices[k].artifact) :
                    \A i \in r .. v - 1 :
                        ~(transcript[i].type = "verifier_result"
                          /\ transcript[i].name = Verifier(k))

\* "Are failures caught by Verifiers modeled as explicit error events in the
\* Artifact?" (docs/review/REVIEW_CHECKLIST.md, A.4, checked): a follow-up that has
\* asked its verifier commits an outcome, whatever its tool reported.
FollowUpCommitsOutcome ==
    pc = "record_verdict" /\ at = 2 ~> checkpoint.step = 2 /\ checkpoint.phase \in FOLLOW_UP_PHASES

=============================================================================
