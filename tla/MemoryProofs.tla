----------------------------- MODULE MemoryProofs -----------------------------
(***************************************************************************)
(* What the files the sessions of an incident share may be trusted for, as *)
(* theorems: for any number of sessions and exporters, any verdicts and    *)
(* readings, and any number of attempts, exports and crashes.              *)
(*                                                                         *)
(* The argument is that transcripts only grow: what was verified before a  *)
(* marker stays verified before that marker, whatever is written later and *)
(* whoever replaces the memory.                                            *)
(***************************************************************************)
EXTENDS MemoryProperties, TLAPS

-----------------------------------------------------------------------------
(* Types *)

PhasesOrNone == EarlyPhases \cup Phases \cup {"none"}

Statuses ==
    PhasesOrNone \cup {"succeeded", "failed", "pass", "fail", "unverified", "approved", "denied"}

Artifacts ==
    {Evidence, Hypothesis, Recommendation, ActionStub, ActionExecution, OutcomeVerification}

EventNames ==
    {a.tool : a \in Artifacts} \cup {a.verifier : a \in Artifacts}
        \cup {"operator", "approval-resolution", "none"}

Events == [type : EventTypes, name : EventNames, step : Nat, status : Statuses, stamp : Nat]

Checkpoints == [id : [name : EventNames, stamp : Nat], phase : PhasesOrNone, step : Nat]

Views ==
    [session : Owners, context : Checkpoints,
     outputs : [hypothesis : Owners, recommendation : Owners, outcome : Owners]]

FilesTypeOK ==
    /\ checkpoint \in [Sessions -> Checkpoints]
    /\ transcript \in [Sessions -> Seq(Events)]
    /\ reading \in [Sessions -> Readings]
    /\ memory \in Memories
    /\ memory.source = "torn" => memory = TornMemory
    /\ handoff \in Handoffs

WorkTypeOK ==
    /\ pc \in [Sessions -> {"idle", "save", "mark", "read_memory", "write_memory"}]
    /\ verdict \in [Sessions -> {"none", "pass", "fail", "unverified", "approved", "denied"}]
    /\ prior \in [Sessions -> Memories]

ExportTypeOK ==
    /\ at \in [Exporters -> {"idle", "load", "assemble", "write"}]
    /\ view \in [Exporters -> Views]
    /\ draft \in [Exporters -> Handoffs]
    /\ \A x \in Exporters : at[x] # "idle" => view[x].session \in Sessions

\* Where a slice is tells of the phase of the checkpoint it works on.
PhaseAtWork ==
    \A s \in Sessions :
        /\ pc[s] = "save" =>
              IF verdict[s] \in {"approved", "denied"}
              THEN checkpoint[s].phase = "action_stub_pending_approval"
              ELSE /\ verdict[s] \in {"pass", "fail", "unverified"}
                   /\ Continues(checkpoint[s].phase)
        /\ pc[s] = "read_memory" => checkpoint[s].phase = "outcome_verification_succeeded"
        /\ pc[s] = "write_memory" => checkpoint[s].phase \in RememberedPhases

MemoryTypeInv == FilesTypeOK /\ WorkTypeOK /\ ExportTypeOK /\ PhaseAtWork

-----------------------------------------------------------------------------
(* What stands behind the memory and the handoff *)

\* The phases that only a verified hypothesis, or recommendation, leads to.
AfterHypothesis ==
    HYPOTHESIS_COMPATIBLE_PHASES \cup RECOMMENDATION_COMPATIBLE_PHASES \cup Phases
AfterRecommendation == RECOMMENDATION_COMPATIBLE_PHASES \cup Phases

PassedIn(log, a) ==
    \E j \in 1 .. Len(log) :
        log[j].type = "verifier_result" /\ log[j].name = a.verifier /\ log[j].status = "pass"

\* The last event is the marker of the phase.
EndsCommitted(log, phase) ==
    /\ Len(log) > 0
    /\ log[Len(log)].type = "checkpoint_written" /\ log[Len(log)].status = phase

Backed(s) ==
    /\ checkpoint[s].phase \in AfterHypothesis => PassedIn(transcript[s], Hypothesis)
    /\ checkpoint[s].phase \in AfterRecommendation => PassedIn(transcript[s], Recommendation)
    /\ pc[s] = "save" /\ verdict[s] = "pass" => PassedIn(transcript[s], Present(s))
    /\ pc[s] \in {"read_memory", "write_memory"} =>
          EndsCommitted(transcript[s], checkpoint[s].phase)

SessionBacked == \A s \in Sessions : Backed(s)

Justified(gap) ==
    \E s \in Sessions :
        /\ reading[s] = (IF gap = "causal" THEN "conservative" ELSE "supported")
        /\ HasVerified(s, Hypothesis)

\* Every gap that is or may come to be shown is some session's.
GapsJustified ==
    /\ \A gap \in memory.gaps \cup handoff.gaps : Justified(gap)
    /\ \A s \in Sessions : \A gap \in prior[s].gaps : Justified(gap)
    /\ \A x \in Exporters :
          /\ \A gap \in draft[x].gaps : Justified(gap)
          /\ at[x] = "assemble" /\ view[x].outputs.hypothesis # "none" =>
                HasVerified(view[x].session, Hypothesis)

\* What an export of a recovery has in hand leaves no validation open.
RecoveryInHand ==
    \A x \in Exporters :
        /\ at[x] = "assemble" /\ view[x].context.phase = "outcome_verification_succeeded" =>
              view[x].outputs.outcome # "none"
        /\ draft[x].phase = "outcome_verification_succeeded" => "validation" \notin draft[x].gaps

MemoryInv ==
    /\ MemoryTypeInv /\ SessionBacked
    /\ MemorySpeaksForOneSession /\ GapsJustified
    /\ ResolvedGapStaysResolved /\ RecoveryInHand

-----------------------------------------------------------------------------
(* Transcripts grow *)

\* Appending one event leaves the earlier ones where they are.
LEMMA AppendEvent ==
    ASSUME NEW log \in Seq(Events), NEW e \in Events
    PROVE  /\ Append(log, e) \in Seq(Events)
           /\ Len(log) \in Nat
           /\ Len(Append(log, e)) = Len(log) + 1
           /\ \A i \in 1 .. Len(log) : Append(log, e)[i] = log[i]
           /\ Append(log, e)[Len(log) + 1] = e
  OBVIOUS

Extends(later, log) ==
    Len(log) <= Len(later) /\ \A i \in 1 .. Len(log) : later[i] = log[i]

\* Appending a result and its verdict.
LEMMA AppendTwo ==
    ASSUME NEW log \in Seq(Events), NEW e \in Events, NEW f \in Events
    PROVE  /\ log \o <<e, f>> \in Seq(Events)
           /\ Extends(log \o <<e, f>>, log)
           /\ Len(log \o <<e, f>>) = Len(log) + 2
           /\ (log \o <<e, f>>)[Len(log) + 2] = f
  BY DEF Extends

\* What a slice and an operator append are events.
LEMMA SliceEvents ==
    ASSUME NEW a \in Artifacts,
           NEW step \in Nat, NEW v \in {"pass", "fail", "unverified"},
           NEW d \in {"approved", "denied"}
    PROVE  /\ Event("tool_result", a.tool, step,
                    IF v = "unverified" THEN "failed" ELSE "succeeded") \in Events
           /\ Event("verifier_result", a.verifier, step, v) \in Events
           /\ Event("approval_resolved", "operator", step, d) \in Events
<1>1. a.tool \in EventNames /\ a.verifier \in EventNames
  BY DEF EventNames
<1>2. \A type \in EventTypes, name \in EventNames, status \in Statuses :
          Event(type, name, step, status) \in Events
  BY DEF Event, Events
<1>3. /\ {"tool_result", "verifier_result", "approval_resolved"} \subseteq EventTypes
      /\ {"succeeded", "failed", "pass", "fail", "unverified", "approved", "denied"}
             \subseteq Statuses
  BY DEF EventTypes, Statuses
<1>4. "operator" \in EventNames
  BY DEF EventNames
<1> QED BY <1>1, <1>2, <1>3, <1>4

\* The marker of a checkpoint is an event.
LEMMA MarkerEvent ==
    ASSUME NEW chk \in Checkpoints
    PROVE  Marker(chk, chk.step) \in Events
  BY DEF Marker, Events, EventTypes, Checkpoints, Statuses

\* A session that goes on writes the artifact its phase asks for.
LEMMA PresentArtifact ==
    ASSUME NEW s, Continues(checkpoint[s].phase)
    PROVE  Present(s) \in Artifacts
  BY DEF Artifacts, Present, NextArtifact, Continues, HYPOTHESIS_COMPATIBLE_PHASES,
     RECOMMENDATION_COMPATIBLE_PHASES, OUTCOME_VERIFICATION_STEP_ENTRY_PHASES,
     ACTION_EXECUTION_PHASES, OUTCOME_VERIFICATION_PHASES

-----------------------------------------------------------------------------
(* The type part of the invariant *)

\* Constants of the model are in the types.
LEMMA ConstantTypes ==
    /\ NoCheckpoint \in Checkpoints
    /\ NoMemory \in Memories /\ TornMemory \in Memories
    /\ NoHandoff \in Handoffs /\ TornHandoff \in Handoffs
    /\ NoView \in Views
<1>1. NoCheckpoint \in Checkpoints
  BY DEF NoCheckpoint, Checkpoints, EventNames, PhasesOrNone
<1>2. NoMemory \in Memories /\ TornMemory \in Memories
  BY DEF NoMemory, TornMemory, Memories, Owners
<1>3. NoHandoff \in Handoffs /\ TornHandoff \in Handoffs
  BY DEF NoHandoff, TornHandoff, Handoffs, Owners
<1>4. NoView \in Views
  BY <1>1 DEF NoView, Views, NoOutputs, Owners
<1> QED BY <1>1, <1>2, <1>3, <1>4

\* What is remembered and what is shown of gaps are gaps.
LEMMA GapTypes ==
    ASSUME NEW r \in Readings PROVE GapsOf(r) \in SUBSET GapNames
  BY MemoryReadingsAssumption DEF GapsOf, GapNames

\* The memory a slice writes is a memory, and of a phase worth remembering.
LEMMA WrittenMemoryType ==
    ASSUME MemoryTypeInv, NEW s \in Sessions, pc[s] = "write_memory"
    PROVE  MemoryOf(s) \in Memories
<1>1. checkpoint[s].phase \in RememberedPhases
  BY DEF MemoryTypeInv, PhaseAtWork
<1>2. reading[s] \in Readings /\ prior[s] \in Memories
  BY DEF MemoryTypeInv, FilesTypeOK, WorkTypeOK
<1>3. prior[s].gaps \in SUBSET GapNames /\ GapsOf(reading[s]) \in SUBSET GapNames
  BY <1>2, GapTypes DEF Memories
<1>4. ResolvedGaps(s) \in SUBSET GapNames
  BY <1>3 DEF ResolvedGaps
<1> QED BY <1>1, <1>3, <1>4 DEF MemoryOf, Memories, RememberedPhases, Owners

\* The handoff an export assembles is a handoff.
LEMMA AssembledType ==
    ASSUME MemoryTypeInv, NEW x \in Exporters, at[x] = "assemble", memory # TornMemory
    PROVE  Assembled(x) \in Handoffs
<1>1. view[x] \in Views /\ view[x].session \in Sessions /\ memory \in Memories
  BY DEF MemoryTypeInv, FilesTypeOK, ExportTypeOK
<1>2. reading[view[x].session] \in Readings
  BY <1>1 DEF MemoryTypeInv, FilesTypeOK
<1>3. ShownGaps(x) \in SUBSET GapNames
  <2>1. GapsOf(reading[view[x].session]) \in SUBSET GapNames /\ memory.gaps \in SUBSET GapNames
    BY <1>1, <1>2, GapTypes DEF Memories
  <2> QED BY <2>1 DEF ShownGaps
<1>4. /\ view[x].context.phase \in PhasesOrNone
      /\ view[x].outputs.hypothesis \in Owners
      /\ view[x].outputs.recommendation \in Owners
      /\ view[x].outputs.outcome \in Owners
  BY <1>1 DEF Views, Checkpoints
<1>5. memory.hypothesis \in Owners /\ memory.recommendation \in Owners
  BY <1>1 DEF Memories
<1>6. ApprovalAt(view[x].context.phase) \in {"none", "pending", "approved", "denied"}
  BY DEF ApprovalAt
<1>7. memory.source \in Owners
  BY <1>1 DEF MemoryTypeInv, FilesTypeOK, Memories
<1> QED BY <1>1, <1>3, <1>4, <1>5, <1>6, <1>7 DEF Assembled, Handoffs, Prefer, Owners, PhasesOrNone

\* No two artifacts are of one slice.
LEMMA SliceOfArtifact ==
    /\ SliceOf(Evidence) = "evidence" /\ SliceOf(Hypothesis) = "hypothesis"
    /\ SliceOf(Recommendation) = "recommendation" /\ SliceOf(ActionStub) = "stub"
    /\ SliceOf(ActionExecution) = "execution"
    /\ SliceOf(OutcomeVerification) = "outcome"
  BY DEF SliceOf, Evidence, Hypothesis, Recommendation, ActionStub, ActionExecution,
     OutcomeVerification, Artifact

\* Where a verdict leaves a session: only a pass leads to a phase that is compatible
\* with the artifact (the _current_phase of the steps).
LEMMA PhaseAfterArtifact ==
    ASSUME NEW a \in Artifacts, NEW v \in {"pass", "fail", "unverified"}, NEW r
    PROVE  /\ a = Evidence => PhaseAfter(a, v, r) \in EVIDENCE_READING_PHASES
           /\ a = Hypothesis => PhaseAfter(a, v, r) \in HYPOTHESIS_PHASES
           /\ a = Hypothesis /\ v # "pass" =>
                PhaseAfter(a, v, r) \notin HYPOTHESIS_COMPATIBLE_PHASES
           /\ a = Recommendation => PhaseAfter(a, v, r) \in RECOMMENDATION_PHASES
           /\ a = Recommendation /\ v # "pass" =>
                PhaseAfter(a, v, r) \notin RECOMMENDATION_COMPATIBLE_PHASES
           /\ a \in {ActionStub, ActionExecution, OutcomeVerification} =>
                PhaseAfter(a, v, r) \in Phases
<1> DEFINE supported == r = "supported" /\ v = "pass"
<1>1. CASE a = Evidence
  <2>1. a # Hypothesis /\ a # Recommendation /\ a # ActionStub
        /\ a # ActionExecution /\ a # OutcomeVerification
    BY <1>1 DEF Evidence, Hypothesis, Recommendation, ActionStub, ActionExecution,
       OutcomeVerification, Artifact
  <2>2. PhaseAfter(a, v, r) = PhaseNames["evidence"][v]
    BY <1>1, <2>1, SliceOfArtifact DEF PhaseAfter
  <2> QED BY <1>1, <2>1, <2>2 DEF PhaseNames, EVIDENCE_READING_PHASES
<1>2. CASE a = Hypothesis
  <2>1. a # Evidence /\ a # Recommendation /\ a # ActionStub
        /\ a # ActionExecution /\ a # OutcomeVerification
    BY <1>2 DEF Evidence, Hypothesis, Recommendation, ActionStub, ActionExecution,
       OutcomeVerification, Artifact
  <2>2. PhaseAfter(a, v, r) = IF supported THEN "hypothesis_supported"
                              ELSE PhaseNames["hypothesis"][v]
    BY <1>2, <2>1, SliceOfArtifact DEF PhaseAfter
  <2> QED BY <1>2, <2>1, <2>2 DEF PhaseNames, HYPOTHESIS_PHASES, HYPOTHESIS_COMPATIBLE_PHASES
<1>3. CASE a = Recommendation
  <2>1. a # Evidence /\ a # Hypothesis /\ a # ActionStub
        /\ a # ActionExecution /\ a # OutcomeVerification
    BY <1>3 DEF Evidence, Hypothesis, Recommendation, ActionStub, ActionExecution,
       OutcomeVerification, Artifact
  <2>2. PhaseAfter(a, v, r) = IF supported THEN "recommendation_supported"
                              ELSE PhaseNames["recommendation"][v]
    BY <1>3, <2>1, SliceOfArtifact DEF PhaseAfter
  <2> QED BY <1>3, <2>1, <2>2
      DEF PhaseNames, RECOMMENDATION_PHASES, RECOMMENDATION_COMPATIBLE_PHASES
<1>4. CASE a \in {ActionStub, ActionExecution, OutcomeVerification}
  <2>1. a # Evidence /\ a # Hypothesis /\ a # Recommendation
    BY <1>4 DEF Evidence, Hypothesis, Recommendation, ActionStub, ActionExecution,
       OutcomeVerification, Artifact
  <2>2. \/ PhaseAfter(a, v, r) = "action_stub_pending_approval"
        \/ PhaseAfter(a, v, r) \in {PhaseNames["stub"][v], PhaseNames["execution"][v],
                                    PhaseNames["outcome"][v]}
    BY <1>4, <2>1, SliceOfArtifact DEF PhaseAfter
  <2> QED BY <1>4, <2>1, <2>2 DEF PhaseNames, Phases, ACTION_STUB_PHASES,
          ACTION_EXECUTION_PHASES, OUTCOME_VERIFICATION_PHASES
<1> QED BY <1>1, <1>2, <1>3, <1>4 DEF Artifacts

\* What a slice commits is a checkpoint.
LEMMA CommittingType ==
    ASSUME MemoryTypeInv, NEW s \in Sessions, pc[s] = "save"
    PROVE  Committing(s) \in Checkpoints
<1>1. checkpoint[s] \in Checkpoints
  BY DEF MemoryTypeInv, FilesTypeOK
<1>2. ASSUME NEW name \in EventNames, NEW phase \in PhasesOrNone
      PROVE  CheckpointOf(s, name, phase) \in Checkpoints
  BY <1>1 DEF CheckpointOf, Checkpoints
<1>3. CASE verdict[s] \in {"approved", "denied"}
  <2>1. "approval-resolution" \in EventNames
    BY DEF EventNames
  <2>2. "action_stub_approved" \in PhasesOrNone /\ "action_stub_denied" \in PhasesOrNone
    BY DEF PhasesOrNone, Phases, ACTION_STUB_PHASES
  <2> QED BY <1>2, <1>3, <2>1, <2>2 DEF Committing
<1>4. CASE verdict[s] \notin {"approved", "denied"}
  <2>1. verdict[s] \in {"pass", "fail", "unverified"} /\ Present(s) \in Artifacts
    BY <1>4, PresentArtifact DEF MemoryTypeInv, PhaseAtWork
  <2>2. ASSUME NEW a \in Artifacts, NEW v \in {"pass", "fail", "unverified"}, NEW r
        PROVE  PhaseAfter(a, v, r) \in PhasesOrNone
    <3>1. \/ PhaseAfter(a, v, r) \in EVIDENCE_READING_PHASES
          \/ PhaseAfter(a, v, r) \in HYPOTHESIS_PHASES
          \/ PhaseAfter(a, v, r) \in RECOMMENDATION_PHASES
          \/ PhaseAfter(a, v, r) \in Phases
      <4>1. CASE a = Evidence
        BY <4>1, PhaseAfterArtifact
      <4>2. CASE a = Hypothesis
        BY <4>2, PhaseAfterArtifact
      <4>3. CASE a = Recommendation
        BY <4>3, PhaseAfterArtifact
      <4>4. CASE a \in {ActionStub, ActionExecution, OutcomeVerification}
        BY <4>4, PhaseAfterArtifact
      <4> QED BY <4>1, <4>2, <4>3, <4>4 DEF Artifacts
    <3> QED BY <3>1 DEF PhasesOrNone, EarlyPhases
  <2>3. PhaseAfter(Present(s), verdict[s], reading[s]) \in PhasesOrNone
    BY <2>1, <2>2
  <2>4. Present(s).verifier \in EventNames
    BY <2>1 DEF EventNames
  <2> QED BY <1>2, <1>4, <2>1, <2>3, <2>4 DEF Committing
<1> QED BY <1>3, <1>4

\* The initial states are in the types, and nothing is claimed of them yet.
LEMMA InitMemoryInv == Init => MemoryInv
<1> SUFFICES ASSUME Init PROVE MemoryInv
  OBVIOUS
<1>1. MemoryTypeInv
  BY ConstantTypes DEF Init, MemoryTypeInv, FilesTypeOK, WorkTypeOK, ExportTypeOK, PhaseAtWork,
     NoMemory
<1>2. SessionBacked
  <2>1. "none" \notin AfterHypothesis /\ "none" \notin AfterRecommendation
    BY DEF AfterHypothesis, AfterRecommendation, HYPOTHESIS_COMPATIBLE_PHASES,
       RECOMMENDATION_COMPATIBLE_PHASES, Phases, ACTION_STUB_PHASES, ACTION_EXECUTION_PHASES,
       OUTCOME_VERIFICATION_PHASES
  <2> QED BY <2>1 DEF Init, SessionBacked, Backed, NoCheckpoint
<1>3. MemorySpeaksForOneSession
  BY MemoryNamesAssumption DEF Init, MemorySpeaksForOneSession, NoMemory
<1>4. GapsJustified
  BY DEF Init, GapsJustified, NoMemory, NoHandoff
<1>5. ResolvedGapStaysResolved /\ RecoveryInHand
  BY DEF Init, ResolvedGapStaysResolved, RecoveryInHand, NoMemory, NoHandoff
<1> QED BY <1>1, <1>2, <1>3, <1>4, <1>5 DEF MemoryInv

\* A slice that ends leaves its process in the types.
LEMMA FinishType ==
    ASSUME WorkTypeOK, NEW s \in Sessions, Finish(s) PROVE WorkTypeOK'
  BY ConstantTypes DEF WorkTypeOK, Finish, Goto

\* Every step keeps the types, whoever takes it.
LEMMA NextMemoryType == MemoryTypeInv /\ [Next]_memoryVars => MemoryTypeInv'
<1> SUFFICES ASSUME MemoryTypeInv, [Next]_memoryVars PROVE MemoryTypeInv'
  OBVIOUS
<1> USE DEF MemoryTypeInv, FilesTypeOK, WorkTypeOK, ExportTypeOK,
        files, work, export
<1>1. ASSUME NEW s \in Sessions, RunSlice(s) PROVE MemoryTypeInv'
  <2>1. PICK v \in Verdicts :
            /\ verdict' = [verdict EXCEPT ![s] = v]
            /\ transcript' = [transcript EXCEPT ![s] = @ \o
                  <<Event("tool_result", Present(s).tool, checkpoint[s].step + 1,
                          IF v = "unverified" THEN "failed" ELSE "succeeded"),
                    Event("verifier_result", Present(s).verifier, checkpoint[s].step + 1, v)>>]
    BY <1>1 DEF RunSlice
  <2>2. v \in {"pass", "fail", "unverified"}
    BY MemoryVerdictsAssumption
  <2>3. transcript' \in [Sessions -> Seq(Events)]
    <3>1. Present(s) \in Artifacts
      BY <1>1, PresentArtifact DEF RunSlice
    <3>2. checkpoint[s].step + 1 \in Nat
      BY DEF Checkpoints
    <3> QED BY <2>1, <2>2, <3>1, <3>2, SliceEvents, AppendTwo
  <2>4. PhaseAtWork'
    BY <1>1, <2>1, <2>2 DEF RunSlice, Goto, PhaseAtWork
  <2> QED BY <1>1, <2>1, <2>2, <2>3, <2>4 DEF RunSlice, Goto
<1>2. ASSUME NEW s \in Sessions, ResolveApproval(s) PROVE MemoryTypeInv'
  <2>1. PICK d \in {"approved", "denied"} :
            /\ verdict' = [verdict EXCEPT ![s] = d]
            /\ transcript' = [transcript EXCEPT ![s] = Append(@,
                  Event("approval_resolved", "operator", checkpoint[s].step + 1, d))]
    BY <1>2 DEF ResolveApproval
  <2>2. transcript' \in [Sessions -> Seq(Events)]
    <3>1. checkpoint[s].step + 1 \in Nat
      BY DEF Checkpoints
    <3>2. Event("approval_resolved", "operator", checkpoint[s].step + 1, d) \in Events
      BY <3>1 DEF Event, Events, EventTypes, EventNames, Statuses
    <3> QED BY <2>1, <3>2, AppendEvent
  <2>3. PhaseAtWork'
    BY <1>2, <2>1 DEF ResolveApproval, Goto, PhaseAtWork
  <2> QED BY <1>2, <2>1, <2>2, <2>3 DEF ResolveApproval, Goto
<1>3. ASSUME NEW s \in Sessions, SaveCheckpoint(s) PROVE MemoryTypeInv'
  <2>1. Committing(s) \in Checkpoints
    BY <1>3, CommittingType DEF SaveCheckpoint
  <2>2. PhaseAtWork'
    BY <1>3 DEF SaveCheckpoint, Goto, PhaseAtWork
  <2> QED BY <1>3, <2>1, <2>2 DEF SaveCheckpoint, Goto
<1>4. ASSUME NEW s \in Sessions, MarkCheckpoint(s) PROVE MemoryTypeInv'
  <2>1. transcript' \in [Sessions -> Seq(Events)]
    BY <1>4, MarkerEvent, AppendEvent DEF MarkCheckpoint
  <2>2. pc' \in [Sessions -> {"idle", "save", "mark", "read_memory", "write_memory"}]
        /\ verdict' \in [Sessions -> {"none", "pass", "fail", "unverified", "approved", "denied"}]
        /\ prior' \in [Sessions -> Memories]
    <3>1. CASE checkpoint[s].phase \in RememberedPhases
      BY <1>4, <3>1 DEF MarkCheckpoint, Goto
    <3>2. CASE checkpoint[s].phase \notin RememberedPhases
      BY <1>4, <3>2, FinishType DEF MarkCheckpoint
    <3> QED BY <3>1, <3>2
  <2>3. PhaseAtWork'
    BY <1>4 DEF MarkCheckpoint, Goto, Finish, PhaseAtWork
  <2> QED BY <1>4, <2>1, <2>2, <2>3 DEF MarkCheckpoint
<1>5. ASSUME NEW s \in Sessions, ReadMemory(s) PROVE MemoryTypeInv'
  <2>1. PhaseAtWork'
    BY <1>5 DEF ReadMemory, Goto, Finish, PhaseAtWork, RememberedPhases
  <2>2. WorkTypeOK'
    <3>1. CASE memory = TornMemory
      BY <1>5, <3>1, FinishType DEF ReadMemory
    <3>2. CASE memory # TornMemory
      BY <1>5, <3>2 DEF ReadMemory, Goto
    <3> QED BY <3>1, <3>2
  <2> QED BY <1>5, <2>1, <2>2 DEF ReadMemory
<1>6. ASSUME NEW s \in Sessions, WriteMemory(s) PROVE MemoryTypeInv'
  <2>1. memory' \in Memories /\ memory'.source # "torn"
    BY <1>6, WrittenMemoryType, MemoryNamesAssumption DEF WriteMemory, MemoryOf
  <2>2. PhaseAtWork'
    BY <1>6 DEF WriteMemory, Goto, Finish, PhaseAtWork
  <2> QED BY <1>6, <2>1, <2>2, ConstantTypes DEF WriteMemory, Goto, Finish
<1>7. ASSUME NEW s \in Sessions, CrashSession(s) PROVE MemoryTypeInv'
  <2>1. PhaseAtWork'
    BY <1>7 DEF CrashSession, Goto, Finish, PhaseAtWork
  <2> QED BY <1>7, <2>1, ConstantTypes DEF CrashSession, Goto, Finish
<1>8. ASSUME NEW s \in Sessions, CrashMidMemory(s) PROVE MemoryTypeInv'
  <2>1. PhaseAtWork'
    BY <1>8 DEF CrashMidMemory, Goto, Finish, PhaseAtWork
  <2> QED BY <1>8, <2>1, ConstantTypes DEF CrashMidMemory, Goto, Finish
<1>9. ASSUME NEW x \in Exporters, NEW s \in Sessions, BeginExport(x, s) PROVE MemoryTypeInv'
  <2>1. view' \in [Exporters -> Views] /\ view'[x].session = s
    BY <1>9 DEF BeginExport, Views, NoOutputs, Owners
  <2>2. PhaseAtWork'
    BY <1>9 DEF BeginExport, PhaseAtWork
  <2> QED BY <1>9, <2>1, <2>2 DEF BeginExport
<1>10. ASSUME NEW x \in Exporters, LoadForExport(x) PROVE MemoryTypeInv'
  <2>1. ExportTypeOK'
    <3> DEFINE log == transcript[view[x].session]
               own(a) == IF Verified(view[x].context, log, a) THEN view[x].session ELSE "none"
    <3>1. CASE Exportable(view[x].context, log)
      <4>1. view[x] \in Views /\ view[x].session \in Sessions
        BY <1>10 DEF LoadForExport
      <4>2. /\ view' = [view EXCEPT ![x].outputs =
                          [hypothesis |-> own(Hypothesis), recommendation |-> own(Recommendation),
                           outcome |-> own(OutcomeVerification)]]
            /\ at' = [at EXCEPT ![x] = "assemble"] /\ UNCHANGED draft
        BY <1>10, <3>1 DEF LoadForExport
      <4>3. \A a : own(a) \in Owners
        BY <4>1 DEF Owners
      <4> HIDE DEF own
      <4> QED BY <4>1, <4>2, <4>3 DEF Views
    <3>2. CASE ~Exportable(view[x].context, log)
      BY <1>10, <3>2, ConstantTypes DEF LoadForExport, EndExport
    <3> QED BY <3>1, <3>2
  <2>2. PhaseAtWork'
    BY <1>10 DEF LoadForExport, PhaseAtWork
  <2> QED BY <1>10, <2>1, <2>2 DEF LoadForExport
<1>11. ASSUME NEW x \in Exporters, Assemble(x) PROVE MemoryTypeInv'
  <2>1. ExportTypeOK'
    BY <1>11, ConstantTypes, AssembledType DEF Assemble, EndExport
  <2>2. PhaseAtWork'
    BY <1>11 DEF Assemble, PhaseAtWork
  <2> QED BY <1>11, <2>1, <2>2 DEF Assemble
<1>12. ASSUME NEW x \in Exporters, WriteHandoff(x) PROVE MemoryTypeInv'
  <2>1. PhaseAtWork'
    BY <1>12 DEF WriteHandoff, PhaseAtWork
  <2> QED BY <1>12, <2>1, ConstantTypes DEF WriteHandoff, EndExport
<1>13. ASSUME NEW x \in Exporters, CrashMidHandoff(x) PROVE MemoryTypeInv'
  <2>1. PhaseAtWork'
    BY <1>13 DEF CrashMidHandoff, PhaseAtWork
  <2> QED BY <1>13, <2>1, ConstantTypes DEF CrashMidHandoff, EndExport
<1>14. CASE UNCHANGED memoryVars
  BY <1>14 DEF memoryVars, PhaseAtWork
<1> QED BY <1>1, <1>2, <1>3, <1>4, <1>5, <1>6, <1>7, <1>8, <1>9, <1>10, <1>11, <1>12, <1>13,
           <1>14 DEF Next, Session, Export

-----------------------------------------------------------------------------
(* What a transcript says stays said *)

\* No step takes back an event.
LEMMA TranscriptsGrow ==
    ASSUME MemoryTypeInv, [Next]_memoryVars
    PROVE  \A s \in Sessions : Extends(transcript'[s], transcript[s])
<1> USE DEF MemoryTypeInv, FilesTypeOK
<1>1. CASE UNCHANGED transcript
  BY <1>1 DEF Extends
<1>2. ASSUME NEW s \in Sessions, RunSlice(s)
      PROVE  \A r \in Sessions : Extends(transcript'[r], transcript[r])
  <2>1. PICK v \in Verdicts :
            transcript' = [transcript EXCEPT ![s] = @ \o
                <<Event("tool_result", Present(s).tool, checkpoint[s].step + 1,
                        IF v = "unverified" THEN "failed" ELSE "succeeded"),
                  Event("verifier_result", Present(s).verifier, checkpoint[s].step + 1, v)>>]
    BY <1>2 DEF RunSlice
  <2>2. v \in {"pass", "fail", "unverified"} /\ Present(s) \in Artifacts
        /\ checkpoint[s].step + 1 \in Nat
    BY <1>2, MemoryVerdictsAssumption, PresentArtifact DEF RunSlice, Checkpoints
  <2> QED BY <2>1, <2>2, SliceEvents, AppendTwo DEF Extends
<1>3. ASSUME NEW s \in Sessions, NEW e, transcript' = [transcript EXCEPT ![s] = Append(@, e)]
      PROVE  \A r \in Sessions : Extends(transcript'[r], transcript[r])
  BY <1>3 DEF Extends
<1>4. ASSUME NEW s \in Sessions, ResolveApproval(s)
      PROVE  \A r \in Sessions : Extends(transcript'[r], transcript[r])
  BY <1>3, <1>4 DEF ResolveApproval
<1>5. ASSUME NEW s \in Sessions, MarkCheckpoint(s)
      PROVE  \A r \in Sessions : Extends(transcript'[r], transcript[r])
  BY <1>3, <1>5 DEF MarkCheckpoint
<1> QED BY <1>1, <1>2, <1>4, <1>5
    DEF Next, Session, Export, memoryVars, files, SaveCheckpoint, ReadMemory, WriteMemory,
        CrashSession, CrashMidMemory, BeginExport, LoadForExport, Assemble, WriteHandoff,
        CrashMidHandoff

\* What a session has committed and verified it has committed and verified for good.
LEMMA HistoryKept ==
    ASSUME MemoryTypeInv, [Next]_memoryVars, NEW s \in Sessions
    PROVE  /\ \A phase : HasCommitted(s, phase) => HasCommitted(s, phase)'
           /\ \A a : HasVerified(s, a) => HasVerified(s, a)'
           /\ \A a : PassedIn(transcript[s], a) => PassedIn(transcript'[s], a)
<1>1. Extends(transcript'[s], transcript[s])
  BY TranscriptsGrow
<1>2. Len(transcript[s]) \in Nat /\ Len(transcript'[s]) \in Nat
  BY NextMemoryType DEF MemoryTypeInv, FilesTypeOK
<1>3. \A i \in 1 .. Len(transcript[s]) :
          i \in 1 .. Len(transcript'[s]) /\ transcript'[s][i] = transcript[s][i]
  BY <1>1, <1>2 DEF Extends
<1>4. Markers(s) \subseteq Markers(s)'
  BY <1>3 DEF Markers
<1>5. ASSUME NEW phase, HasCommitted(s, phase) PROVE HasCommitted(s, phase)'
  BY <1>3, <1>4, <1>5 DEF HasCommitted, Markers
<1>6. ASSUME NEW a, HasVerified(s, a) PROVE HasVerified(s, a)'
  BY <1>3, <1>4, <1>6 DEF HasVerified
<1>7. ASSUME NEW a, PassedIn(transcript[s], a) PROVE PassedIn(transcript'[s], a)
  BY <1>3, <1>7 DEF PassedIn
<1> QED BY <1>5, <1>6, <1>7

\* A verdict is before the marker the transcript ends with.
LEMMA CommittedVerdict ==
    ASSUME MemoryTypeInv, NEW s \in Sessions, NEW a, NEW phase,
           PassedIn(transcript[s], a), EndsCommitted(transcript[s], phase)
    PROVE  HasVerified(s, a)
<1>1. Len(transcript[s]) \in Nat
  BY DEF MemoryTypeInv, FilesTypeOK
<1>2. PICK j \in 1 .. Len(transcript[s]) :
          /\ transcript[s][j].type = "verifier_result" /\ transcript[s][j].name = a.verifier
          /\ transcript[s][j].status = "pass"
  BY DEF PassedIn
<1>3. j < Len(transcript[s]) /\ Len(transcript[s]) \in Markers(s)
  BY <1>1, <1>2 DEF EndsCommitted, Markers
<1> QED BY <1>2, <1>3 DEF HasVerified

\* An artifact a reader takes from the committed prefix was verified there
\* (CommitPoint and VerifiedRecord, context/session_artifacts.py).
LEMMA VerifiedIsVerified ==
    ASSUME MemoryTypeInv, NEW s \in Sessions, NEW context, NEW a,
           Verified(context, transcript[s], a)
    PROVE  HasVerified(s, a)
<1> DEFINE log == transcript[s]
<1>1. PICK n \in CommitPoint(context, log) : VerifiedRecord(log, n, a) = "artifact"
  BY DEF Verified
<1>2. n \in Markers(s)
  BY <1>1 DEF CommitPoint, LatestOf, Markers
<1>3. PICK v \in MatchingVerdict(log, n, a) : log[v].status = "pass"
  BY <1>1 DEF VerifiedRecord
<1>4. v \in 1 .. n /\ log[v].type = "verifier_result" /\ log[v].name = a.verifier
  BY <1>3 DEF MatchingVerdict, LatestOf, AtAttempt
<1>5. n \in 1 .. Len(log) /\ log[n].type = "checkpoint_written" /\ Len(log) \in Nat
  BY <1>2 DEF Markers, MemoryTypeInv, FilesTypeOK
<1>6. v \in 1 .. Len(log) /\ v < n
  BY <1>4, <1>5
<1> QED BY <1>2, <1>3, <1>4, <1>6 DEF HasVerified

-----------------------------------------------------------------------------
(* Phases stand on verdicts *)

\* A session nobody touched is as well backed as before.
LEMMA BackedIfUntouched ==
    ASSUME NEW s \in Sessions, Backed(s),
           checkpoint'[s] = checkpoint[s], transcript'[s] = transcript[s],
           pc'[s] = pc[s], verdict'[s] = verdict[s]
    PROVE  Backed(s)'
  BY DEF Backed, Present

\* Which artifact the first phases ask for, and that no later artifact is one of these.
LEMMA EarlyArtifacts ==
    ASSUME NEW s
    PROVE  /\ checkpoint[s].phase = "none" => Present(s) = Evidence
           /\ checkpoint[s].phase = "evidence_reading_completed" => Present(s) = Hypothesis
           /\ checkpoint[s].phase \in HYPOTHESIS_COMPATIBLE_PHASES => Present(s) = Recommendation
           /\ Evidence # Recommendation /\ Hypothesis # Recommendation
           /\ {Evidence, Hypothesis, Recommendation}
                \cap {ActionStub, ActionExecution, OutcomeVerification} = {}
<1>1. /\ checkpoint[s].phase = "none" => Present(s) = Evidence
      /\ checkpoint[s].phase = "evidence_reading_completed" => Present(s) = Hypothesis
  BY DEF Present, NextArtifact, HYPOTHESIS_COMPATIBLE_PHASES, RECOMMENDATION_COMPATIBLE_PHASES,
     OUTCOME_VERIFICATION_STEP_ENTRY_PHASES, ACTION_EXECUTION_PHASES, OUTCOME_VERIFICATION_PHASES
<1>2. checkpoint[s].phase \in HYPOTHESIS_COMPATIBLE_PHASES => Present(s) = Recommendation
  BY DEF Present, NextArtifact, HYPOTHESIS_COMPATIBLE_PHASES, RECOMMENDATION_COMPATIBLE_PHASES,
     OUTCOME_VERIFICATION_STEP_ENTRY_PHASES, ACTION_EXECUTION_PHASES, OUTCOME_VERIFICATION_PHASES
<1>3. /\ Evidence # Recommendation /\ Hypothesis # Recommendation
      /\ {Evidence, Hypothesis, Recommendation}
           \cap {ActionStub, ActionExecution, OutcomeVerification} = {}
  BY DEF Evidence, Hypothesis, Recommendation, ActionStub, ActionExecution,
     OutcomeVerification, Artifact
<1> QED BY <1>1, <1>2, <1>3

\* A phase that stands on a verdict was entered from one that does, or by the verdict.
LEMMA CommittedPhaseBacked ==
    ASSUME MemoryTypeInv, NEW s \in Sessions, Backed(s), pc[s] = "save"
    PROVE  /\ Committing(s).phase \in AfterHypothesis => PassedIn(transcript[s], Hypothesis)
           /\ Committing(s).phase \in AfterRecommendation =>
                PassedIn(transcript[s], Recommendation)
<1> DEFINE a == Present(s)
           phase == checkpoint[s].phase
           next == Committing(s).phase
<1>1. CASE verdict[s] \in {"approved", "denied"}
  <2>1. phase \in AfterHypothesis /\ phase \in AfterRecommendation
    BY <1>1 DEF MemoryTypeInv, PhaseAtWork, AfterHypothesis, AfterRecommendation, Phases,
       ACTION_STUB_PHASES
  <2> QED BY <2>1 DEF Backed
<1>2. CASE verdict[s] \notin {"approved", "denied"}
  <2>1. /\ verdict[s] \in {"pass", "fail", "unverified"}
        /\ Continues(phase) /\ a \in Artifacts
    BY <1>2, PresentArtifact DEF MemoryTypeInv, PhaseAtWork
  <2>2. next = PhaseAfter(a, verdict[s], reading[s])
    BY <1>2 DEF Committing, CheckpointOf
  <2>3. verdict[s] = "pass" => PassedIn(transcript[s], a)
    BY DEF Backed
  <2>4. CASE a = Evidence
    <3>1. next \in EVIDENCE_READING_PHASES
      BY <2>1, <2>2, <2>4, PhaseAfterArtifact
    <3> QED BY <3>1 DEF EVIDENCE_READING_PHASES, AfterHypothesis, AfterRecommendation,
            HYPOTHESIS_COMPATIBLE_PHASES, RECOMMENDATION_COMPATIBLE_PHASES, Phases,
            ACTION_STUB_PHASES, ACTION_EXECUTION_PHASES, OUTCOME_VERIFICATION_PHASES
  <2>5. CASE a = Hypothesis
    <3>1. /\ next \in HYPOTHESIS_PHASES
          /\ verdict[s] # "pass" => next \notin HYPOTHESIS_COMPATIBLE_PHASES
      BY <2>1, <2>2, <2>5, PhaseAfterArtifact
    <3>2. next \notin RECOMMENDATION_COMPATIBLE_PHASES \cup Phases
      BY <3>1 DEF HYPOTHESIS_PHASES, RECOMMENDATION_COMPATIBLE_PHASES, Phases,
         ACTION_STUB_PHASES, ACTION_EXECUTION_PHASES, OUTCOME_VERIFICATION_PHASES
    <3> QED BY <2>3, <2>5, <3>1, <3>2 DEF AfterHypothesis, AfterRecommendation
  <2>6. CASE a = Recommendation
    <3>1. phase \in AfterHypothesis
      <4>1. phase # "none" /\ phase # "evidence_reading_completed"
        BY <2>6, EarlyArtifacts
      <4> QED BY <2>1, <4>1 DEF Continues, AfterHypothesis, Phases, ACTION_STUB_PHASES,
              ACTION_EXECUTION_PHASES
    <3>2. /\ next \in RECOMMENDATION_PHASES
          /\ verdict[s] # "pass" => next \notin RECOMMENDATION_COMPATIBLE_PHASES
      BY <2>1, <2>2, <2>6, PhaseAfterArtifact
    <3>3. next \notin Phases
      BY <3>2 DEF RECOMMENDATION_PHASES, Phases, ACTION_STUB_PHASES, ACTION_EXECUTION_PHASES,
         OUTCOME_VERIFICATION_PHASES
    <3> QED BY <2>3, <2>6, <3>1, <3>2, <3>3 DEF Backed, AfterRecommendation
  <2>7. CASE a \in {ActionStub, ActionExecution, OutcomeVerification}
    <3>1. phase \in AfterHypothesis /\ phase \in AfterRecommendation
      <4>1. phase # "none" /\ phase # "evidence_reading_completed"
            /\ phase \notin HYPOTHESIS_COMPATIBLE_PHASES
        BY <2>7, EarlyArtifacts
      <4>2. phase \in AfterRecommendation
        BY <2>1, <4>1 DEF Continues, AfterRecommendation, Phases, ACTION_STUB_PHASES,
           ACTION_EXECUTION_PHASES
      <4> QED BY <4>2 DEF AfterHypothesis, AfterRecommendation
    <3> QED BY <3>1 DEF Backed
  <2> QED BY <2>1, <2>4, <2>5, <2>6, <2>7 DEF Artifacts
<1> QED BY <1>1, <1>2

\* Every step keeps the phases backed.
LEMMA NextSessionBacked ==
    MemoryTypeInv /\ SessionBacked /\ [Next]_memoryVars => SessionBacked'
<1> SUFFICES ASSUME MemoryTypeInv, SessionBacked, [Next]_memoryVars, NEW r \in Sessions
             PROVE  Backed(r)'
  BY DEF SessionBacked
<1> USE DEF MemoryTypeInv, FilesTypeOK, WorkTypeOK
<1>0. Backed(r)
  BY DEF SessionBacked
<1>1. ASSUME NEW s \in Sessions, RunSlice(s) PROVE Backed(r)'
  <2>1. CASE r # s
    <3>1. transcript'[r] = transcript[r] /\ verdict'[r] = verdict[r]
      BY <1>1, <2>1 DEF RunSlice
    <3>2. checkpoint'[r] = checkpoint[r] /\ pc'[r] = pc[r]
      BY <1>1, <2>1 DEF RunSlice, Goto
    <3> QED BY <1>0, <3>1, <3>2, BackedIfUntouched
  <2>2. CASE r = s
    <3>1. PICK v \in Verdicts :
              /\ verdict' = [verdict EXCEPT ![s] = v]
              /\ transcript' = [transcript EXCEPT ![s] = @ \o
                    <<Event("tool_result", Present(s).tool, checkpoint[s].step + 1,
                            IF v = "unverified" THEN "failed" ELSE "succeeded"),
                      Event("verifier_result", Present(s).verifier, checkpoint[s].step + 1, v)>>]
      BY <1>1 DEF RunSlice
    <3>2. v \in {"pass", "fail", "unverified"} /\ Present(s) \in Artifacts
          /\ checkpoint[s].step + 1 \in Nat
      BY <1>1, MemoryVerdictsAssumption, PresentArtifact DEF RunSlice, Checkpoints
    <3> DEFINE e == Event("tool_result", Present(s).tool, checkpoint[s].step + 1,
                          IF v = "unverified" THEN "failed" ELSE "succeeded")
               f == Event("verifier_result", Present(s).verifier, checkpoint[s].step + 1, v)
               last == Len(transcript[s]) + 2
    <3>3. e \in Events /\ f \in Events
      BY <3>2, SliceEvents
    <3>4. /\ transcript'[s] = transcript[s] \o <<e, f>>
          /\ Len(transcript[s]) \in Nat
      BY <3>1
    <3>5. /\ Len(transcript'[s]) = last /\ transcript'[s][last] = f
      <4> HIDE DEF e, f
      <4> QED BY <3>3, <3>4, AppendTwo
    <3>6. v = "pass" => PassedIn(transcript'[s], Present(s))
      <4>1. f.type = "verifier_result" /\ f.name = Present(s).verifier /\ f.status = v
        BY DEF Event
      <4>2. last \in 1 .. Len(transcript'[s])
        BY <3>4, <3>5
      <4> HIDE DEF e, f, last
      <4> QED BY <3>5, <4>1, <4>2 DEF PassedIn
    <3>7. /\ PassedIn(transcript[s], Hypothesis) => PassedIn(transcript'[s], Hypothesis)
          /\ PassedIn(transcript[s], Recommendation) => PassedIn(transcript'[s], Recommendation)
      BY HistoryKept
    <3>8. pc'[s] = "save" /\ verdict'[s] = v /\ checkpoint' = checkpoint
      BY <1>1, <3>1 DEF RunSlice, Goto
    <3>9. Present(s)' = Present(s)
      BY <3>8 DEF Present
    <3> QED BY <1>0, <2>2, <3>6, <3>7, <3>8, <3>9 DEF Backed
  <2> QED BY <2>1, <2>2
<1>2. ASSUME NEW s \in Sessions, ResolveApproval(s) PROVE Backed(r)'
  <2>1. CASE r # s
    <3>1. checkpoint'[r] = checkpoint[r] /\ pc'[r] = pc[r] /\ transcript'[r] = transcript[r]
          /\ verdict'[r] = verdict[r]
      BY <1>2, <2>1 DEF ResolveApproval, Goto
    <3> QED BY <1>0, <3>1, BackedIfUntouched
  <2>2. CASE r = s
    <3>1. pc'[s] = "save" /\ verdict'[s] # "pass" /\ checkpoint' = checkpoint
      BY <1>2 DEF ResolveApproval, Goto
    <3> QED BY <1>0, <2>2, <3>1, HistoryKept DEF Backed
  <2> QED BY <2>1, <2>2
<1>3. ASSUME NEW s \in Sessions, SaveCheckpoint(s) PROVE Backed(r)'
  <2>1. CASE r # s
    <3>1. checkpoint'[r] = checkpoint[r] /\ pc'[r] = pc[r] /\ transcript'[r] = transcript[r]
          /\ verdict'[r] = verdict[r]
      BY <1>3, <2>1 DEF SaveCheckpoint, Goto
    <3> QED BY <1>0, <3>1, BackedIfUntouched
  <2>2. CASE r = s
    <3>1. pc'[s] = "mark" /\ checkpoint'[s] = Committing(s) /\ transcript' = transcript
      BY <1>3 DEF SaveCheckpoint, Goto
    <3>2. pc[s] = "save"
      BY <1>3 DEF SaveCheckpoint
    <3> QED BY <1>0, <2>2, <3>1, <3>2, CommittedPhaseBacked DEF Backed
  <2> QED BY <2>1, <2>2
<1>4. ASSUME NEW s \in Sessions, MarkCheckpoint(s) PROVE Backed(r)'
  <2>1. CASE r # s
    <3>1. checkpoint'[r] = checkpoint[r] /\ transcript'[r] = transcript[r]
      BY <1>4, <2>1 DEF MarkCheckpoint
    <3>2. pc'[r] = pc[r] /\ verdict'[r] = verdict[r]
      BY <1>4, <2>1 DEF MarkCheckpoint, Goto, Finish
    <3> QED BY <1>0, <3>1, <3>2, BackedIfUntouched
  <2>2. CASE r = s
    <3>1. EndsCommitted(transcript'[s], checkpoint[s].phase)
      <4>1. transcript'[s] = Append(transcript[s], Marker(checkpoint[s], checkpoint[s].step))
        BY <1>4 DEF MarkCheckpoint
      <4>2. Marker(checkpoint[s], checkpoint[s].step) \in Events /\ transcript[s] \in Seq(Events)
        BY MarkerEvent
      <4>3. Len(transcript'[s]) = Len(transcript[s]) + 1
            /\ transcript'[s][Len(transcript[s]) + 1] = Marker(checkpoint[s], checkpoint[s].step)
            /\ Len(transcript[s]) \in Nat
        BY <4>1, <4>2, AppendEvent
      <4> QED BY <4>3 DEF EndsCommitted, Marker
    <3>2. pc'[s] \in {"idle", "read_memory", "write_memory"} /\ checkpoint' = checkpoint
      BY <1>4 DEF MarkCheckpoint, Goto, Finish
    <3> QED BY <1>0, <2>2, <3>1, <3>2, HistoryKept DEF Backed
  <2> QED BY <2>1, <2>2
<1>5. ASSUME checkpoint' = checkpoint, transcript' = transcript,
             \/ pc'[r] = "idle"
             \/ pc[r] = "read_memory" /\ pc'[r] = "write_memory"
             \/ pc'[r] = pc[r] /\ verdict'[r] = verdict[r]
      PROVE  Backed(r)'
  BY <1>0, <1>5 DEF Backed, Present
<1>6. ASSUME NEW s \in Sessions,
             ReadMemory(s) \/ WriteMemory(s) \/ CrashSession(s) \/ CrashMidMemory(s)
      PROVE  Backed(r)'
  <2>1. checkpoint' = checkpoint /\ transcript' = transcript
    BY <1>6 DEF ReadMemory, WriteMemory, CrashSession, CrashMidMemory, files
  <2>2. \/ pc'[r] = "idle"
        \/ pc[r] = "read_memory" /\ pc'[r] = "write_memory"
        \/ pc'[r] = pc[r] /\ verdict'[r] = verdict[r]
    <3>1. CASE Finish(s)
      BY <3>1 DEF Finish, Goto
    <3>2. CASE ReadMemory(s) /\ ~Finish(s)
      BY <3>2 DEF ReadMemory, Goto
    <3> QED BY <1>6, <3>1, <3>2 DEF WriteMemory, CrashSession, CrashMidMemory
  <2> QED BY <1>5, <2>1, <2>2
<1>7. CASE UNCHANGED <<checkpoint, transcript, pc, verdict>>
  BY <1>5, <1>7
<1>8. ASSUME NEW x \in Exporters, Export(x) PROVE UNCHANGED <<checkpoint, transcript, pc, verdict>>
  BY <1>8 DEF Export, BeginExport, LoadForExport, Assemble, WriteHandoff, CrashMidHandoff,
     files, work
<1>9. CASE UNCHANGED memoryVars
  BY <1>7, <1>9 DEF memoryVars, files, work
<1> QED BY <1>1, <1>2, <1>3, <1>4, <1>6, <1>7, <1>8, <1>9 DEF Next, Session

-----------------------------------------------------------------------------
(* What the shared files claim *)

\* Who writes the memory: a slice that has committed a phase worth remembering, or a
\* crash that leaves it torn.
LEMMA MemoryWriters ==
    ASSUME [Next]_memoryVars
    PROVE  \/ memory' = memory
           \/ memory' = TornMemory
           \/ \E s \in Sessions : WriteMemory(s)
  BY DEF Next, Session, Export, memoryVars, files, RunSlice, ResolveApproval, SaveCheckpoint,
     MarkCheckpoint, ReadMemory, CrashSession, CrashMidMemory, BeginExport, LoadForExport,
     Assemble, WriteHandoff, CrashMidHandoff

\* Who writes the handoff: an export that has assembled one, or a crash.
LEMMA HandoffWriters ==
    ASSUME [Next]_memoryVars
    PROVE  \/ handoff' = handoff
           \/ handoff' = TornHandoff
           \/ \E x \in Exporters : handoff' = draft[x]
  BY DEF Next, Session, Export, memoryVars, files, RunSlice, ResolveApproval, SaveCheckpoint,
     MarkCheckpoint, ReadMemory, WriteMemory, CrashSession, CrashMidMemory, BeginExport,
     LoadForExport, Assemble, WriteHandoff, CrashMidHandoff

\* What a slice about to write the memory has behind it.
LEMMA WriterIsBacked ==
    ASSUME MemoryTypeInv, SessionBacked, NEW s \in Sessions, pc[s] = "write_memory"
    PROVE  /\ HasCommitted(s, checkpoint[s].phase)
           /\ HasVerified(s, Hypothesis)
           /\ checkpoint[s].phase \notin HYPOTHESIS_PHASES => HasVerified(s, Recommendation)
<1>1. EndsCommitted(transcript[s], checkpoint[s].phase)
  BY DEF SessionBacked, Backed
<1>2. checkpoint[s].phase \in RememberedPhases
  BY DEF MemoryTypeInv, PhaseAtWork
<1>3. checkpoint[s].phase \in AfterHypothesis
  BY <1>2 DEF RememberedPhases, AfterHypothesis, Phases, OUTCOME_VERIFICATION_PHASES
<1>4. checkpoint[s].phase \notin HYPOTHESIS_PHASES => checkpoint[s].phase \in AfterRecommendation
  BY <1>2 DEF RememberedPhases, AfterRecommendation, HYPOTHESIS_COMPATIBLE_PHASES,
     HYPOTHESIS_PHASES, Phases, OUTCOME_VERIFICATION_PHASES
<1>5. HasCommitted(s, checkpoint[s].phase)
  <2>1. Len(transcript[s]) \in Markers(s)
    BY <1>1 DEF EndsCommitted, Markers, MemoryTypeInv, FilesTypeOK
  <2> QED BY <1>1, <2>1 DEF EndsCommitted, HasCommitted
<1> QED BY <1>1, <1>3, <1>4, <1>5, CommittedVerdict DEF SessionBacked, Backed

\* Every step keeps the memory one session's own.
LEMMA NextMemorySpeaks ==
    MemoryTypeInv /\ SessionBacked /\ MemorySpeaksForOneSession /\ [Next]_memoryVars
        => MemorySpeaksForOneSession'
<1> SUFFICES ASSUME MemoryTypeInv, SessionBacked, MemorySpeaksForOneSession, [Next]_memoryVars,
                    memory'.source \in Sessions
             PROVE  /\ HasCommitted(memory.source, memory.phase)'
                    /\ memory'.hypothesis = memory'.source
                    /\ HasVerified(memory.source, Hypothesis)'
                    /\ memory'.recommendation # "none" =>
                          /\ memory'.recommendation = memory'.source
                          /\ HasVerified(memory.source, Recommendation)'
  BY DEF MemorySpeaksForOneSession
<1>1. CASE memory' = memory
  <2> DEFINE s == memory.source
  <2>1. s \in Sessions
    BY <1>1
  <2>2. /\ HasCommitted(s, memory.phase) /\ HasVerified(s, Hypothesis)
        /\ memory.hypothesis = s
        /\ memory.recommendation # "none" =>
              memory.recommendation = s /\ HasVerified(s, Recommendation)
    BY <2>1 DEF MemorySpeaksForOneSession
  <2>3. ASSUME NEW r \in Sessions
        PROVE  /\ \A phase : HasCommitted(r, phase) => HasCommitted(r, phase)'
               /\ \A a : HasVerified(r, a) => HasVerified(r, a)'
    BY HistoryKept
  <2>4. PICK r \in Sessions : r = s
    BY <2>1
  <2>5. PICK p : p = memory.phase
    OBVIOUS
  <2>6. HasCommitted(r, p)' /\ HasVerified(r, Hypothesis)'
        /\ (memory.recommendation # "none" => HasVerified(r, Recommendation)')
    BY <2>2, <2>3, <2>4, <2>5
  <2>7. memory'.source = r /\ memory'.phase = p
    BY <1>1, <2>4, <2>5
  <2>8. HasCommitted(memory.source, memory.phase)'
    BY <2>6, <2>7 DEF HasCommitted, Markers
  <2>9. HasVerified(memory.source, Hypothesis)'
        /\ (memory.recommendation # "none" => HasVerified(memory.source, Recommendation)')
    BY <2>6, <2>7 DEF HasVerified, Markers
  <2> QED BY <1>1, <2>2, <2>8, <2>9
<1>2. CASE memory' = TornMemory
  BY <1>2, MemoryNamesAssumption DEF TornMemory, NoMemory
<1>3. ASSUME NEW s \in Sessions, WriteMemory(s)
      PROVE  /\ HasCommitted(memory.source, memory.phase)'
             /\ memory'.hypothesis = memory'.source
             /\ HasVerified(memory.source, Hypothesis)'
             /\ memory'.recommendation # "none" =>
                   /\ memory'.recommendation = memory'.source
                   /\ HasVerified(memory.source, Recommendation)'
  <2>1. /\ memory'.source = s /\ memory'.phase = checkpoint[s].phase /\ memory'.hypothesis = s
        /\ memory'.recommendation =
             IF checkpoint[s].phase \in HYPOTHESIS_PHASES THEN "none" ELSE s
    BY <1>3 DEF WriteMemory, MemoryOf
  <2>2. transcript' = transcript /\ pc[s] = "write_memory"
    BY <1>3 DEF WriteMemory
  <2>3. /\ HasCommitted(s, checkpoint[s].phase) /\ HasVerified(s, Hypothesis)
        /\ checkpoint[s].phase \notin HYPOTHESIS_PHASES => HasVerified(s, Recommendation)
    BY <2>2, WriterIsBacked
  <2> QED BY <2>1, <2>2, <2>3 DEF HasCommitted, HasVerified, Markers
<1> QED BY <1>1, <1>2, <1>3, MemoryWriters

-----------------------------------------------------------------------------
(* Whose the open questions are *)

\* What a session's evidence says never changes.
LEMMA ReadingKept == ASSUME [Next]_memoryVars PROVE reading' = reading
  BY DEF Next, Session, Export, memoryVars, RunSlice, ResolveApproval, SaveCheckpoint,
     MarkCheckpoint, ReadMemory, WriteMemory, CrashSession, CrashMidMemory, BeginExport,
     LoadForExport, Assemble, WriteHandoff, CrashMidHandoff

\* A gap that is some session's stays that session's.
LEMMA JustifiedKept ==
    ASSUME MemoryTypeInv, [Next]_memoryVars, NEW gap, Justified(gap)
    PROVE  Justified(gap)'
<1>1. PICK s \in Sessions :
          /\ reading[s] = (IF gap = "causal" THEN "conservative" ELSE "supported")
          /\ HasVerified(s, Hypothesis)
  BY DEF Justified
<1>2. HasVerified(s, Hypothesis)'
  BY <1>1, HistoryKept
<1> QED BY <1>1, <1>2, ReadingKept DEF Justified

\* The gaps of a hypothesis are of the session that verified it.
LEMMA OwnGapsJustified ==
    ASSUME MemoryTypeInv, NEW s \in Sessions, HasVerified(s, Hypothesis)
    PROVE  \A gap \in GapsOf(reading[s]) : Justified(gap)
<1>1. reading[s] \in {"supported", "recovered", "conservative"}
  BY MemoryReadingsAssumption DEF MemoryTypeInv, FilesTypeOK
<1>2. \A gap \in GapsOf(reading[s]) :
          reading[s] = (IF gap = "causal" THEN "conservative" ELSE "supported")
  BY <1>1 DEF GapsOf
<1> QED BY <1>2 DEF Justified

\* What a slice remembers of gaps is its own or was remembered before it.
LEMMA WrittenGapsJustified ==
    ASSUME MemoryTypeInv, SessionBacked, GapsJustified,
           NEW s \in Sessions, pc[s] = "write_memory"
    PROVE  \A gap \in MemoryOf(s).gaps : Justified(gap)
<1>1. \A gap \in GapsOf(reading[s]) : Justified(gap)
  BY WriterIsBacked, OwnGapsJustified
<1>2. \A gap \in prior[s].gaps : Justified(gap)
  BY DEF GapsJustified
<1>3. MemoryOf(s).gaps \subseteq GapsOf(reading[s]) \cup prior[s].gaps
  BY DEF MemoryOf, ResolvedGaps
<1> QED BY <1>1, <1>2, <1>3

\* What an export shows of gaps is the memory's or its session's own.
LEMMA ShownGapsJustified ==
    ASSUME MemoryTypeInv, GapsJustified, NEW x \in Exporters, at[x] = "assemble"
    PROVE  \A gap \in Assembled(x).gaps : Justified(gap)
<1> DEFINE s == view[x].session
           own == IF view[x].outputs.hypothesis = "none" THEN {} ELSE GapsOf(reading[s])
<1>1. s \in Sessions
  BY DEF MemoryTypeInv, ExportTypeOK
<1>2. \A gap \in own : Justified(gap)
  BY <1>1, OwnGapsJustified DEF GapsJustified
<1>3. \A gap \in memory.gaps : Justified(gap)
  BY DEF GapsJustified
<1>4. Assembled(x).gaps \subseteq own \cup memory.gaps
  BY DEF Assembled, ShownGaps
<1> QED BY <1>2, <1>3, <1>4

\* What a step may do to an export: nothing, end it or move it on, load or assemble.
LEMMA ExportSteps ==
    ASSUME ExportTypeOK, [Next]_memoryVars, NEW x \in Exporters
    PROVE  \/ draft'[x] = draft[x] /\ at'[x] = at[x] /\ view'[x] = view[x]
           \/ at'[x] # "assemble" /\ (draft'[x] = draft[x] \/ draft'[x] = NoHandoff)
           \/ LoadForExport(x)
           \/ Assemble(x) /\ memory # TornMemory
<1> USE DEF ExportTypeOK
<1>1. CASE UNCHANGED export
  BY <1>1 DEF export
<1>2. ASSUME NEW s \in Sessions, Session(s) PROVE UNCHANGED export
  BY <1>2 DEF Session, RunSlice, ResolveApproval, SaveCheckpoint, MarkCheckpoint, ReadMemory,
     WriteMemory, CrashSession, CrashMidMemory
<1>3. CASE Export(x)
  BY <1>3 DEF Export, BeginExport, Assemble, WriteHandoff, CrashMidHandoff, EndExport
<1>4. ASSUME NEW y \in Exporters, Export(y), x # y
      PROVE  draft'[x] = draft[x] /\ at'[x] = at[x] /\ view'[x] = view[x]
  BY <1>4 DEF Export, BeginExport, LoadForExport, Assemble, WriteHandoff, CrashMidHandoff,
     EndExport
<1> QED BY <1>1, <1>2, <1>3, <1>4 DEF Next, memoryVars

\* Every step keeps every gap some session's.
LEMMA NextGapsJustified ==
    MemoryTypeInv /\ SessionBacked /\ GapsJustified /\ [Next]_memoryVars => GapsJustified'
<1> SUFFICES ASSUME MemoryTypeInv, SessionBacked, GapsJustified, [Next]_memoryVars
             PROVE  GapsJustified'
  OBVIOUS
<1> USE DEF MemoryTypeInv, ExportTypeOK, WorkTypeOK
<1>1. /\ \A gap \in memory.gaps \cup handoff.gaps : Justified(gap)'
      /\ \A s \in Sessions : \A gap \in prior[s].gaps : Justified(gap)'
      /\ \A x \in Exporters : \A gap \in draft[x].gaps : Justified(gap)'
  BY JustifiedKept DEF GapsJustified
<1>2. \A gap \in memory'.gaps : Justified(gap)'
  <2>1. CASE memory' = memory
    BY <1>1, <2>1
  <2>2. CASE memory' = TornMemory
    BY <2>2 DEF TornMemory, NoMemory
  <2>3. ASSUME NEW s \in Sessions, WriteMemory(s) PROVE \A gap \in memory'.gaps : Justified(gap)'
    BY <2>3, WrittenGapsJustified, JustifiedKept DEF WriteMemory
  <2> QED BY <2>1, <2>2, <2>3, MemoryWriters
<1>3. \A gap \in handoff'.gaps : Justified(gap)'
  <2>1. CASE handoff' = handoff
    BY <1>1, <2>1
  <2>2. CASE handoff' = TornHandoff
    BY <2>2 DEF TornHandoff, NoHandoff
  <2>3. CASE \E x \in Exporters : handoff' = draft[x]
    BY <1>1, <2>3
  <2> QED BY <2>1, <2>2, <2>3, HandoffWriters
<1>4. ASSUME NEW s \in Sessions PROVE \A gap \in prior'[s].gaps : Justified(gap)'
  <2>1. prior'[s] = prior[s] \/ prior'[s] = NoMemory \/ prior'[s] = memory
    BY DEF Next, Session, Export, memoryVars, work, RunSlice, ResolveApproval, SaveCheckpoint,
       MarkCheckpoint, ReadMemory, WriteMemory, CrashSession, CrashMidMemory, BeginExport,
       LoadForExport, Assemble, WriteHandoff, CrashMidHandoff, Goto, Finish
  <2> QED BY <1>1, <2>1 DEF NoMemory
<1>5. ASSUME NEW x \in Exporters
      PROVE  /\ \A gap \in draft'[x].gaps : Justified(gap)'
             /\ at'[x] = "assemble" /\ view'[x].outputs.hypothesis # "none" =>
                   HasVerified(view[x].session, Hypothesis)'
  <2>1. CASE draft'[x] = draft[x] /\ at'[x] = at[x] /\ view'[x] = view[x]
    <3>1. at[x] = "assemble" /\ view[x].outputs.hypothesis # "none" =>
             HasVerified(view[x].session, Hypothesis)
      BY DEF GapsJustified
    <3>2. at[x] = "assemble" => view[x].session \in Sessions
      OBVIOUS
    <3>3. ASSUME NEW r \in Sessions, HasVerified(r, Hypothesis) PROVE HasVerified(r, Hypothesis)'
      BY <3>3, HistoryKept
    <3>4. \A gap \in draft'[x].gaps : Justified(gap)'
      BY <1>1, <2>1
    <3>5. ASSUME at'[x] = "assemble", view'[x].outputs.hypothesis # "none"
          PROVE  HasVerified(view[x].session, Hypothesis)'
      <4>1. PICK r \in Sessions : r = view[x].session
        BY <2>1, <3>2, <3>5
      <4>2. HasVerified(r, Hypothesis)'
        BY <2>1, <3>1, <3>3, <3>5, <4>1
      <4>3. view'[x].session = r
        BY <2>1, <4>1
      <4> QED BY <4>2, <4>3 DEF HasVerified, Markers
    <3> QED BY <3>4, <3>5
  <2>2. CASE at'[x] # "assemble" /\ (draft'[x] = draft[x] \/ draft'[x] = NoHandoff)
    BY <1>1, <2>2 DEF NoHandoff
  <2>3. CASE LoadForExport(x)
    <3>1. CASE Exportable(view[x].context, transcript[view[x].session])
      <4> DEFINE s == view[x].session
             own(a) == IF Verified(view[x].context, transcript[s], a) THEN s ELSE "none"
      <4>0. /\ view' = [view EXCEPT ![x].outputs =
                          [hypothesis |-> own(Hypothesis), recommendation |-> own(Recommendation),
                           outcome |-> own(OutcomeVerification)]]
            /\ draft' = draft /\ s \in Sessions
        BY <2>3, <3>1 DEF LoadForExport
      <4>1. /\ s \in Sessions /\ view'[x].session = s /\ draft'[x] = draft[x]
            /\ view'[x].outputs.hypothesis =
                 IF Verified(view[x].context, transcript[s], Hypothesis) THEN s ELSE "none"
        <5>1. view[x] \in Views
          OBVIOUS
        <5>2. view'[x] = [view[x] EXCEPT !.outputs =
                          [hypothesis |-> own(Hypothesis), recommendation |-> own(Recommendation),
                           outcome |-> own(OutcomeVerification)]]
          BY <4>0
        <5>3. own(Hypothesis) =
                 IF Verified(view[x].context, transcript[s], Hypothesis) THEN s ELSE "none"
          OBVIOUS
        <5> HIDE DEF own
        <5> QED BY <4>0, <5>1, <5>2, <5>3 DEF Views
      <4>2. view'[x].outputs.hypothesis # "none" => HasVerified(s, Hypothesis)
        BY <4>1, VerifiedIsVerified
      <4>3. transcript' = transcript
        BY <2>3 DEF LoadForExport, files
      <4> QED BY <1>1, <4>1, <4>2, <4>3 DEF HasVerified, Markers
    <3>2. CASE ~Exportable(view[x].context, transcript[view[x].session])
      BY <2>2, <2>3, <3>2 DEF LoadForExport, EndExport
    <3> QED BY <3>1, <3>2
  <2>4. CASE Assemble(x) /\ memory # TornMemory
    <3>1. draft'[x] = Assembled(x) /\ at[x] = "assemble" /\ at'[x] = "write"
      BY <2>4 DEF Assemble
    <3> QED BY <3>1, ShownGapsJustified, JustifiedKept
  <2> QED BY <2>1, <2>2, <2>3, <2>4, ExportSteps
<1> QED BY <1>2, <1>3, <1>4, <1>5 DEF GapsJustified

-----------------------------------------------------------------------------
(* A recovery leaves no validation open *)

\* An export that gets as far as assembling a recovery has its verified outcome.
LEMMA RecoveryHasOutcome ==
    ASSUME MemoryTypeInv, NEW x \in Exporters, LoadForExport(x),
           Exportable(view[x].context, transcript[view[x].session]),
           view[x].context.phase = "outcome_verification_succeeded"
    PROVE  view'[x].outputs.outcome # "none"
<1> DEFINE s == view[x].session
           own(a) == IF Verified(view[x].context, transcript[s], a) THEN s ELSE "none"
<1>1. RequiredArtifact(view[x].context.phase) = OutcomeVerification
  BY DEF RequiredArtifact, EVIDENCE_READING_PHASES, HYPOTHESIS_PHASES, RECOMMENDATION_PHASES,
     ACTION_STUB_PHASES, ACTION_EXECUTION_PHASES, OUTCOME_VERIFICATION_PHASES
<1>2. Verified(view[x].context, transcript[s], OutcomeVerification)
  BY <1>1 DEF Exportable
<1>3. s \in Sessions /\ view[x] \in Views /\ view \in [Exporters -> Views]
  BY DEF LoadForExport, MemoryTypeInv, ExportTypeOK
<1>4. own(OutcomeVerification) = s /\ s # "none"
  BY <1>2, <1>3, MemoryNamesAssumption
<1>5. view' = [view EXCEPT ![x].outputs =
                  [hypothesis |-> own(Hypothesis), recommendation |-> own(Recommendation),
                   outcome |-> own(OutcomeVerification)]]
  BY DEF LoadForExport
<1> HIDE DEF own
<1> QED BY <1>3, <1>4, <1>5 DEF Views

\* What an export assembles of a recovery leaves no validation open.
LEMMA AssembledRecovery ==
    ASSUME ResolvedGapStaysResolved, RecoveryInHand, NEW x \in Exporters, at[x] = "assemble",
           Assembled(x).phase = "outcome_verification_succeeded"
    PROVE  "validation" \notin Assembled(x).gaps
<1>1. view[x].context.phase = "outcome_verification_succeeded"
      /\ Assembled(x).gaps = ShownGaps(x)
  BY DEF Assembled
<1>2. CASE memory.phase = view[x].context.phase
  <2>1. ShownGaps(x) = memory.gaps
    BY <1>2 DEF ShownGaps
  <2> QED BY <1>1, <1>2, <2>1 DEF ResolvedGapStaysResolved
<1>3. CASE memory.phase # view[x].context.phase
  <2>1. view[x].outputs.outcome # "none"
    BY <1>1 DEF RecoveryInHand
  <2>2. ShownGaps(x) = {}
    BY <1>1, <1>3, <2>1 DEF ShownGaps
  <2> QED BY <1>1, <2>2
<1> QED BY <1>2, <1>3

\* Every step leaves a settled validation settled.
LEMMA NextResolved ==
    MemoryTypeInv /\ ResolvedGapStaysResolved /\ RecoveryInHand /\ [Next]_memoryVars
        => ResolvedGapStaysResolved' /\ RecoveryInHand'
<1> SUFFICES ASSUME MemoryTypeInv, ResolvedGapStaysResolved, RecoveryInHand, [Next]_memoryVars
             PROVE  ResolvedGapStaysResolved' /\ RecoveryInHand'
  OBVIOUS
<1> USE DEF MemoryTypeInv, ExportTypeOK
<1> DEFINE recovered == "outcome_verification_succeeded"
<1>1. memory'.phase = recovered => "validation" \notin memory'.gaps
  <2>1. CASE memory' = memory
    BY <2>1 DEF ResolvedGapStaysResolved
  <2>2. CASE memory' = TornMemory
    BY <2>2 DEF TornMemory, NoMemory
  <2>3. ASSUME NEW s \in Sessions, WriteMemory(s)
        PROVE  memory'.phase = recovered => "validation" \notin memory'.gaps
    BY <2>3 DEF WriteMemory, MemoryOf, ResolvedGaps
  <2> QED BY <2>1, <2>2, <2>3, MemoryWriters
<1>2. handoff'.phase = recovered => "validation" \notin handoff'.gaps
  <2>1. CASE handoff' = handoff
    BY <2>1 DEF ResolvedGapStaysResolved
  <2>2. CASE handoff' = TornHandoff
    BY <2>2 DEF TornHandoff, NoHandoff
  <2>3. CASE \E x \in Exporters : handoff' = draft[x]
    BY <2>3 DEF RecoveryInHand
  <2> QED BY <2>1, <2>2, <2>3, HandoffWriters
<1>3. ASSUME NEW x \in Exporters
      PROVE  /\ at'[x] = "assemble" /\ view'[x].context.phase = recovered =>
                   view'[x].outputs.outcome # "none"
             /\ draft'[x].phase = recovered => "validation" \notin draft'[x].gaps
  <2>1. CASE draft'[x] = draft[x] /\ at'[x] = at[x] /\ view'[x] = view[x]
    BY <2>1 DEF RecoveryInHand
  <2>2. CASE at'[x] # "assemble" /\ (draft'[x] = draft[x] \/ draft'[x] = NoHandoff)
    BY <2>2 DEF RecoveryInHand, NoHandoff
  <2>3. CASE LoadForExport(x)
    <3>1. CASE Exportable(view[x].context, transcript[view[x].session])
      <4>1. draft'[x] = draft[x] /\ view'[x].context = view[x].context
        BY <2>3, <3>1 DEF LoadForExport, Views
      <4> QED BY <2>3, <3>1, <4>1, RecoveryHasOutcome DEF RecoveryInHand
    <3>2. CASE ~Exportable(view[x].context, transcript[view[x].session])
      BY <2>2, <2>3, <3>2 DEF LoadForExport, EndExport
    <3> QED BY <3>1, <3>2
  <2>4. CASE Assemble(x) /\ memory # TornMemory
    <3>1. draft'[x] = Assembled(x) /\ at[x] = "assemble" /\ at'[x] = "write"
      BY <2>4 DEF Assemble
    <3> QED BY <3>1, AssembledRecovery
  <2> QED BY <2>1, <2>2, <2>3, <2>4, ExportSteps
<1> QED BY <1>1, <1>2, <1>3 DEF ResolvedGapStaysResolved, RecoveryInHand

-----------------------------------------------------------------------------
(* The theorems *)

\* The invariant holds of every state: the initial ones have it, and no slice, operator,
\* export or crash takes it away.
THEOREM MemoryInvariant == Spec => []MemoryInv
<1>1. MemoryInv /\ [Next]_memoryVars => MemoryInv'
  BY NextMemoryType, NextSessionBacked, NextMemorySpeaks, NextGapsJustified, NextResolved
  DEF MemoryInv
<1> QED BY <1>1, InitMemoryInv, PTL DEF Spec

\* The shared files always have the form their readers expect (MemoryTypeOK), for any
\* number of sessions and exporters.
THEOREM MemoryTypes == Spec => []MemoryTypeOK
<1>1. MemoryInv => MemoryTypeOK
  BY DEF MemoryInv, MemoryTypeInv, FilesTypeOK, WorkTypeOK, ExportTypeOK, MemoryTypeOK,
     Checkpoints, PhasesOrNone
<1> QED BY <1>1, MemoryInvariant, PTL

\* The working memory is never put together from two sessions' decisions nor written ahead
\* of a transcript (MemorySpeaksForOneSession), whoever crashes and whoever writes last.
THEOREM MemoryIsOneSessions == Spec => []MemorySpeaksForOneSession
<1>1. MemoryInv => MemorySpeaksForOneSession
  BY DEF MemoryInv
<1> QED BY <1>1, MemoryInvariant, PTL

\* A gap that is shown is the gap of a hypothesis some session has verified
\* (GapsAreVerified), however many sessions and exports take gaps from each other.
THEOREM ShownGapsAreVerified == Spec => []GapsAreVerified
<1>1. MemoryInv => GapsAreVerified
  BY DEF MemoryInv, GapsJustified, GapsAreVerified, Justified
<1> QED BY <1>1, MemoryInvariant, PTL

\* Neither the memory of a recovery nor a handoff of one reports the validation open again
\* (ResolvedGapStaysResolved), whatever other sessions wrote in between.
THEOREM RecoveryStaysResolved == Spec => []ResolvedGapStaysResolved
<1>1. MemoryInv => ResolvedGapStaysResolved
  BY DEF MemoryInv
<1> QED BY <1>1, MemoryInvariant, PTL

=============================================================================
