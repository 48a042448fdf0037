---------------------------- MODULE HandoffProofs ----------------------------
(***************************************************************************)
(* HandoffBacksItsPhase for any number of sessions and exporters.          *)
(*                                                                         *)
(* An export reads the checkpoint first and the transcript later, and in   *)
(* between the session goes on.  The argument: every event of a session    *)
(* makes the tail after a marker unsafe, so a transcript that loads ends   *)
(* with the marker it is loaded at; what is read there is the whole of     *)
(* what the session has said so far, and a phase that was once read still  *)
(* has the outputs it promised, because no later slice says anything of    *)
(* them again.                                                             *)
(***************************************************************************)
EXTENDS MemoryProofs

-----------------------------------------------------------------------------
(* The invariant *)

CommittingEvents == {"tool_result", "verifier_result", "approval_resolved", "checkpoint_written"}

\* A session that has its hypothesis verified never leaves these phases.
PastHypothesis == HYPOTHESIS_COMPATIBLE_PHASES \cup RECOMMENDATION_PHASES \cup Phases

PastRollback == ACTION_EXECUTION_PHASES \cup OUTCOME_VERIFICATION_PHASES

EndsMarked(log) == Len(log) > 0 /\ log[Len(log)].type = "checkpoint_written"

\* The marker a transcript ends with is of the checkpoint, and a slice at work has
\* found the checkpoint it started from marked.
History(s) ==
    /\ \A i \in 1 .. Len(transcript[s]) : transcript[s][i].type \in CommittingEvents
    /\ pc[s] \in {"save", "mark"} => Len(transcript[s]) > 0 /\ ~EndsMarked(transcript[s])
    /\ EndsMarked(transcript[s]) =>
          transcript[s][Len(transcript[s])].status = checkpoint[s].phase
    /\ pc[s] = "save" =>
          checkpoint[s] = NoCheckpoint \/ HasCommitted(s, checkpoint[s].phase)
    /\ checkpoint[s].phase \in PastRollback => HasCommitted(s, "action_stub_approved")

\* The artifact is what a reader at the end of the transcript makes of the record.
Stands(s, a) == VerifiedRecord(transcript[s], Len(transcript[s]), a) = "artifact"

Standing(s) ==
    /\ checkpoint[s].phase \in PastHypothesis => Stands(s, Hypothesis)
    /\ checkpoint[s].phase \in AfterRecommendation => Stands(s, Recommendation)
    /\ pc[s] = "save" /\ verdict[s] = "pass" /\ Present(s) \in {Hypothesis, Recommendation} =>
          Stands(s, Present(s))

\* What an export has in hand, against the session as it is by now.
InHand(x, s, context) ==
    /\ at[x] = "load" =>
          context = NoCheckpoint \/ context = checkpoint[s] \/ HasCommitted(s, context.phase)
    /\ context.phase \in PastRollback => HasCommitted(s, "action_stub_approved")
    /\ context.phase \in AfterHypothesis => checkpoint[s].phase \in PastHypothesis
    /\ context.phase \in AfterRecommendation => checkpoint[s].phase \in AfterRecommendation
    /\ at[x] = "assemble" =>
          /\ HasCommitted(s, context.phase)
          /\ \A kind \in PromisedBy(context.phase) : view[x].outputs[kind] = s

ViewBacked(x) == at[x] \in {"load", "assemble"} => InHand(x, view[x].session, view[x].context)

\* HandoffBacksItsPhase, of any handoff.
BacksItsPhase(h) ==
    h.source \in Sessions =>
        /\ HasCommitted(h.source, h.phase)
        /\ h.approval = "approved" => HasCommitted(h.source, "action_stub_approved")
        /\ \A kind \in PromisedBy(h.phase) : h[kind] = h.source

HandoffInv ==
    /\ \A s \in Sessions : History(s) /\ Standing(s)
    /\ \A x \in Exporters : ViewBacked(x) /\ BacksItsPhase(draft[x])
    /\ HandoffBacksItsPhase

-----------------------------------------------------------------------------
(* The record at the end of a transcript *)

\* Events of other artifacts change nothing about an artifact's record.
LEMMA RecordFramed ==
    ASSUME NEW log \in Seq(Events), NEW later \in Seq(Events), NEW a, Extends(later, log),
           \A i \in Len(log) + 1 .. Len(later) :
               /\ later[i].type \in {"tool_request", "tool_result"} => later[i].name # a.tool
               /\ later[i].type \in {"verifier_request", "verifier_result"} =>
                     later[i].name # a.verifier
    PROVE  VerifiedRecord(later, Len(later), a) = VerifiedRecord(log, Len(log), a)
<1> DEFINE m == Len(log)
           n == Len(later)
           Of(e) == \/ e.type \in {"tool_request", "tool_result"} /\ e.name = a.tool
                    \/ e.type \in {"verifier_request", "verifier_result"}
                       /\ e.name = a.verifier
<1>1. /\ m \in Nat /\ n \in Nat /\ m <= n
      /\ \A i \in 1 .. m : later[i] = log[i]
      /\ \A i \in m + 1 .. n : ~Of(later[i])
  BY DEF Extends
<1>2. \A i \in 1 .. n : Of(later[i]) => i \in 1 .. m
  BY <1>1
<1>3. AttemptStep(later, n, a) = AttemptStep(log, m, a)
  <2> DEFINE S == {j \in 1 .. n : Of(later[j])}
             T == {j \in 1 .. m : Of(log[j])}
  <2>1. S = T
    <3>1. \A j \in 1 .. m : j \in 1 .. n /\ (Of(later[j]) <=> Of(log[j]))
      BY <1>1
    <3> HIDE DEF Of, m, n
    <3> QED BY <1>2, <3>1
  <2>2. LatestOf(S) = LatestOf(T) /\ LatestOf(T) \subseteq 1 .. m
    BY <2>1 DEF LatestOf
  <2>3. {later[i].step : i \in LatestOf(S)} = {log[i].step : i \in LatestOf(T)}
    <3> HIDE DEF S, T, m, n
    <3> QED BY <1>1, <2>2
  <2> QED BY <2>3 DEF AttemptStep
<1>4. /\ AtAttempt(later, n, a, "tool_request", a.tool)
             = AtAttempt(log, m, a, "tool_request", a.tool)
      /\ AtAttempt(later, n, a, "tool_result", a.tool)
             = AtAttempt(log, m, a, "tool_result", a.tool)
      /\ AtAttempt(later, n, a, "verifier_result", a.verifier)
             = AtAttempt(log, m, a, "verifier_result", a.verifier)
  <2>1. ASSUME NEW type, NEW name,
               \A e : e.type = type /\ e.name = name => Of(e)
        PROVE  AtAttempt(later, n, a, type, name) = AtAttempt(log, m, a, type, name)
    <3>1. \A i \in 1 .. n : later[i].type = type /\ later[i].name = name => i \in 1 .. m
      BY <1>2, <2>1
    <3>2. \A i \in 1 .. m : i \in 1 .. n
      BY <1>1
    <3> HIDE DEF m, n, Of
    <3> QED BY <1>1, <1>3, <3>1, <3>2 DEF AtAttempt
  <2> QED BY <2>1
<1>5. /\ MatchingResult(later, n, a) = MatchingResult(log, m, a)
      /\ MatchingVerdict(later, n, a) = MatchingVerdict(log, m, a)
  BY <1>4 DEF MatchingResult, MatchingRequest, MatchingVerdict
<1>6. MatchingResult(log, m, a) \subseteq 1 .. m /\ MatchingVerdict(log, m, a) \subseteq 1 .. m
  BY DEF MatchingResult, MatchingVerdict, AtAttempt, LatestOf, FirstOf
<1>7. /\ \A i \in MatchingResult(log, m, a) : later[i] = log[i]
      /\ \A i \in MatchingVerdict(log, m, a) : later[i] = log[i]
  BY <1>1, <1>6
<1> HIDE DEF m, n
<1>8. VerifiedRecord(later, n, a) = VerifiedRecord(log, m, a)
  BY <1>5, <1>7 DEF VerifiedRecord
<1> QED BY <1>8 DEF m, n

\* A result and the verdict that passes it are an artifact, whatever came before.
LEMMA RecordFresh ==
    ASSUME NEW log \in Seq(Events), NEW a \in Artifacts, NEW step \in Nat,
           NEW e \in Events, NEW f \in Events,
           e = Event("tool_result", a.tool, step, "succeeded"),
           f = Event("verifier_result", a.verifier, step, "pass"),
           \A i \in 1 .. Len(log) : log[i].type # "tool_request"
    PROVE  VerifiedRecord(log \o <<e, f>>, Len(log \o <<e, f>>), a) = "artifact"
<1>1. /\ e.type = "tool_result" /\ e.name = a.tool /\ e.step = step /\ e.status = "succeeded"
      /\ f.type = "verifier_result" /\ f.name = a.verifier /\ f.step = step /\ f.status = "pass"
  BY DEF Event
<1>2. PICK later, m, n : /\ later = log \o <<e, f>> /\ m = Len(log) + 1 /\ n = Len(later)
  OBVIOUS
<1>3. /\ m \in Nat /\ n = m + 1 /\ m \in 1 .. n /\ n \in 1 .. n
      /\ later[m] = e /\ later[n] = f
      /\ \A i \in 1 .. n : i = m \/ i = n \/ (i \in 1 .. Len(log) /\ later[i] = log[i])
  BY <1>2
<1>4. AttemptStep(later, n, a) = {step}
  <2> DEFINE S == {j \in 1 .. n :
        \/ later[j].type \in {"tool_request", "tool_result"} /\ later[j].name = a.tool
        \/ later[j].type \in {"verifier_request", "verifier_result"}
           /\ later[j].name = a.verifier}
  <2>1. n \in S /\ \A j \in S : j <= n
    BY <1>1, <1>3
  <2>2. LatestOf(S) = {n}
    <3>1. S \in SUBSET Int
      BY <1>3
    <3>2. \A i \in S : (\A j \in S : j <= i) <=> i = n
      <4> HIDE DEF S
      <4> QED BY <1>3, <2>1, <3>1
    <3> HIDE DEF S
    <3> QED BY <2>1, <3>2 DEF LatestOf
  <2> QED BY <1>1, <1>3, <2>2 DEF AttemptStep
<1>5. AtAttempt(later, n, a, "tool_request", a.tool) = {}
  BY <1>1, <1>3 DEF AtAttempt
<1>6. m \in MatchingResult(later, n, a)
  <2>1. m \in AtAttempt(later, n, a, "tool_result", a.tool)
    BY <1>1, <1>3, <1>4 DEF AtAttempt
  <2>2. \A i \in AtAttempt(later, n, a, "tool_result", a.tool) : i <= m
    BY <1>1, <1>3 DEF AtAttempt
  <2>3. MatchingRequest(later, n, a) = {}
    BY <1>5 DEF MatchingRequest, LatestOf
  <2> QED BY <2>1, <2>2, <2>3 DEF MatchingResult, LatestOf
<1>7. n \in MatchingVerdict(later, n, a)
  BY <1>1, <1>3, <1>4 DEF MatchingVerdict, AtAttempt, LatestOf
<1>8. VerifiedRecord(later, n, a) = "artifact"
  BY <1>1, <1>3, <1>6, <1>7 DEF VerifiedRecord
<1> QED BY <1>2, <1>8

\* A transcript that loads ends with the marker it is loaded at: any event after a
\* marker is an unsafe tail (TailClass, _resume_tail_classification).
LEMMA LoadedAtEnd ==
    ASSUME MemoryTypeInv, NEW s \in Sessions, History(s), NEW chk,
           Loadable(chk, transcript[s])
    PROVE  /\ EndsMarked(transcript[s])
           /\ CommitPoint(chk, transcript[s]) = {Len(transcript[s])}
<1> DEFINE log == transcript[s]
<1>1. Len(log) \in Nat
  BY DEF MemoryTypeInv, FilesTypeOK
<1>2. PICK n \in CommitPoint(chk, log) : TailClass(log, n) # "unsafe"
  BY DEF Loadable
<1>3. n \in 1 .. Len(log) /\ log[n].type = "checkpoint_written"
  BY <1>2 DEF CommitPoint, LatestOf
<1>4. n = Len(log)
  <2> SUFFICES ASSUME n < Len(log) PROVE FALSE
    BY <1>1, <1>3
  <2> DEFINE tail == {log[i] : i \in (n + 1) .. Len(log)}
  <2>1. log[Len(log)] \in tail
    BY <1>1, <1>3
  <2>2. log[Len(log)].type \in CommittingEvents
    BY <1>1, <1>3 DEF History
  <2>3. UnsafeEvent(log[Len(log)])
    BY <2>2 DEF UnsafeEvent, CommittingEvents
  <2>4. TailClass(log, n) = "unsafe"
    BY <2>1, <2>3 DEF TailClass
  <2> QED BY <1>2, <2>4
<1>5. \A k \in CommitPoint(chk, log) : k = n
  BY <1>1, <1>2 DEF CommitPoint, LatestOf
<1>6. CommitPoint(chk, log) = {n}
  BY <1>2, <1>5
<1>7. EndsMarked(log)
  BY <1>1, <1>3, <1>4 DEF EndsMarked
<1> QED BY <1>4, <1>6, <1>7

\* ... so a checkpoint that loads is committed, if the session has not gone on.
LEMMA LoadedIsCommitted ==
    ASSUME MemoryTypeInv, NEW s \in Sessions, History(s), NEW chk,
           Loadable(chk, transcript[s])
    PROVE  HasCommitted(s, checkpoint[s].phase)
<1>1. EndsMarked(transcript[s])
  BY LoadedAtEnd
<1>2. Len(transcript[s]) \in Markers(s)
  BY <1>1 DEF EndsMarked, Markers, MemoryTypeInv, FilesTypeOK
<1> QED BY <1>1, <1>2 DEF History, HasCommitted

\* ... and an artifact that stands is what a reader finds there.
LEMMA StandingIsRead ==
    ASSUME MemoryTypeInv, NEW s \in Sessions, History(s), NEW chk, NEW a,
           Loadable(chk, transcript[s]), Stands(s, a),
           a \notin {ActionExecution, OutcomeVerification}
    PROVE  Verified(chk, transcript[s], a)
<1>1. CommitPoint(chk, transcript[s]) = {Len(transcript[s])}
  BY LoadedAtEnd
<1> QED BY <1>1 DEF Verified, Stands

-----------------------------------------------------------------------------
(* Which phase follows which *)

\* What each phase that goes on asks for.
LEMMA PresentByPhase ==
    ASSUME NEW s, Continues(checkpoint[s].phase)
    PROVE  /\ Present(s) \in {Evidence, Hypothesis} <=>
                 checkpoint[s].phase \in {"none", "evidence_reading_completed"}
           /\ Present(s) = Evidence <=> checkpoint[s].phase = "none"
           /\ Present(s) = Recommendation <=>
                 checkpoint[s].phase \in HYPOTHESIS_COMPATIBLE_PHASES
           /\ Present(s) = ActionStub <=>
                 checkpoint[s].phase \in RECOMMENDATION_COMPATIBLE_PHASES
           /\ Present(s) \in {ActionExecution, OutcomeVerification} <=>
                 checkpoint[s].phase \in {"action_stub_approved"} \cup PastRollback
<1> DEFINE phase == checkpoint[s].phase
<1>1. /\ phase \in {"none", "evidence_reading_completed", "action_stub_approved"}
         \/ phase \in HYPOTHESIS_COMPATIBLE_PHASES \/ phase \in RECOMMENDATION_COMPATIBLE_PHASES
         \/ phase \in OUTCOME_VERIFICATION_STEP_ENTRY_PHASES
  BY DEF Continues, OUTCOME_VERIFICATION_STEP_ENTRY_PHASES, ACTION_EXECUTION_PHASES
<1>2. /\ phase = "none" => Present(s) = Evidence
      /\ phase = "evidence_reading_completed" => Present(s) = Hypothesis
      /\ phase \in HYPOTHESIS_COMPATIBLE_PHASES => Present(s) = Recommendation
  BY EarlyArtifacts
<1>3. phase \in RECOMMENDATION_COMPATIBLE_PHASES => Present(s) = ActionStub
  BY DEF Present, NextArtifact, HYPOTHESIS_COMPATIBLE_PHASES, RECOMMENDATION_COMPATIBLE_PHASES,
     OUTCOME_VERIFICATION_STEP_ENTRY_PHASES, ACTION_EXECUTION_PHASES, OUTCOME_VERIFICATION_PHASES
<1>4. /\ phase = "action_stub_approved" => Present(s) = ActionExecution
      /\ phase \in OUTCOME_VERIFICATION_STEP_ENTRY_PHASES => Present(s) = OutcomeVerification
  BY DEF Present, NextArtifact, HYPOTHESIS_COMPATIBLE_PHASES, RECOMMENDATION_COMPATIBLE_PHASES,
     OUTCOME_VERIFICATION_STEP_ENTRY_PHASES, ACTION_EXECUTION_PHASES, OUTCOME_VERIFICATION_PHASES
<1>5. /\ Evidence # Hypothesis /\ Evidence # Recommendation /\ Evidence # ActionStub
      /\ Evidence # ActionExecution /\ Evidence # OutcomeVerification
      /\ Hypothesis # Recommendation /\ Hypothesis # ActionStub
      /\ Hypothesis # ActionExecution /\ Hypothesis # OutcomeVerification
      /\ Recommendation # ActionStub /\ Recommendation # ActionExecution
      /\ Recommendation # OutcomeVerification /\ ActionStub # ActionExecution
      /\ ActionStub # OutcomeVerification
  BY DEF Evidence, Hypothesis, Recommendation, ActionStub, ActionExecution,
     OutcomeVerification, Artifact
<1>6. /\ "none" \notin HYPOTHESIS_COMPATIBLE_PHASES \cup RECOMMENDATION_COMPATIBLE_PHASES
                         \cup {"action_stub_approved"} \cup PastRollback
      /\ "evidence_reading_completed" \notin HYPOTHESIS_COMPATIBLE_PHASES
             \cup RECOMMENDATION_COMPATIBLE_PHASES \cup {"action_stub_approved"} \cup PastRollback
      /\ HYPOTHESIS_COMPATIBLE_PHASES \cap (RECOMMENDATION_COMPATIBLE_PHASES
             \cup {"action_stub_approved"} \cup PastRollback) = {}
      /\ RECOMMENDATION_COMPATIBLE_PHASES \cap ({"action_stub_approved"} \cup PastRollback) = {}
  BY DEF HYPOTHESIS_COMPATIBLE_PHASES, RECOMMENDATION_COMPATIBLE_PHASES, PastRollback,
     ACTION_EXECUTION_PHASES, OUTCOME_VERIFICATION_PHASES
<1>7. OUTCOME_VERIFICATION_STEP_ENTRY_PHASES = PastRollback
  BY DEF OUTCOME_VERIFICATION_STEP_ENTRY_PHASES, PastRollback
<1> HIDE DEF phase
<1>8. CASE phase \in {"none", "evidence_reading_completed"}
  BY <1>2, <1>5, <1>6, <1>8 DEF phase
<1>9. CASE phase \in HYPOTHESIS_COMPATIBLE_PHASES
  BY <1>2, <1>5, <1>6, <1>9 DEF phase
<1>10. CASE phase \in RECOMMENDATION_COMPATIBLE_PHASES
  BY <1>3, <1>5, <1>6, <1>10 DEF phase
<1>11. CASE phase \in {"action_stub_approved"} \cup PastRollback
  BY <1>4, <1>5, <1>6, <1>7, <1>11 DEF phase
<1> QED BY <1>1, <1>7, <1>8, <1>9, <1>10, <1>11

\* A stub's verdict leads to a phase of the stub's.
LEMMA PhaseAfterStub ==
    ASSUME NEW v \in {"pass", "fail", "unverified"}, NEW r
    PROVE  PhaseAfter(ActionStub, v, r) \in ACTION_STUB_PHASES
<1>1. ActionStub # Hypothesis /\ ActionStub # Recommendation
  BY DEF Hypothesis, Recommendation, ActionStub, Artifact
<1>2. \/ PhaseAfter(ActionStub, v, r) = "action_stub_pending_approval"
      \/ PhaseAfter(ActionStub, v, r) = PhaseNames["stub"][v]
  BY <1>1, SliceOfArtifact DEF PhaseAfter
<1> QED BY <1>2 DEF PhaseNames, ACTION_STUB_PHASES

\* The three families of phases share nothing with what comes before them.
LEMMA FamiliesApart ==
    /\ EVIDENCE_READING_PHASES \cap PastHypothesis = {}
    /\ HYPOTHESIS_PHASES \cap (RECOMMENDATION_PHASES \cup Phases) = {}
    /\ RECOMMENDATION_PHASES \cap Phases = {}
    /\ HYPOTHESIS_COMPATIBLE_PHASES \subseteq HYPOTHESIS_PHASES
    /\ RECOMMENDATION_COMPATIBLE_PHASES \subseteq RECOMMENDATION_PHASES
    /\ ACTION_STUB_PHASES \cap PastRollback = {}
    /\ PastRollback \subseteq Phases /\ ACTION_STUB_PHASES \subseteq Phases
    /\ "none" \notin PastHypothesis /\ "evidence_reading_completed" \notin PastHypothesis
BY DEF EVIDENCE_READING_PHASES, HYPOTHESIS_PHASES, RECOMMENDATION_PHASES, PastHypothesis,
   HYPOTHESIS_COMPATIBLE_PHASES, RECOMMENDATION_COMPATIBLE_PHASES, PastRollback, Phases,
   ACTION_STUB_PHASES, ACTION_EXECUTION_PHASES, OUTCOME_VERIFICATION_PHASES

\* Where a commit leads: never back, and past a slice only by its verdict (the
\* _current_phase of the steps, and the approval's answer).
LEMMA CommitsMoveOn ==
    ASSUME MemoryTypeInv, NEW s \in Sessions, pc[s] = "save"
    PROVE  /\ checkpoint[s].phase \in PastHypothesis => Committing(s).phase \in PastHypothesis
           /\ checkpoint[s].phase \in AfterRecommendation =>
                 Committing(s).phase \in AfterRecommendation
           /\ Committing(s).phase \in PastHypothesis =>
                 \/ checkpoint[s].phase \in PastHypothesis
                 \/ verdict[s] = "pass" /\ Present(s) = Hypothesis
           /\ Committing(s).phase \in AfterRecommendation =>
                 \/ checkpoint[s].phase \in AfterRecommendation
                 \/ verdict[s] = "pass" /\ Present(s) = Recommendation
           /\ Committing(s).phase \in PastRollback =>
                 checkpoint[s].phase \in {"action_stub_approved"} \cup PastRollback
<1> DEFINE phase == checkpoint[s].phase
           next == Committing(s).phase
<1>1. CASE verdict[s] \in {"approved", "denied"}
  <2>1. phase = "action_stub_pending_approval"
    BY <1>1 DEF MemoryTypeInv, PhaseAtWork
  <2>2. next \in {"action_stub_approved", "action_stub_denied"}
    BY <1>1 DEF Committing, CheckpointOf
  <2>3. phase \in ACTION_STUB_PHASES /\ next \in ACTION_STUB_PHASES
    BY <2>1, <2>2 DEF ACTION_STUB_PHASES
  <2> QED BY <2>3, FamiliesApart DEF PastHypothesis, AfterRecommendation
<1>2. CASE verdict[s] \notin {"approved", "denied"}
  <2> DEFINE a == Present(s)
             v == verdict[s]
  <2>1. v \in {"pass", "fail", "unverified"} /\ Continues(phase) /\ a \in Artifacts
    BY <1>2, PresentArtifact DEF MemoryTypeInv, PhaseAtWork
  <2>2. next = PhaseAfter(a, v, reading[s])
    BY <1>2 DEF Committing, CheckpointOf
  <2>3. /\ a = Evidence <=> phase = "none"
        /\ a \in {Evidence, Hypothesis} <=> phase \in {"none", "evidence_reading_completed"}
        /\ a = Recommendation <=> phase \in HYPOTHESIS_COMPATIBLE_PHASES
        /\ a = ActionStub <=> phase \in RECOMMENDATION_COMPATIBLE_PHASES
        /\ a \in {ActionExecution, OutcomeVerification} <=>
              phase \in {"action_stub_approved"} \cup PastRollback
    BY <2>1, PresentByPhase
  <2> HIDE DEF a, v, phase, next
  <2>4. CASE a = Evidence
    <3>1. next \in EVIDENCE_READING_PHASES /\ phase = "none"
      BY <2>1, <2>2, <2>3, <2>4, PhaseAfterArtifact
    <3> QED BY <3>1, FamiliesApart DEF PastHypothesis, AfterRecommendation, phase, next
  <2>5. CASE a = Hypothesis
    <3>1. /\ next \in HYPOTHESIS_PHASES /\ phase \in {"none", "evidence_reading_completed"}
          /\ v # "pass" => next \notin HYPOTHESIS_COMPATIBLE_PHASES
      BY <2>1, <2>2, <2>3, <2>5, PhaseAfterArtifact
    <3> QED BY <2>5, <3>1, FamiliesApart
            DEF PastHypothesis, AfterRecommendation, phase, next, a, v
  <2>6. CASE a = Recommendation
    <3>1. /\ next \in RECOMMENDATION_PHASES /\ phase \in HYPOTHESIS_COMPATIBLE_PHASES
          /\ v # "pass" => next \notin RECOMMENDATION_COMPATIBLE_PHASES
      BY <2>1, <2>2, <2>3, <2>6, PhaseAfterArtifact
    <3> QED BY <2>6, <3>1, FamiliesApart
            DEF PastHypothesis, AfterRecommendation, phase, next, a, v
  <2>7. CASE a = ActionStub
    <3>1. next \in ACTION_STUB_PHASES /\ phase \in RECOMMENDATION_COMPATIBLE_PHASES
      BY <2>1, <2>2, <2>3, <2>7, PhaseAfterStub
    <3> QED BY <3>1, FamiliesApart DEF PastHypothesis, AfterRecommendation, phase, next
  <2>8. CASE a \in {ActionExecution, OutcomeVerification}
    <3>1. next \in Phases /\ phase \in {"action_stub_approved"} \cup PastRollback
      BY <2>1, <2>2, <2>3, <2>8, PhaseAfterArtifact
    <3>2. phase \in Phases
      BY <3>1, FamiliesApart DEF Phases, ACTION_STUB_PHASES
    <3> QED BY <3>1, <3>2 DEF PastHypothesis, AfterRecommendation, phase, next
  <2> QED BY <2>1, <2>4, <2>5, <2>6, <2>7, <2>8 DEF Artifacts
<1> QED BY <1>1, <1>2

-----------------------------------------------------------------------------
(* The session's part of the invariant *)

Untouched(s) ==
    /\ checkpoint'[s] = checkpoint[s] /\ transcript'[s] = transcript[s]
    /\ \/ pc'[s] = pc[s] /\ verdict'[s] = verdict[s]
       \/ pc'[s] \in {"idle", "write_memory"}

\* What a step may do to a session's files: leave them, append, commit or mark.
LEMMA SessionSteps ==
    ASSUME MemoryTypeInv, [Next]_memoryVars, NEW r \in Sessions
    PROVE  \/ Untouched(r)
           \/ RunSlice(r) \/ ResolveApproval(r) \/ SaveCheckpoint(r) \/ MarkCheckpoint(r)
<1> USE DEF MemoryTypeInv, FilesTypeOK, WorkTypeOK
<1>1. ASSUME NEW s \in Sessions, s # r,
             RunSlice(s) \/ ResolveApproval(s) \/ SaveCheckpoint(s) \/ MarkCheckpoint(s)
      PROVE  Untouched(r)
  <2>1. CASE RunSlice(s)
    BY <1>1, <2>1 DEF RunSlice, Goto, Untouched
  <2>2. CASE ResolveApproval(s)
    BY <1>1, <2>2 DEF ResolveApproval, Goto, Untouched
  <2>3. CASE SaveCheckpoint(s)
    BY <1>1, <2>3 DEF SaveCheckpoint, Goto, Untouched
  <2>4. CASE MarkCheckpoint(s)
    BY <1>1, <2>4 DEF MarkCheckpoint, Goto, Finish, Untouched
  <2> QED BY <1>1, <2>1, <2>2, <2>3, <2>4
<1>2. ASSUME NEW s \in Sessions,
             ReadMemory(s) \/ WriteMemory(s) \/ CrashSession(s) \/ CrashMidMemory(s)
      PROVE  Untouched(r)
  <2>1. checkpoint' = checkpoint /\ transcript' = transcript
    BY <1>2 DEF ReadMemory, WriteMemory, CrashSession, CrashMidMemory, files
  <2>2. CASE Finish(s)
    BY <2>1, <2>2 DEF Finish, Goto, Untouched
  <2>3. CASE ReadMemory(s) /\ ~Finish(s)
    BY <2>1, <2>3 DEF ReadMemory, Goto, Untouched
  <2> QED BY <1>2, <2>2, <2>3 DEF WriteMemory, CrashSession, CrashMidMemory
<1>3. ASSUME NEW x \in Exporters, Export(x) PROVE Untouched(r)
  BY <1>3 DEF Export, BeginExport, LoadForExport, Assemble, WriteHandoff, CrashMidHandoff,
     files, work, Untouched
<1>4. CASE UNCHANGED memoryVars
  BY <1>4 DEF memoryVars, files, work, Untouched
<1> QED BY <1>1, <1>2, <1>3, <1>4 DEF Next, Session

\* What a slice appends: a result and a verdict of the artifact its phase asks for.
LEMMA SliceAppends ==
    ASSUME MemoryTypeInv, NEW s \in Sessions, RunSlice(s)
    PROVE  \E v \in {"pass", "fail", "unverified"}, e \in Events, f \in Events :
               /\ transcript'[s] = transcript[s] \o <<e, f>>
               /\ e = Event("tool_result", Present(s).tool, checkpoint[s].step + 1,
                            IF v = "unverified" THEN "failed" ELSE "succeeded")
               /\ f = Event("verifier_result", Present(s).verifier, checkpoint[s].step + 1, v)
               /\ verdict'[s] = v /\ pc'[s] = "save" /\ checkpoint' = checkpoint
               /\ Present(s) \in Artifacts /\ checkpoint[s].step + 1 \in Nat
<1> USE DEF MemoryTypeInv, FilesTypeOK, WorkTypeOK
<1>1. PICK v \in Verdicts :
          /\ verdict' = [verdict EXCEPT ![s] = v]
          /\ transcript' = [transcript EXCEPT ![s] = @ \o
                <<Event("tool_result", Present(s).tool, checkpoint[s].step + 1,
                        IF v = "unverified" THEN "failed" ELSE "succeeded"),
                  Event("verifier_result", Present(s).verifier, checkpoint[s].step + 1, v)>>]
  BY DEF RunSlice
<1>2. v \in {"pass", "fail", "unverified"} /\ Present(s) \in Artifacts
      /\ checkpoint[s].step + 1 \in Nat
  BY MemoryVerdictsAssumption, PresentArtifact DEF RunSlice, Checkpoints
<1>3. PICK e : e = Event("tool_result", Present(s).tool, checkpoint[s].step + 1,
                         IF v = "unverified" THEN "failed" ELSE "succeeded")
  OBVIOUS
<1>4. PICK f : f = Event("verifier_result", Present(s).verifier, checkpoint[s].step + 1, v)
  OBVIOUS
<1>5. e \in Events /\ f \in Events
  BY <1>2, <1>3, <1>4, SliceEvents
<1>6. /\ transcript'[s] = transcript[s] \o <<e, f>> /\ verdict'[s] = v
      /\ pc'[s] = "save" /\ checkpoint' = checkpoint
  BY <1>1, <1>3, <1>4 DEF RunSlice, Goto
<1> QED BY <1>2, <1>3, <1>4, <1>5, <1>6

\* No two artifacts are told by the same names.
LEMMA NamesApart ==
    ASSUME NEW a \in {Hypothesis, Recommendation}, NEW b \in Artifacts, a # b
    PROVE  a.tool # b.tool /\ a.verifier # b.verifier
BY DEF Artifacts, Evidence, Hypothesis, Recommendation, ActionStub, ActionExecution,
   OutcomeVerification, Artifact

\* What an append of one event that is no artifact's does to a record: nothing.
LEMMA RecordKept ==
    ASSUME NEW log \in Seq(Events), NEW e \in Events, NEW a,
           e.type \in {"approval_resolved", "checkpoint_written"}
    PROVE  VerifiedRecord(Append(log, e), Len(Append(log, e)), a)
               = VerifiedRecord(log, Len(log), a)
<1>1. PICK later : later = Append(log, e)
  OBVIOUS
<1>2. /\ later \in Seq(Events) /\ Extends(later, log)
      /\ \A i \in Len(log) + 1 .. Len(later) : later[i] = e
  BY <1>1, AppendEvent DEF Extends
<1>3. VerifiedRecord(later, Len(later), a) = VerifiedRecord(log, Len(log), a)
  <2>1. \A i \in Len(log) + 1 .. Len(later) :
            /\ later[i].type \in {"tool_request", "tool_result"} => later[i].name # a.tool
            /\ later[i].type \in {"verifier_request", "verifier_result"} =>
                  later[i].name # a.verifier
    BY <1>2
  <2> QED BY <1>2, <2>1, RecordFramed
<1> QED BY <1>1, <1>3

\* What another artifact's result and verdict do to a record: nothing.
LEMMA OtherRecordKept ==
    ASSUME NEW log \in Seq(Events), NEW e \in Events, NEW f \in Events, NEW a, NEW b,
           a.tool # b.tool, a.verifier # b.verifier,
           e.type = "tool_result", e.name = b.tool,
           f.type = "verifier_result", f.name = b.verifier
    PROVE  VerifiedRecord(log \o <<e, f>>, Len(log \o <<e, f>>), a)
               = VerifiedRecord(log, Len(log), a)
<1>1. PICK later : later = log \o <<e, f>>
  OBVIOUS
<1>2. /\ later \in Seq(Events) /\ Extends(later, log)
      /\ \A i \in Len(log) + 1 .. Len(later) : later[i] = e \/ later[i] = f
  BY <1>1 DEF Extends
<1>3. VerifiedRecord(later, Len(later), a) = VerifiedRecord(log, Len(log), a)
  <2>1. \A i \in Len(log) + 1 .. Len(later) :
            /\ later[i].type \in {"tool_request", "tool_result"} => later[i].name # a.tool
            /\ later[i].type \in {"verifier_request", "verifier_result"} =>
                  later[i].name # a.verifier
    BY <1>2
  <2> QED BY <1>2, <2>1, RecordFramed
<1> QED BY <1>1, <1>3

\* Every step keeps what the transcripts and checkpoints say of each other.
LEMMA NextHistory ==
    ASSUME MemoryTypeInv, \A s \in Sessions : History(s), [Next]_memoryVars,
           NEW r \in Sessions
    PROVE  History(r)'
<1> USE DEF MemoryTypeInv, FilesTypeOK, WorkTypeOK
<1>0. /\ History(r) /\ transcript[r] \in Seq(Events) /\ Len(transcript[r]) \in Nat
      /\ checkpoint[r] \in Checkpoints
  OBVIOUS
<1>1. PICK p, q : p = checkpoint[r].phase /\ q = checkpoint'[r].phase
  OBVIOUS
<1>2. /\ HasCommitted(r, p) => HasCommitted(r, p)'
      /\ HasCommitted(r, "action_stub_approved") => HasCommitted(r, "action_stub_approved")'
  BY HistoryKept
<1>3. SUFFICES ASSUME TRUE
      PROVE  /\ \A i \in 1 .. Len(transcript'[r]) : transcript'[r][i].type \in CommittingEvents
             /\ pc'[r] \in {"save", "mark"} =>
                   Len(transcript'[r]) > 0 /\ ~EndsMarked(transcript'[r])
             /\ EndsMarked(transcript'[r]) => transcript'[r][Len(transcript'[r])].status = q
             /\ pc'[r] = "save" => checkpoint'[r] = NoCheckpoint \/ HasCommitted(r, q)'
             /\ q \in PastRollback => HasCommitted(r, "action_stub_approved")'
  BY <1>1 DEF History, HasCommitted, Markers
<1>4. CASE Untouched(r)
  BY <1>0, <1>1, <1>2, <1>4 DEF Untouched, History
<1>5. CASE RunSlice(r)
  <2>1. PICK v \in {"pass", "fail", "unverified"}, e \in Events, f \in Events :
            /\ transcript'[r] = transcript[r] \o <<e, f>>
            /\ e = Event("tool_result", Present(r).tool, checkpoint[r].step + 1,
                         IF v = "unverified" THEN "failed" ELSE "succeeded")
            /\ f = Event("verifier_result", Present(r).verifier, checkpoint[r].step + 1, v)
            /\ verdict'[r] = v /\ pc'[r] = "save" /\ checkpoint' = checkpoint
            /\ Present(r) \in Artifacts /\ checkpoint[r].step + 1 \in Nat
    BY <1>5, SliceAppends
  <2>2. e.type = "tool_result" /\ f.type = "verifier_result"
    BY <2>1 DEF Event
  <2>3. \A i \in 1 .. Len(transcript'[r]) :
            \/ i \in 1 .. Len(transcript[r]) /\ transcript'[r][i] = transcript[r][i]
            \/ transcript'[r][i] = e
            \/ transcript'[r][i] = f
    BY <1>0, <2>1
  <2>4. \A i \in 1 .. Len(transcript'[r]) : transcript'[r][i].type \in CommittingEvents
    BY <1>0, <2>2, <2>3 DEF History, CommittingEvents
  <2>5. Len(transcript'[r]) > 0 /\ transcript'[r][Len(transcript'[r])] = f
    BY <1>0, <2>1
  <2>6. checkpoint[r] = NoCheckpoint \/ HasCommitted(r, p)
    BY <1>0, <1>1, <1>5, LoadedIsCommitted DEF RunSlice, Resumes
  <2> QED BY <1>0, <1>1, <1>2, <2>1, <2>2, <2>4, <2>5, <2>6 DEF EndsMarked, History
<1>6. CASE ResolveApproval(r)
  <2>0. PICK d \in {"approved", "denied"} :
            transcript' = [transcript EXCEPT ![r] = Append(@,
                Event("approval_resolved", "operator", checkpoint[r].step + 1, d))]
    BY <1>6 DEF ResolveApproval
  <2>00. PICK e : e = Event("approval_resolved", "operator", checkpoint[r].step + 1, d)
    OBVIOUS
  <2>1. /\ transcript'[r] = Append(transcript[r], e)
        /\ e.type = "approval_resolved"
        /\ checkpoint' = checkpoint /\ pc'[r] = "save"
    <3>1. transcript'[r] = Append(transcript[r], e)
      BY <2>0, <2>00
    <3>2. e.type = "approval_resolved"
      BY <2>00 DEF Event
    <3> QED BY <1>6, <3>1, <3>2 DEF ResolveApproval, Goto
  <2>2. /\ Len(transcript'[r]) = Len(transcript[r]) + 1
        /\ transcript'[r][Len(transcript'[r])] = e
        /\ \A i \in 1 .. Len(transcript'[r]) :
              \/ i \in 1 .. Len(transcript[r]) /\ transcript'[r][i] = transcript[r][i]
              \/ transcript'[r][i] = e
    BY <1>0, <2>1
  <2>3. \A i \in 1 .. Len(transcript'[r]) : transcript'[r][i].type \in CommittingEvents
    BY <1>0, <2>1, <2>2 DEF History, CommittingEvents
  <2>4. checkpoint[r] = NoCheckpoint \/ HasCommitted(r, p)
    BY <1>0, <1>1, <1>6, LoadedIsCommitted DEF ResolveApproval, Resumes
  <2> QED BY <1>0, <1>1, <1>2, <2>1, <2>2, <2>3, <2>4 DEF EndsMarked, History
<1>7. CASE SaveCheckpoint(r)
  <2>1. /\ transcript'[r] = transcript[r] /\ pc[r] = "save" /\ pc'[r] = "mark"
        /\ checkpoint'[r] = Committing(r)
    BY <1>7 DEF SaveCheckpoint, Goto
  <2>2. q \in PastRollback => p \in {"action_stub_approved"} \cup PastRollback
    BY <1>1, <2>1, CommitsMoveOn
  <2>3. q \in PastRollback => HasCommitted(r, "action_stub_approved")
    <3>1. CASE p \in PastRollback
      BY <1>0, <1>1, <3>1 DEF History
    <3>2. CASE p = "action_stub_approved"
      <4>0. NoCheckpoint.phase = "none"
        BY DEF NoCheckpoint
      <4>1. checkpoint[r] # NoCheckpoint
        BY <1>1, <3>2, <4>0
      <4>2. HasCommitted(r, checkpoint[r].phase)
        BY <1>0, <2>1, <4>1 DEF History
      <4> QED BY <1>1, <3>2, <4>2
    <3> QED BY <2>2, <3>1, <3>2
  <2> QED BY <1>0, <1>1, <1>2, <2>1, <2>3 DEF History
<1>8. CASE MarkCheckpoint(r)
  <2>1. PICK e : e = Marker(checkpoint[r], checkpoint[r].step)
    OBVIOUS
  <2>2. /\ transcript'[r] = Append(transcript[r], e)
        /\ checkpoint' = checkpoint /\ pc'[r] \notin {"save", "mark"}
    BY <1>8, <2>1 DEF MarkCheckpoint, Goto, Finish
  <2>3. e.type = "checkpoint_written" /\ e.status = p
    BY <1>1, <2>1 DEF Marker
  <2>4. /\ Len(transcript'[r]) = Len(transcript[r]) + 1
        /\ transcript'[r][Len(transcript'[r])] = e
        /\ \A i \in 1 .. Len(transcript'[r]) :
              \/ i \in 1 .. Len(transcript[r]) /\ transcript'[r][i] = transcript[r][i]
              \/ transcript'[r][i] = e
    BY <1>0, <2>2
  <2>5. \A i \in 1 .. Len(transcript'[r]) : transcript'[r][i].type \in CommittingEvents
    BY <1>0, <2>3, <2>4 DEF History, CommittingEvents
  <2> QED BY <1>0, <1>1, <1>2, <2>2, <2>3, <2>4, <2>5 DEF History
<1> QED BY <1>4, <1>5, <1>6, <1>7, <1>8, SessionSteps

\* Every step keeps the records that phases stand on.
LEMMA NextStanding ==
    ASSUME MemoryTypeInv, \A s \in Sessions : History(s) /\ Standing(s), [Next]_memoryVars,
           NEW r \in Sessions
    PROVE  Standing(r)'
<1> USE DEF MemoryTypeInv, FilesTypeOK, WorkTypeOK
<1>0. /\ History(r) /\ Standing(r) /\ transcript[r] \in Seq(Events)
      /\ checkpoint[r] \in Checkpoints
  OBVIOUS
<1>1. CASE Untouched(r)
  <2>1. Present(r)' = Present(r) /\ \A a : Stands(r, a)' <=> Stands(r, a)
    BY <1>1 DEF Untouched, Present, Stands
  <2> QED BY <1>0, <1>1, <2>1 DEF Untouched, Standing
<1>2. CASE RunSlice(r)
  <2>1. PICK v \in {"pass", "fail", "unverified"}, e \in Events, f \in Events :
            /\ transcript'[r] = transcript[r] \o <<e, f>>
            /\ e = Event("tool_result", Present(r).tool, checkpoint[r].step + 1,
                         IF v = "unverified" THEN "failed" ELSE "succeeded")
            /\ f = Event("verifier_result", Present(r).verifier, checkpoint[r].step + 1, v)
            /\ verdict'[r] = v /\ pc'[r] = "save" /\ checkpoint' = checkpoint
            /\ Present(r) \in Artifacts /\ checkpoint[r].step + 1 \in Nat
    BY <1>2, SliceAppends
  <2>2. /\ e.type = "tool_result" /\ e.name = Present(r).tool
        /\ f.type = "verifier_result" /\ f.name = Present(r).verifier
    BY <2>1 DEF Event
  <2>3. ASSUME NEW a \in {Hypothesis, Recommendation}, a # Present(r), Stands(r, a)
        PROVE  Stands(r, a)'
    <3>1. a.tool # Present(r).tool /\ a.verifier # Present(r).verifier
      BY <2>1, <2>3, NamesApart
    <3>2. VerifiedRecord(transcript'[r], Len(transcript'[r]), a)
              = VerifiedRecord(transcript[r], Len(transcript[r]), a)
      BY <1>0, <2>1, <2>2, <3>1, OtherRecordKept
    <3> QED BY <2>3, <3>2 DEF Stands
  <2>4. v = "pass" => Stands(r, Present(r))'
    <3> SUFFICES ASSUME v = "pass"
                 PROVE  VerifiedRecord(transcript'[r], Len(transcript'[r]), Present(r))
                            = "artifact"
      <4>1. Present(r)' = Present(r)
        BY <2>1 DEF Present
      <4> QED BY <4>1 DEF Stands
    <3>1. \A i \in 1 .. Len(transcript[r]) : transcript[r][i].type # "tool_request"
      BY <1>0 DEF History, CommittingEvents
    <3>2. e = Event("tool_result", Present(r).tool, checkpoint[r].step + 1, "succeeded")
      BY <2>1
    <3>3. f = Event("verifier_result", Present(r).verifier, checkpoint[r].step + 1, "pass")
      BY <2>1
    <3> QED BY <1>0, <2>1, <3>1, <3>2, <3>3, RecordFresh
  <2>5. Continues(checkpoint[r].phase)
    BY <1>2 DEF RunSlice
  <2>6. checkpoint[r].phase \in PastHypothesis => Present(r) # Hypothesis
    BY <2>5, PresentByPhase, FamiliesApart
  <2>7. checkpoint[r].phase \in AfterRecommendation => Present(r) # Recommendation
    BY <2>5, PresentByPhase, FamiliesApart DEF AfterRecommendation
  <2>8. /\ checkpoint[r].phase \in PastHypothesis => Stands(r, Hypothesis)'
        /\ checkpoint[r].phase \in AfterRecommendation => Stands(r, Recommendation)'
    BY <1>0, <2>3, <2>6, <2>7 DEF Standing
  <2> QED BY <2>1, <2>4, <2>8 DEF Standing
<1>3. CASE ResolveApproval(r) \/ MarkCheckpoint(r)
  <2>1. \E e \in Events : /\ transcript'[r] = Append(transcript[r], e)
                          /\ e.type \in {"approval_resolved", "checkpoint_written"}
    <3>1. CASE ResolveApproval(r)
      <4>1. PICK d \in {"approved", "denied"} :
                transcript'[r] = Append(transcript[r],
                    Event("approval_resolved", "operator", checkpoint[r].step + 1, d))
        BY <3>1 DEF ResolveApproval
      <4>2. PICK e : e = Event("approval_resolved", "operator", checkpoint[r].step + 1, d)
        OBVIOUS
      <4>3. checkpoint[r].step + 1 \in Nat
        BY <1>0 DEF Checkpoints
      <4>4. e \in Events /\ e.type = "approval_resolved"
        BY <4>2, <4>3 DEF Event, Events, EventTypes, EventNames, Statuses
      <4> QED BY <4>1, <4>2, <4>4
    <3>2. CASE MarkCheckpoint(r)
      <4>1. PICK e : e = Marker(checkpoint[r], checkpoint[r].step)
        OBVIOUS
      <4>2. e \in Events /\ e.type = "checkpoint_written"
        <5>1. e.type = "checkpoint_written"
          BY <4>1 DEF Marker
        <5> QED BY <1>0, <4>1, <5>1, MarkerEvent
      <4>3. transcript'[r] = Append(transcript[r], e)
        BY <3>2, <4>1 DEF MarkCheckpoint
      <4> QED BY <4>2, <4>3
    <3> QED BY <1>3, <3>1, <3>2
  <2>2. \A a : Stands(r, a) => Stands(r, a)'
    BY <1>0, <2>1, RecordKept DEF Stands
  <2>3. checkpoint' = checkpoint /\ ~(pc'[r] = "save" /\ verdict'[r] = "pass")
    BY <1>3 DEF ResolveApproval, MarkCheckpoint, Goto, Finish
  <2> QED BY <1>0, <2>2, <2>3 DEF Standing
<1>4. CASE SaveCheckpoint(r)
  <2>1. /\ transcript'[r] = transcript[r] /\ pc[r] = "save" /\ pc'[r] = "mark"
        /\ checkpoint'[r] = Committing(r)
    BY <1>4 DEF SaveCheckpoint, Goto
  <2>2. \A a : Stands(r, a) => Stands(r, a)'
    BY <2>1 DEF Stands
  <2>3. /\ Committing(r).phase \in PastHypothesis => Stands(r, Hypothesis)
        /\ Committing(r).phase \in AfterRecommendation => Stands(r, Recommendation)
    BY <1>0, <2>1, CommitsMoveOn DEF Standing
  <2> QED BY <2>1, <2>2, <2>3 DEF Standing
<1> QED BY <1>1, <1>2, <1>3, <1>4, SessionSteps


-----------------------------------------------------------------------------
(* What an export has in hand *)

\* The session goes on under an export, but never back.
LEMMA SessionMovesOn ==
    ASSUME MemoryTypeInv, NEW s \in Sessions, History(s), [Next]_memoryVars
    PROVE  /\ checkpoint[s].phase \in PastHypothesis => checkpoint'[s].phase \in PastHypothesis
           /\ checkpoint[s].phase \in AfterRecommendation =>
                 checkpoint'[s].phase \in AfterRecommendation
           /\ \/ checkpoint'[s] = checkpoint[s]
              \/ checkpoint[s] = NoCheckpoint
              \/ HasCommitted(s, checkpoint[s].phase)
<1>1. CASE Untouched(s)
  BY <1>1 DEF Untouched
<1>2. CASE RunSlice(s) \/ ResolveApproval(s) \/ MarkCheckpoint(s)
  BY <1>2 DEF RunSlice, ResolveApproval, MarkCheckpoint
<1>3. CASE SaveCheckpoint(s)
  <2>1. pc[s] = "save" /\ checkpoint'[s] = Committing(s)
    BY <1>3 DEF SaveCheckpoint, MemoryTypeInv, FilesTypeOK
  <2> QED BY <2>1, CommitsMoveOn DEF History
<1> QED BY <1>1, <1>2, <1>3, SessionSteps

\* What backs a handoff backs it for good.
LEMMA BackingKept ==
    ASSUME MemoryTypeInv, [Next]_memoryVars, NEW h, BacksItsPhase(h)
    PROVE  BacksItsPhase(h)'
<1> SUFFICES ASSUME h.source \in Sessions PROVE BacksItsPhase(h)'
  BY DEF BacksItsPhase
<1>1. PICK s \in Sessions : s = h.source
  OBVIOUS
<1>2. /\ HasCommitted(s, h.phase) => HasCommitted(s, h.phase)'
      /\ HasCommitted(s, "action_stub_approved") => HasCommitted(s, "action_stub_approved")'
  BY HistoryKept
<1>3. /\ HasCommitted(s, h.phase)'
      /\ h.approval = "approved" => HasCommitted(s, "action_stub_approved")'
      /\ \A kind \in PromisedBy(h.phase) : h[kind] = s
  BY <1>1, <1>2 DEF BacksItsPhase
<1> QED BY <1>1, <1>3 DEF BacksItsPhase

\* Nothing is claimed of a handoff of no session.
LEMMA EmptyHandoffs == BacksItsPhase(NoHandoff) /\ BacksItsPhase(TornHandoff)
  BY MemoryNamesAssumption DEF BacksItsPhase, NoHandoff, TornHandoff

\* What a step may do to one export.
LEMMA OneExport ==
    ASSUME ExportTypeOK, [Next]_memoryVars, NEW x \in Exporters
    PROVE  \/ draft'[x] = draft[x] /\ at'[x] = at[x] /\ view'[x] = view[x]
           \/ at'[x] = "idle" /\ draft'[x] = NoHandoff
           \/ \E s \in Sessions : BeginExport(x, s)
           \/ LoadForExport(x) /\ Exportable(view[x].context, transcript[view[x].session])
           \/ Assemble(x) /\ memory # TornMemory
<1> USE DEF ExportTypeOK
<1>1. CASE UNCHANGED export
  BY <1>1 DEF export
<1>2. ASSUME NEW s \in Sessions, Session(s) PROVE UNCHANGED export
  BY <1>2 DEF Session, RunSlice, ResolveApproval, SaveCheckpoint, MarkCheckpoint, ReadMemory,
     WriteMemory, CrashSession, CrashMidMemory
<1>3. CASE Export(x)
  <2>1. EndExport(x) => at'[x] = "idle" /\ draft'[x] = NoHandoff
    BY DEF EndExport
  <2> QED BY <1>3, <2>1 DEF Export, LoadForExport, Assemble, WriteHandoff, CrashMidHandoff
<1>4. ASSUME NEW y \in Exporters, Export(y), x # y
      PROVE  draft'[x] = draft[x] /\ at'[x] = at[x] /\ view'[x] = view[x]
  BY <1>4 DEF Export, BeginExport, LoadForExport, Assemble, WriteHandoff, CrashMidHandoff,
     EndExport
<1> QED BY <1>1, <1>2, <1>3, <1>4 DEF Next, memoryVars

\* An export that holds its view keeps what it was read for, while the session goes on.
LEMMA InHandKept ==
    ASSUME MemoryTypeInv, [Next]_memoryVars, NEW x \in Exporters, NEW s \in Sessions,
           History(s), InHand(x, s, view[x].context),
           at'[x] = at[x], view'[x] = view[x]
    PROVE  InHand(x, s, view[x].context)'
<1>1. PICK context : context = view[x].context
  OBVIOUS
<1>2. \A phase : HasCommitted(s, phase) => HasCommitted(s, phase)'
  BY HistoryKept
<1>3. /\ checkpoint[s].phase \in PastHypothesis => checkpoint'[s].phase \in PastHypothesis
      /\ checkpoint[s].phase \in AfterRecommendation =>
            checkpoint'[s].phase \in AfterRecommendation
      /\ \/ checkpoint'[s] = checkpoint[s]
         \/ checkpoint[s] = NoCheckpoint
         \/ HasCommitted(s, checkpoint[s].phase)
  BY SessionMovesOn
<1>4. /\ HasCommitted(s, context.phase) => HasCommitted(s, context.phase)'
      /\ HasCommitted(s, "action_stub_approved") => HasCommitted(s, "action_stub_approved")'
  BY <1>2
<1>5. InHand(x, s, context)'
  BY <1>1, <1>3, <1>4 DEF InHand
<1>6. view'[x].context = context
  BY <1>1
<1> QED BY <1>5, <1>6 DEF InHand, HasCommitted, Markers

\* What is begun is of the checkpoint as it is.
LEMMA BegunInHand ==
    ASSUME MemoryTypeInv, NEW x \in Exporters, NEW s \in Sessions, History(s), BeginExport(x, s)
    PROVE  /\ view'[x].session = s /\ draft'[x] = draft[x]
           /\ InHand(x, s, view[x].context)'
<1>1. /\ view'[x].session = s /\ view'[x].context = checkpoint[s] /\ at'[x] = "load"
      /\ draft' = draft /\ checkpoint' = checkpoint /\ transcript' = transcript
  BY DEF BeginExport, MemoryTypeInv, ExportTypeOK, files
<1>2. AfterHypothesis \subseteq PastHypothesis
  BY DEF AfterHypothesis, PastHypothesis, RECOMMENDATION_COMPATIBLE_PHASES, RECOMMENDATION_PHASES
<1>3. checkpoint[s].phase \in PastRollback => HasCommitted(s, "action_stub_approved")
  BY DEF History
<1> QED BY <1>1, <1>2, <1>3 DEF InHand, HasCommitted, Markers

\* What is loaded is committed, and every output its phase promises is read.
LEMMA LoadedInHand ==
    ASSUME MemoryTypeInv, NEW x \in Exporters, NEW s \in Sessions, s = view[x].session,
           History(s), Standing(s), InHand(x, s, view[x].context), LoadForExport(x),
           Exportable(view[x].context, transcript[s])
    PROVE  /\ view'[x].session = s /\ draft'[x] = draft[x]
           /\ InHand(x, s, view[x].context)'
<1> DEFINE own(a) == IF Verified(view[x].context, transcript[s], a) THEN s ELSE "none"
<1>1. PICK context : context = view[x].context
  OBVIOUS
<1>2. /\ view' = [view EXCEPT ![x].outputs =
                    [hypothesis |-> own(Hypothesis), recommendation |-> own(Recommendation),
                     outcome |-> own(OutcomeVerification)]]
      /\ at'[x] = "assemble" /\ at[x] = "load" /\ draft' = draft
      /\ checkpoint' = checkpoint /\ transcript' = transcript
  BY DEF LoadForExport, files, MemoryTypeInv, ExportTypeOK
<1>3. view[x] \in Views /\ view \in [Exporters -> Views]
  BY DEF MemoryTypeInv, ExportTypeOK
<1>4. view'[x] = [view[x] EXCEPT !.outputs =
                    [hypothesis |-> own(Hypothesis), recommendation |-> own(Recommendation),
                     outcome |-> own(OutcomeVerification)]]
  BY <1>2, <1>3
<1>5. /\ view'[x].session = s /\ view'[x].context = context
      /\ view'[x].outputs["hypothesis"] = own(Hypothesis)
      /\ view'[x].outputs["recommendation"] = own(Recommendation)
      /\ view'[x].outputs["outcome"] = own(OutcomeVerification)
  <2> HIDE DEF own
  <2> QED BY <1>1, <1>3, <1>4 DEF Views
<1>6. HasCommitted(s, context.phase)
  BY <1>1, <1>2, LoadedIsCommitted DEF InHand, Exportable
<1>7. \A kind \in PromisedBy(context.phase) : view'[x].outputs[kind] = s
  <2>1. ASSUME "hypothesis" \in PromisedBy(context.phase) PROVE own(Hypothesis) = s
    <3>1. context.phase \in AfterHypothesis
      BY <2>1 DEF PromisedBy, AfterHypothesis
    <3>2. Stands(s, Hypothesis)
      BY <1>1, <3>1 DEF InHand, Standing
    <3>3. Hypothesis \notin {ActionExecution, OutcomeVerification}
      BY DEF Hypothesis, ActionExecution, OutcomeVerification, Artifact
    <3>4. Verified(context, transcript[s], Hypothesis)
      BY <1>1, <3>2, <3>3, StandingIsRead DEF Exportable
    <3> QED BY <1>1, <3>4
  <2>2. ASSUME "recommendation" \in PromisedBy(context.phase) PROVE own(Recommendation) = s
    <3>1. context.phase \in AfterRecommendation
      BY <2>2 DEF PromisedBy, AfterRecommendation
    <3>2. Stands(s, Recommendation)
      BY <1>1, <3>1 DEF InHand, Standing
    <3>3. Recommendation \notin {ActionExecution, OutcomeVerification}
      BY DEF Recommendation, ActionExecution, OutcomeVerification, Artifact
    <3>4. Verified(context, transcript[s], Recommendation)
      BY <1>1, <3>2, <3>3, StandingIsRead DEF Exportable
    <3> QED BY <1>1, <3>4
  <2>3. ASSUME "outcome" \in PromisedBy(context.phase) PROVE own(OutcomeVerification) = s
    <3>1. context.phase = "outcome_verification_succeeded"
      BY <2>3 DEF PromisedBy
    <3>2. RequiredArtifact(context.phase) = OutcomeVerification
      BY <3>1 DEF RequiredArtifact, EVIDENCE_READING_PHASES, HYPOTHESIS_PHASES,
         RECOMMENDATION_PHASES, ACTION_STUB_PHASES, ACTION_EXECUTION_PHASES,
         OUTCOME_VERIFICATION_PHASES
    <3> QED BY <1>1, <3>2 DEF Exportable
  <2>4. PromisedBy(context.phase) \subseteq {"hypothesis", "recommendation", "outcome"}
    BY DEF PromisedBy
  <2> HIDE DEF own
  <2> QED BY <1>5, <2>1, <2>2, <2>3, <2>4
<1>8. InHand(x, s, context)'
  BY <1>1, <1>2, <1>5, <1>6, <1>7 DEF InHand, HasCommitted, Markers
<1>9. InHand(x, s, view[x].context)'
  BY <1>5, <1>8 DEF InHand, HasCommitted, Markers
<1> QED BY <1>2, <1>5, <1>9

\* What is assembled of it is backed: what the session verified itself speaks before
\* the memory, whichever session wrote that.
LEMMA AssembledIsBacked ==
    ASSUME MemoryTypeInv, NEW x \in Exporters, at[x] = "assemble", ViewBacked(x)
    PROVE  BacksItsPhase(Assembled(x))
<1>1. PICK s \in Sessions : s = view[x].session
  BY DEF MemoryTypeInv, ExportTypeOK
<1>2. PICK phase : phase = view[x].context.phase
  OBVIOUS
<1>3. /\ HasCommitted(s, phase)
      /\ phase \in PastRollback => HasCommitted(s, "action_stub_approved")
      /\ \A kind \in PromisedBy(phase) : view[x].outputs[kind] = s
  BY <1>1, <1>2 DEF ViewBacked, InHand
<1>4. /\ Assembled(x).source = s /\ Assembled(x).phase = phase
      /\ Assembled(x).approval = ApprovalAt(phase)
  BY <1>1, <1>2 DEF Assembled
<1>5. ApprovalAt(phase) = "approved" => HasCommitted(s, "action_stub_approved")
  <2>1. ApprovalAt(phase) = "approved" => phase \in {"action_stub_approved"} \cup PastRollback
    BY DEF ApprovalAt, PastRollback
  <2> QED BY <1>3, <2>1
<1>6. \A kind \in PromisedBy(phase) : Assembled(x)[kind] = s
  <2>1. s # "none"
    BY MemoryNamesAssumption
  <2>2. /\ Assembled(x)["hypothesis"] =
              Prefer(view[x].outputs["hypothesis"], memory.hypothesis)
        /\ Assembled(x)["recommendation"] =
              Prefer(view[x].outputs["recommendation"], memory.recommendation)
        /\ Assembled(x)["outcome"] = view[x].outputs["outcome"]
    BY DEF Assembled
  <2>3. PromisedBy(phase) \subseteq {"hypothesis", "recommendation", "outcome"}
    BY DEF PromisedBy
  <2> QED BY <1>3, <2>1, <2>2, <2>3 DEF Prefer
<1> QED BY <1>3, <1>4, <1>5, <1>6 DEF BacksItsPhase

\* Every step keeps the exports backed.
LEMMA NextExports ==
    ASSUME MemoryTypeInv, HandoffInv, [Next]_memoryVars, NEW x \in Exporters
    PROVE  ViewBacked(x)' /\ BacksItsPhase(draft[x])'
<1>0. /\ \A s \in Sessions : History(s) /\ Standing(s)
      /\ ViewBacked(x) /\ BacksItsPhase(draft[x]) /\ ExportTypeOK
  BY DEF HandoffInv, MemoryTypeInv
<1>1. ASSUME NEW h, BacksItsPhase(h), draft'[x] = h PROVE BacksItsPhase(draft[x])'
  BY <1>1, BackingKept DEF BacksItsPhase, HasCommitted, Markers
<1>2. ASSUME NEW s \in Sessions, view'[x].session = s, InHand(x, s, view[x].context)'
      PROVE  ViewBacked(x)'
  BY <1>2 DEF ViewBacked, InHand, HasCommitted, Markers
<1>3. CASE draft'[x] = draft[x] /\ at'[x] = at[x] /\ view'[x] = view[x]
  <2>1. CASE at[x] \in {"load", "assemble"}
    <3>1. PICK s \in Sessions : s = view[x].session
      BY <1>0, <2>1 DEF ExportTypeOK
    <3>2. InHand(x, s, view[x].context)
      BY <1>0, <2>1, <3>1 DEF ViewBacked
    <3>3. InHand(x, s, view[x].context)'
      BY <1>0, <1>3, <3>2, InHandKept
    <3> QED BY <1>0, <1>1, <1>2, <1>3, <3>1, <3>3
  <2>2. CASE at[x] \notin {"load", "assemble"}
    BY <1>0, <1>1, <1>3, <2>2 DEF ViewBacked
  <2> QED BY <2>1, <2>2
<1>4. CASE at'[x] = "idle" /\ draft'[x] = NoHandoff
  BY <1>1, <1>4, EmptyHandoffs DEF ViewBacked
<1>5. ASSUME NEW s \in Sessions, BeginExport(x, s)
      PROVE  ViewBacked(x)' /\ BacksItsPhase(draft[x])'
  <2>1. view'[x].session = s /\ draft'[x] = draft[x] /\ InHand(x, s, view[x].context)'
    BY <1>0, <1>5, BegunInHand
  <2> QED BY <1>0, <1>1, <1>2, <2>1
<1>6. CASE LoadForExport(x) /\ Exportable(view[x].context, transcript[view[x].session])
  <2>1. at[x] = "load"
    BY <1>6 DEF LoadForExport
  <2>2. PICK s \in Sessions : s = view[x].session
    BY <1>0, <2>1 DEF ExportTypeOK
  <2>3. InHand(x, s, view[x].context)
    BY <1>0, <2>1, <2>2 DEF ViewBacked
  <2>4. view'[x].session = s /\ draft'[x] = draft[x] /\ InHand(x, s, view[x].context)'
    BY <1>0, <1>6, <2>2, <2>3, LoadedInHand
  <2> QED BY <1>0, <1>1, <1>2, <2>4
<1>7. CASE Assemble(x) /\ memory # TornMemory
  <2>1. draft'[x] = Assembled(x) /\ at[x] = "assemble" /\ at'[x] = "write"
    BY <1>0, <1>7 DEF Assemble, ExportTypeOK
  <2>2. PICK h : h = Assembled(x)
    OBVIOUS
  <2>3. BacksItsPhase(h)
    BY <1>0, <2>1, <2>2, AssembledIsBacked
  <2>4. BacksItsPhase(draft[x])'
    BY <1>1, <2>1, <2>2, <2>3
  <2> QED BY <2>1, <2>4 DEF ViewBacked
<1> QED BY <1>0, <1>3, <1>4, <1>5, <1>6, <1>7, OneExport

-----------------------------------------------------------------------------
(* The theorem *)

\* No step leaves a handoff, one that is drafted or one that is written, unbacked.
LEMMA NextHandoff == MemoryTypeInv /\ HandoffInv /\ [Next]_memoryVars => HandoffInv'
<1> SUFFICES ASSUME MemoryTypeInv, HandoffInv, [Next]_memoryVars PROVE HandoffInv'
  OBVIOUS
<1>1. /\ \A s \in Sessions : History(s) /\ Standing(s)
      /\ \A x \in Exporters : ViewBacked(x) /\ BacksItsPhase(draft[x])
      /\ BacksItsPhase(handoff)
  BY DEF HandoffInv, HandoffBacksItsPhase, BacksItsPhase
<1>2. \A s \in Sessions : History(s)' /\ Standing(s)'
  BY <1>1, NextHistory, NextStanding
<1>3. \A x \in Exporters : ViewBacked(x)' /\ BacksItsPhase(draft[x])'
  BY NextExports
<1>4. BacksItsPhase(handoff)'
  <2>1. PICK h : h = handoff' /\ BacksItsPhase(h)
    BY <1>1, HandoffWriters, EmptyHandoffs
  <2>2. BacksItsPhase(h)'
    BY <2>1, BackingKept
  <2> QED BY <2>1, <2>2 DEF BacksItsPhase, HasCommitted, Markers
<1>5. HandoffBacksItsPhase'
  BY <1>4 DEF HandoffBacksItsPhase, BacksItsPhase
<1> QED BY <1>2, <1>3, <1>5 DEF HandoffInv

\* Nothing is said, read or handed off at first.
LEMMA InitHandoff == Init => HandoffInv
<1> SUFFICES ASSUME Init PROVE HandoffInv
  OBVIOUS
<1>1. "none" \notin PastHypothesis \cup AfterRecommendation \cup PastRollback
  BY FamiliesApart DEF PastHypothesis, AfterRecommendation, RECOMMENDATION_COMPATIBLE_PHASES,
     RECOMMENDATION_PHASES
<1>2. \A s \in Sessions : History(s) /\ Standing(s)
  BY <1>1 DEF Init, History, Standing, NoCheckpoint, EndsMarked
<1>3. \A x \in Exporters : ViewBacked(x) /\ BacksItsPhase(draft[x])
  BY EmptyHandoffs DEF Init, ViewBacked
<1>4. BacksItsPhase(handoff)
  BY EmptyHandoffs DEF Init
<1> QED BY <1>2, <1>3, <1>4 DEF HandoffInv, HandoffBacksItsPhase, BacksItsPhase

\* A handoff stands on one committed checkpoint of the session it names, and every output
\* its phase promises is that session's own (HandoffBacksItsPhase), however many sessions,
\* exports and crashes come between the reads of one export (regenerate).
THEOREM HandoffsBackTheirPhase == Spec => []HandoffBacksItsPhase
<1>1. MemoryInv => MemoryTypeInv
  BY DEF MemoryInv
<1>2. HandoffInv => HandoffBacksItsPhase
  BY DEF HandoffInv
<1> QED BY <1>1, <1>2, InitHandoff, NextHandoff, MemoryInvariant, PTL DEF Spec

=============================================================================
