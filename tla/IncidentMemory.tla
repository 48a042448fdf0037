---------------------------- MODULE IncidentMemory ----------------------------
(***************************************************************************)
(* The two files all sessions of one incident share: the working memory,   *)
(* which a slice rewrites after it has committed a verified hypothesis,    *)
(* recommendation or recovery, and the handoff artifact, which an operator *)
(* exports of a session whenever one is asked for.  Both are written in    *)
(* place, and neither is protected against the other sessions.             *)
(*                                                                         *)
(* A slice is taken here in four steps: what its tool and its verifier     *)
(* appended, the checkpoint, its marker, and the memory.  SliceChain and   *)
(* ApprovalRuntime have the steps in between.                              *)
(***************************************************************************)
EXTENDS SessionArtifacts

CONSTANTS
    Sessions,       \* the sessions of the incident
    Exporters,      \* shells, console threads and command lines that export
    Readings,       \* what a session's evidence may say of the regression
    Verdicts,       \* what a verifier may say of an output
    MaxAttempts,    \* outcome probes of a session      (bound)
    MaxExports,     \* handoff exports in all           (bound)
    MaxCrashes      \* crashes in all                   (bound)

ASSUME MemoryReadingsAssumption ==
    Readings \subseteq {"supported", "recovered", "conservative"}
ASSUME MemoryVerdictsAssumption == Verdicts \subseteq {"pass", "fail", "unverified"}
ASSUME MemoryNamesAssumption ==
    (Sessions \cup Exporters) \cap {"none", "torn"} = {}
ASSUME MemoryBoundsAssumption ==
    MaxAttempts \in Nat /\ MaxExports \in Nat /\ MaxCrashes \in Nat

VARIABLES
    checkpoint,     \* session -> {session}.json
    transcript,     \* session -> {session}.jsonl
    reading,        \* session -> what its hypothesis says
    memory,         \* working_memory/{incident}.json
    handoff,        \* handoffs/{incident}.json
    pc,             \* session -> where its slice is
    verdict,        \* session -> what the slice's verifier said
    prior,          \* session -> the memory an outcome verification has read
    at,             \* exporter -> where its export is
    view,           \* exporter -> the session it exports and the checkpoint it loaded
    draft,          \* exporter -> what it is about to write
    attempts, exports, crashes

files == <<checkpoint, transcript, memory, handoff>>
work == <<pc, verdict, prior>>
export == <<at, view, draft>>
counts == <<attempts, exports, crashes>>
memoryVars == <<files, reading, work, export, counts>>

-----------------------------------------------------------------------------
(* The session's own progress *)

\* What the session writes next, by the phase it is in.  A session whose verdict
\* was short of a pass is not followed: its later slices defer, which neither
\* writes the memory nor leaves an artifact to export.
NextArtifact(phase) ==
    CASE phase = "none" -> Evidence
      [] phase = "evidence_reading_completed" -> Hypothesis
      [] phase \in HYPOTHESIS_COMPATIBLE_PHASES -> Recommendation
      [] phase \in RECOMMENDATION_COMPATIBLE_PHASES -> ActionStub
      [] phase = "action_stub_approved" -> ActionExecution
      [] phase \in OUTCOME_VERIFICATION_STEP_ENTRY_PHASES -> OutcomeVerification

Continues(phase) ==
    phase \in {"none", "evidence_reading_completed", "action_stub_approved",
               "action_execution_completed"}
              \cup HYPOTHESIS_COMPATIBLE_PHASES \cup RECOMMENDATION_COMPATIBLE_PHASES
              \cup OUTCOME_VERIFICATION_PHASES

PhaseNames ==
    [evidence |-> [pass |-> "evidence_reading_completed",
                   fail |-> "evidence_reading_failed_verification",
                   unverified |-> "evidence_reading_unverified"],
     hypothesis |-> [pass |-> "hypothesis_insufficient_evidence",
                     fail |-> "hypothesis_failed_verification",
                     unverified |-> "hypothesis_unverified"],
     recommendation |-> [pass |-> "recommendation_conservative",
                         fail |-> "recommendation_failed_verification",
                         unverified |-> "recommendation_unverified"],
     stub |-> [pass |-> "action_stub_not_actionable",
               fail |-> "action_stub_failed_verification",
               unverified |-> "action_stub_unverified"],
     execution |-> [pass |-> "action_execution_completed",
                    fail |-> "action_execution_failed_verification",
                    unverified |-> "action_execution_unverified"],
     outcome |-> [pass |-> "outcome_verification_succeeded",
                  fail |-> "outcome_verification_failed_verification",
                  unverified |-> "outcome_verification_unverified"]]

SliceOf(a) ==
    CASE a = Evidence -> "evidence"
      [] a = Hypothesis -> "hypothesis"
      [] a = Recommendation -> "recommendation"
      [] a = ActionStub -> "stub"
      [] a = ActionExecution -> "execution"
      [] a = OutcomeVerification -> "outcome"

\* A supported reading changes the name of three phases.
PhaseAfter(a, v, r) ==
    IF r = "supported" /\ v = "pass" /\ a \in {Hypothesis, Recommendation, ActionStub}
    THEN CASE a = Hypothesis -> "hypothesis_supported"
           [] a = Recommendation -> "recommendation_supported"
           [] a = ActionStub -> "action_stub_pending_approval"
    ELSE PhaseNames[SliceOf(a)][v]

\* The approval a checkpoint holds is told by its phase.
ApprovalAt(phase) ==
    CASE phase = "action_stub_pending_approval" -> "pending"
      [] phase = "action_stub_denied" -> "denied"
      [] phase \in {"action_stub_approved"} \cup ACTION_EXECUTION_PHASES
                   \cup OUTCOME_VERIFICATION_PHASES -> "approved"
      [] OTHER -> "none"

NoCheckpoint == [id |-> [name |-> "none", stamp |-> 0], phase |-> "none", step |-> 0]

\* The slice's checkpoint is named for the slice, whatever the attempt.
CheckpointOf(s, name, phase) ==
    [id |-> [name |-> name, stamp |-> 0], phase |-> phase, step |-> checkpoint[s].step + 1]

NoMemory == [source |-> "none", phase |-> "none", hypothesis |-> "none",
             recommendation |-> "none", gaps |-> {}]
TornMemory == [NoMemory EXCEPT !.source = "torn"]

NoHandoff == [source |-> "none", phase |-> "none", approval |-> "none",
              hypothesis |-> "none", recommendation |-> "none", outcome |-> "none",
              gaps |-> {}, note |-> "none"]
TornHandoff == [NoHandoff EXCEPT !.source = "torn"]

NoOutputs == [hypothesis |-> "none", recommendation |-> "none", outcome |-> "none"]
NoView == [session |-> "none", context |-> NoCheckpoint, outputs |-> NoOutputs]

Init ==
    /\ checkpoint = [s \in Sessions |-> NoCheckpoint]
    /\ transcript = [s \in Sessions |-> << >>]
    /\ reading \in [Sessions -> Readings]
    /\ memory = NoMemory /\ handoff = NoHandoff
    /\ pc = [s \in Sessions |-> "idle"]
    /\ verdict = [s \in Sessions |-> "none"]
    /\ prior = [s \in Sessions |-> NoMemory]
    /\ at = [x \in Exporters |-> "idle"]
    /\ view = [x \in Exporters |-> NoView]
    /\ draft = [x \in Exporters |-> NoHandoff]
    /\ attempts = [s \in Sessions |-> 0] /\ exports = 0 /\ crashes = 0

Goto(s, label) == pc' = [pc EXCEPT ![s] = label]

Finish(s) ==
    /\ Goto(s, "idle")
    /\ verdict' = [verdict EXCEPT ![s] = "none"]
    /\ prior' = [prior EXCEPT ![s] = NoMemory]

\* The first slice loads nothing.
Resumes(s) ==
    \/ checkpoint[s] = NoCheckpoint /\ transcript[s] = << >>
    \/ checkpoint[s] # NoCheckpoint /\ Loadable(checkpoint[s], transcript[s])

Present(s) == NextArtifact(checkpoint[s].phase)

\* The tool's result and the verdict on it.
RunSlice(s) ==
    /\ pc[s] = "idle" /\ Continues(checkpoint[s].phase) /\ Resumes(s)
    /\ Present(s) = OutcomeVerification => attempts[s] < MaxAttempts
    /\ attempts' = [attempts EXCEPT ![s] =
                        IF Present(s) = OutcomeVerification THEN @ + 1 ELSE @]
    /\ \E v \in Verdicts :
          /\ verdict' = [verdict EXCEPT ![s] = v]
          /\ transcript' = [transcript EXCEPT ![s] = @ \o
                <<Event("tool_result", Present(s).tool, checkpoint[s].step + 1,
                        IF v = "unverified" THEN "failed" ELSE "succeeded"),
                  Event("verifier_result", Present(s).verifier, checkpoint[s].step + 1, v)>>]
    /\ Goto(s, "save")
    /\ UNCHANGED <<checkpoint, memory, handoff, reading, prior, export, exports, crashes>>

\* The operator's answer to a pending approval.
ResolveApproval(s) ==
    /\ pc[s] = "idle" /\ checkpoint[s].phase = "action_stub_pending_approval" /\ Resumes(s)
    /\ \E decision \in {"approved", "denied"} :
          /\ verdict' = [verdict EXCEPT ![s] = decision]
          /\ transcript' = [transcript EXCEPT ![s] = Append(@,
                Event("approval_resolved", "operator", checkpoint[s].step + 1, decision))]
    /\ Goto(s, "save")
    /\ UNCHANGED <<checkpoint, memory, handoff, reading, prior, export, counts>>

Committing(s) ==
    CASE verdict[s] = "approved" -> CheckpointOf(s, "approval-resolution", "action_stub_approved")
      [] verdict[s] = "denied" -> CheckpointOf(s, "approval-resolution", "action_stub_denied")
      [] OTHER -> CheckpointOf(s, Present(s).verifier,
                               PhaseAfter(Present(s), verdict[s], reading[s]))

SaveCheckpoint(s) ==
    /\ pc[s] = "save"
    /\ checkpoint' = [checkpoint EXCEPT ![s] = Committing(s)]
    /\ Goto(s, "mark")
    /\ UNCHANGED <<transcript, memory, handoff, reading, verdict, prior, export, counts>>

-----------------------------------------------------------------------------
(* The working memory *)

\* Mutant: whatever an outcome verification finds is remembered.
RememberedPhasesProbed ==
    HYPOTHESIS_COMPATIBLE_PHASES \cup RECOMMENDATION_COMPATIBLE_PHASES
        \cup OUTCOME_VERIFICATION_PHASES

\* The memory is written for a verified hypothesis, recommendation or recovery.
RememberedPhases ==
    HYPOTHESIS_COMPATIBLE_PHASES \cup RECOMMENDATION_COMPATIBLE_PHASES
        \cup {"outcome_verification_succeeded"}

\* An outcome verification looks at the memory before it replaces it.
MarkCheckpoint(s) ==
    /\ pc[s] = "mark"
    /\ transcript' = [transcript EXCEPT ![s] =
                        Append(@, Marker(checkpoint[s], checkpoint[s].step))]
    /\ IF checkpoint[s].phase \in RememberedPhases
       THEN /\ Goto(s, IF checkpoint[s].phase = "outcome_verification_succeeded"
                       THEN "read_memory" ELSE "write_memory")
            /\ UNCHANGED <<verdict, prior>>
       ELSE Finish(s)
    /\ UNCHANGED <<checkpoint, memory, handoff, reading, export, counts>>

\* Whoever wrote it.  What does not parse raises, and ends the command.
ReadMemory(s) ==
    /\ pc[s] = "read_memory"
    /\ IF memory = TornMemory THEN Finish(s)
       ELSE /\ prior' = [prior EXCEPT ![s] = memory]
            /\ Goto(s, "write_memory")
            /\ UNCHANGED verdict
    /\ UNCHANGED <<files, reading, export, counts>>

\* Mutant: a supported regression leaves the cause open as well.
GapsOfOpenCause(r) ==
    CASE r = "supported" -> {"validation", "causal"}
      [] r = "conservative" -> {"causal"}
      [] r = "recovered" -> {}

\* A supported regression still has to be validated by a rollback; evidence that
\* supports nothing leaves the cause open; a recovered service leaves no question.
GapsOf(r) ==
    CASE r = "supported" -> {"validation"}
      [] r = "conservative" -> {"causal"}
      [] r = "recovered" -> {}

\* Mutant: the prior memory's gaps are carried as they are.
ResolvedGapsCarried(s) ==
    IF prior[s] = NoMemory THEN GapsOf(reading[s]) ELSE prior[s].gaps

\* The recovery settles the validation gap of the memory that was read, or of the
\* session's own hypothesis when there was none.
ResolvedGaps(s) ==
    (IF prior[s] = NoMemory THEN GapsOf(reading[s]) ELSE prior[s].gaps) \ {"validation"}

\* Mutant: what the memory says of a recommendation is carried as well.
MemoryOfCarrying(s) ==
    [source |-> s, phase |-> checkpoint[s].phase, hypothesis |-> s,
     recommendation |-> IF checkpoint[s].phase \in HYPOTHESIS_PHASES
                        THEN memory.recommendation ELSE s,
     gaps |-> IF checkpoint[s].phase = "outcome_verification_succeeded"
              THEN ResolvedGaps(s) ELSE GapsOf(reading[s])]

\* Snapshots are of the session's own verified outputs; only the gaps of an
\* outcome verification may be another session's.
MemoryOf(s) ==
    [source |-> s, phase |-> checkpoint[s].phase, hypothesis |-> s,
     recommendation |-> IF checkpoint[s].phase \in HYPOTHESIS_PHASES THEN "none" ELSE s,
     gaps |-> IF checkpoint[s].phase = "outcome_verification_succeeded"
              THEN ResolvedGaps(s) ELSE GapsOf(reading[s])]

WriteMemory(s) ==
    /\ pc[s] = "write_memory"
    /\ memory' = MemoryOf(s)
    /\ Finish(s)
    /\ UNCHANGED <<checkpoint, transcript, handoff, reading, export, counts>>

-----------------------------------------------------------------------------
(* Exporting a handoff: IncidentHandoffArtifactRegenerator.regenerate *)

EndExport(x) ==
    /\ at' = [at EXCEPT ![x] = "idle"]
    /\ view' = [view EXCEPT ![x] = NoView]
    /\ draft' = [draft EXCEPT ![x] = NoHandoff]

\* The checkpoint is read first ...
BeginExport(x, s) ==
    /\ at[x] = "idle" /\ exports < MaxExports
    /\ exports' = exports + 1
    /\ view' = [view EXCEPT ![x] = [session |-> s, context |-> checkpoint[s],
                                    outputs |-> NoOutputs]]
    /\ at' = [at EXCEPT ![x] = "load"]
    /\ UNCHANGED <<files, reading, work, draft, attempts, crashes>>

\* The artifact without which there is nothing to hand off, by the phase's family.
RequiredArtifact(phase) ==
    CASE phase \in EVIDENCE_READING_PHASES -> Evidence
      [] phase \in HYPOTHESIS_PHASES -> Hypothesis
      [] phase \in RECOMMENDATION_PHASES -> Recommendation
      [] phase \in ACTION_STUB_PHASES -> ActionStub
      [] phase \in ACTION_EXECUTION_PHASES -> ActionExecution
      [] phase \in OUTCOME_VERIFICATION_PHASES -> OutcomeVerification

Verified(context, log, a) ==
    /\ a = ActionExecution => context.phase \in ACTION_EXECUTION_ARTIFACT_COMPATIBLE_PHASES
    /\ a = OutcomeVerification => context.phase \in OUTCOME_VERIFICATION_PHASES
    /\ \E n \in CommitPoint(context, log) : VerifiedRecord(log, n, a) = "artifact"

\* Mutant: the checkpoint is taken at its word, whatever the transcript says.
ExportableUncommitted(context, log) == context # NoCheckpoint

\* A load that fails, a required artifact that is missing or not verified: the
\* export says so, and writes nothing.
Exportable(context, log) ==
    /\ context # NoCheckpoint
    /\ Loadable(context, log)
    /\ Verified(context, log, RequiredArtifact(context.phase))

\* ... and the transcript second.
LoadForExport(x) ==
    LET s == view[x].session
        own(a) == IF Verified(view[x].context, transcript[s], a) THEN s ELSE "none"
    IN  /\ at[x] = "load"
        /\ IF Exportable(view[x].context, transcript[s])
           THEN /\ view' = [view EXCEPT ![x].outputs =
                              [hypothesis |-> own(Hypothesis),
                               recommendation |-> own(Recommendation),
                               outcome |-> own(OutcomeVerification)]]
                /\ at' = [at EXCEPT ![x] = "assemble"]
                /\ UNCHANGED draft
           ELSE EndExport(x)
        /\ UNCHANGED <<files, reading, work, counts>>

\* A memory of the same phase speaks first, whichever session wrote it; then a
\* verified recovery, the session's own hypothesis, and any memory there is.
ShownGaps(x) ==
    LET phase == view[x].context.phase
        own == IF view[x].outputs.hypothesis = "none" THEN {}
               ELSE GapsOf(reading[view[x].session])
    IN  CASE memory.phase = phase -> memory.gaps
          [] /\ memory.phase # phase
             /\ phase = "outcome_verification_succeeded" /\ view[x].outputs.outcome # "none" -> {}
          [] OTHER -> IF own # {} THEN own ELSE memory.gaps

\* A summary is of the session's own verified output, or else the memory's.
Prefer(output, remembered) == IF output # "none" THEN output ELSE remembered

Assembled(x) ==
    LET phase == view[x].context.phase
    IN  [source |-> view[x].session, phase |-> phase, approval |-> ApprovalAt(phase),
         hypothesis |-> Prefer(view[x].outputs.hypothesis, memory.hypothesis),
         recommendation |-> Prefer(view[x].outputs.recommendation, memory.recommendation),
         outcome |-> view[x].outputs.outcome,
         gaps |-> ShownGaps(x),
         note |-> IF memory.phase = phase THEN memory.source ELSE view[x].session]

\* A memory that does not parse fails the export; the old handoff stays.
Assemble(x) ==
    /\ at[x] = "assemble"
    /\ IF memory = TornMemory THEN EndExport(x)
       ELSE /\ draft' = [draft EXCEPT ![x] = Assembled(x)]
            /\ at' = [at EXCEPT ![x] = "write"]
            /\ UNCHANGED view
    /\ UNCHANGED <<files, reading, work, counts>>

WriteHandoff(x) ==
    /\ at[x] = "write"
    /\ handoff' = draft[x]
    /\ EndExport(x)
    /\ UNCHANGED <<checkpoint, transcript, memory, reading, work, counts>>

-----------------------------------------------------------------------------
(* Failures *)

MayCrash == crashes < MaxCrashes /\ crashes' = crashes + 1

CrashSession(s) ==
    /\ pc[s] # "idle" /\ MayCrash
    /\ Finish(s)
    /\ UNCHANGED <<files, reading, export, attempts, exports>>

\* Both files are written in place: what is cut off is all there is.
CrashMidMemory(s) ==
    /\ pc[s] = "write_memory" /\ MayCrash
    /\ memory' = TornMemory
    /\ Finish(s)
    /\ UNCHANGED <<checkpoint, transcript, handoff, reading, export, attempts, exports>>

CrashMidHandoff(x) ==
    /\ at[x] = "write" /\ MayCrash
    /\ handoff' = TornHandoff
    /\ EndExport(x)
    /\ UNCHANGED <<checkpoint, transcript, memory, reading, work, attempts, exports>>

-----------------------------------------------------------------------------
Session(s) ==
    \/ RunSlice(s) \/ ResolveApproval(s) \/ SaveCheckpoint(s) \/ MarkCheckpoint(s)
    \/ ReadMemory(s) \/ WriteMemory(s) \/ CrashSession(s) \/ CrashMidMemory(s)

Export(x) ==
    \/ \E s \in Sessions : BeginExport(x, s)
    \/ LoadForExport(x) \/ Assemble(x) \/ WriteHandoff(x) \/ CrashMidHandoff(x)

Next == (\E s \in Sessions : Session(s)) \/ (\E x \in Exporters : Export(x))

Spec == Init /\ [][Next]_memoryVars

=============================================================================
