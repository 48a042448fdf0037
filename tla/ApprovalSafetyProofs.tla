------------------------- MODULE ApprovalSafetyProofs -------------------------
(***************************************************************************)
(* The safety of the approval boundary for every set of operators and      *)
(* every bound: no rollback request without an earlier approval, no        *)
(* rollback without a request on disk, no verified outcome without the     *)
(* whole history behind it.  The argument is one inductive invariant,      *)
(* HistoryBacked: the transcript only grows, so what it shows once it      *)
(* shows for ever, and a slice is past a point only after what leads there *)
(* was written.                                                            *)
(***************************************************************************)
EXTENDS ApprovalProofs

\* The facts a transcript shows are kept by a step.
Grown ==
    /\ Approved => Approved'
    /\ Requested => Requested'
    /\ RolledBack => RolledBack'
    /\ Confirmed => Confirmed'

\* A step of one operator leaves what the others hold in memory alone.
Confined(o) ==
    \A p \in Operators \ {o} :
        /\ pc'[p] = pc[p] /\ job'[p] = job[p] /\ context'[p] = context[p]
        /\ branch'[p] = branch[p] /\ verdict'[p] = verdict[p]

\* The events that only an approval justifies.
NeedsApproval(e) ==
    /\ e.name = ActionExecution.tool
    /\ e.type = "tool_request" \/ (e.type = "tool_result" /\ e.status = "succeeded")

-----------------------------------------------------------------------------
(* The growing transcript *)

LEMMA AppendedPositions ==
    ASSUME TypeOK, NEW e, Append1(e)
    PROVE  /\ Len(transcript) \in Nat
           /\ Positions' = Positions \cup {Len(transcript) + 1}
           /\ \A i \in Positions : transcript'[i] = transcript[i]
           /\ transcript'[Len(transcript) + 1] = e
  BY DEF TypeOK, DurableTypeOK, Append1, Positions

LEMMA LoggedGrown ==
    ASSUME TypeOK, NEW e, Append1(e)
    PROVE  Grown
  BY AppendedPositions DEF Grown, Approved, Requested, RolledBack, Confirmed,
     ApprovedAt, RequestedAt, SucceededAt, PassedAt

LEMMA UnloggedGrown ==
    ASSUME UNCHANGED transcript
    PROVE  /\ Approved' <=> Approved
           /\ Requested' <=> Requested
           /\ RolledBack' <=> RolledBack
           /\ Confirmed' <=> Confirmed
           /\ RequestFollowsApproval' <=> RequestFollowsApproval
           /\ SuccessFollowsApproval' <=> SuccessFollowsApproval
           /\ Grown
  BY DEF Grown, Approved, Requested, RolledBack, Confirmed, Positions, ApprovedAt,
     RequestedAt, SucceededAt, PassedAt, RequestFollowsApproval, SuccessFollowsApproval

LEMMA LoggedOrder ==
    ASSUME TypeOK, HistoryBacked, NEW e, Append1(e), NeedsApproval(e) => Approved
    PROVE  RequestFollowsApproval' /\ SuccessFollowsApproval'
  <1>1. RequestFollowsApproval'
    <2> SUFFICES ASSUME NEW j \in Positions', RequestedAt(j, ActionExecution)'
                 PROVE  \E i \in Positions' : i < j /\ ApprovedAt(i)'
      BY DEF RequestFollowsApproval
    <2>1. CASE j \in Positions
      <3>1. RequestedAt(j, ActionExecution)
        BY <2>1, AppendedPositions DEF RequestedAt
      <3>2. PICK i \in Positions : i < j /\ ApprovedAt(i)
        BY <2>1, <3>1 DEF HistoryBacked, RequestFollowsApproval
      <3> QED
        BY <3>2, AppendedPositions DEF ApprovedAt
    <2>2. CASE j = Len(transcript) + 1
      <3>1. NeedsApproval(e)
        BY <2>2, AppendedPositions DEF RequestedAt, NeedsApproval
      <3>2. PICK i \in Positions : ApprovedAt(i)
        BY <3>1 DEF Approved
      <3>3. i < j
        BY <2>2, AppendedPositions DEF Positions
      <3> QED
        BY <3>2, <3>3, AppendedPositions DEF ApprovedAt
    <2> QED
      BY <2>1, <2>2, AppendedPositions
  <1>2. SuccessFollowsApproval'
    <2> SUFFICES ASSUME NEW j \in Positions', SucceededAt(j, ActionExecution)'
                 PROVE  Approved
      BY LoggedGrown DEF SuccessFollowsApproval, Grown
    <2>1. CASE j \in Positions
      <3>1. SucceededAt(j, ActionExecution)
        BY <2>1, AppendedPositions DEF SucceededAt
      <3> QED
        BY <2>1, <3>1 DEF HistoryBacked, SuccessFollowsApproval
    <2>2. CASE j = Len(transcript) + 1
      BY <2>2, AppendedPositions DEF SucceededAt, NeedsApproval
    <2> QED
      BY <2>1, <2>2, AppendedPositions
  <1> QED
    BY <1>1, <1>2

-----------------------------------------------------------------------------
(* Which step changes what *)

\* Only three actions replace the checkpoint ...
LEMMA OnlySavesReplace ==
    ASSUME [Next]_vars, checkpoint' # checkpoint
    PROVE  \E o \in Operators : SaveDecision(o) \/ SaveCheckpoint(o) \/ SaveMode(o)
  <1>1. ASSUME NEW o \in Operators, Proceed(o), ~SaveDecision(o), ~SaveCheckpoint(o), ~SaveMode(o)
        PROVE  UNCHANGED checkpoint
    BY <1>1 DEF Proceed, ReadCheckpoint, Reject, BeginResolve, RecordDecision, MarkDecision,
       BeginExecute, RequestRollback, CheckTarget, PostRollback, ReadBack, RecordRollback,
       BeginProbe, RequestProbe, ProbeEndpoint, RecordProbe, RequestVerifier, RecordVerdict,
       MarkCheckpoint, SkipMode, BeginMode, MarkMode, SkipAuto, BeginAuto, EvaluateGate, durable
  <1>2. ASSUME NEW o \in Operators, Crash(o) \/ CrashMidLine(o) PROVE UNCHANGED checkpoint
    BY <1>2 DEF Crash, CrashMidLine, durable
  <1>3. ASSUME NEW o \in Operators, NEW command \in Commands, StartCommand(o, command)
        PROVE  UNCHANGED checkpoint
    BY <1>3 DEF StartCommand, durable
  <1>4. RestartTarget \/ UNCHANGED vars => UNCHANGED checkpoint
    BY DEF RestartTarget, vars, durable
  <1> QED
    BY <1>1, <1>2, <1>3, <1>4 DEF Next

\* ... only two log a decision or a rollback request ...
Counts(e) ==
    \/ e.type = "approval_resolved"
    \/ e.type = "tool_request" /\ e.name = ActionExecution.tool

LEMMA StepLogs ==
    ASSUME NEW o \in Operators, ~RecordDecision(o), ~RequestRollback(o),
           \/ \E command \in Commands : StartCommand(o, command)
           \/ Proceed(o) \/ Crash(o) \/ CrashMidLine(o)
    PROVE  \/ UNCHANGED transcript
           \/ \E e : Append1(e) /\ ~Counts(e)
  <1>1. ASSUME Proceed(o)
        PROVE  \/ UNCHANGED transcript
               \/ \E e : Append1(e) /\ ~Counts(e)
    <2>1. ASSUME NEW type \in {"tool_result", "verifier_request", "verifier_result"},
                 NEW name, NEW step, NEW status, Append1(Event(type, name, step, status))
          PROVE  \E e : Append1(e) /\ ~Counts(e)
      <3>1. ~Counts(Event(type, name, step, status))
        BY DEF Counts, Event
      <3> QED
        BY <2>1, <3>1
    <2>2. ASSUME NEW chk, NEW step, Append1(Marker(chk, step))
          PROVE  \E e : Append1(e) /\ ~Counts(e)
      <3>1. ~Counts(Marker(chk, step))
        BY DEF Counts, Marker
      <3> QED
        BY <2>2, <3>1
    <2>3. CASE MarkDecision(o) \/ MarkCheckpoint(o) \/ MarkMode(o)
      BY <2>2, <2>3 DEF MarkDecision, MarkCheckpoint, MarkMode
    <2>4. CASE \/ RecordRollback(o) \/ RecordProbe(o) \/ RequestVerifier(o) \/ RecordVerdict(o)
      BY <2>1, <2>4 DEF RecordRollback, RecordProbe, RequestVerifier, RecordVerdict
    <2>p. CASE RequestProbe(o)
      <3> DEFINE e == Event("tool_request", OutcomeVerification.tool, NextStep(o), "none")
      <3>1. Append1(e) /\ ~Counts(e)
        BY <2>p DEF RequestProbe, Counts, Event, OutcomeVerification, ActionExecution, Artifact
      <3> QED
        BY <3>1
    <2>5. ASSUME ~(MarkDecision(o) \/ MarkCheckpoint(o) \/ MarkMode(o)),
                 ~(\/ RecordRollback(o) \/ RecordProbe(o) \/ RequestVerifier(o) \/ RecordVerdict(o)),
                 ~RequestProbe(o)
          PROVE  UNCHANGED transcript
      BY <1>1, <2>5 DEF Proceed, ReadCheckpoint, Reject, BeginResolve, SaveDecision,
         BeginExecute, CheckTarget, PostRollback, ReadBack, BeginProbe, ProbeEndpoint,
         SaveCheckpoint, SkipMode, BeginMode, SaveMode, SkipAuto, BeginAuto, EvaluateGate, durable
    <2> QED
      BY <2>3, <2>4, <2>p, <2>5
  <1>2. ASSUME CrashMidLine(o)
        PROVE  \E e : Append1(e) /\ ~Counts(e)
    <2>1. ~Counts(TornLine)
      BY DEF Counts, TornLine, Event
    <2> QED
      BY <1>2, <2>1 DEF CrashMidLine
  <1>3. ASSUME Crash(o) PROVE UNCHANGED transcript
    BY <1>3 DEF Crash, durable
  <1>4. ASSUME NEW command \in Commands, StartCommand(o, command)
        PROVE  UNCHANGED transcript
    BY <1>4 DEF StartCommand, durable
  <1> QED
    BY <1>1, <1>2, <1>3, <1>4

LEMMA OtherEventsDoNotCount ==
    ASSUME [Next]_vars, \A o \in Operators : ~RecordDecision(o) /\ ~RequestRollback(o)
    PROVE  \/ UNCHANGED transcript
           \/ \E e : Append1(e) /\ ~Counts(e)
  <1>1. RestartTarget \/ UNCHANGED vars => UNCHANGED transcript
    BY DEF RestartTarget, vars, durable
  <1> QED
    BY <1>1, StepLogs DEF Next

\* ... and only one sends a rollback.
LEMMA OnlyPostSends ==
    ASSUME [Next]_vars, rollbacksSent' # rollbacksSent
    PROVE  \E o \in Operators : PostRollback(o)
  <1>1. ASSUME NEW o \in Operators, Proceed(o), ~PostRollback(o) PROVE UNCHANGED rollbacksSent
    BY <1>1 DEF Proceed, ReadCheckpoint, Reject, BeginResolve, RecordDecision, SaveDecision,
       MarkDecision,
       BeginExecute, RequestRollback, CheckTarget, ReadBack, RecordRollback,
       BeginProbe, RequestProbe, ProbeEndpoint, RecordProbe, RequestVerifier, RecordVerdict,
       SaveCheckpoint,
       MarkCheckpoint, SkipMode, BeginMode, SaveMode, MarkMode, SkipAuto, BeginAuto, EvaluateGate,
       environment
  <1>2. ASSUME NEW o \in Operators, Crash(o) \/ CrashMidLine(o) PROVE UNCHANGED rollbacksSent
    BY <1>2 DEF Crash, CrashMidLine, environment
  <1>3. ASSUME NEW o \in Operators, NEW command \in Commands, StartCommand(o, command)
        PROVE  UNCHANGED rollbacksSent
    BY <1>3 DEF StartCommand, environment
  <1>4. RestartTarget \/ UNCHANGED vars => UNCHANGED rollbacksSent
    BY DEF RestartTarget, vars, environment
  <1> QED
    BY <1>1, <1>2, <1>3, <1>4 DEF Next

\* The session the operator opens holds no decision and no rollback yet.
LEMMA InitUndecided ==
    ASSUME Init
    PROVE  /\ checkpoint.phase \in StubStates /\ checkpoint.step = 6
           /\ checkpoint.id = Id("incident-action-stub")
           /\ checkpoint.approval = IF checkpoint.phase = "action_stub_pending_approval"
                                    THEN "pending" ELSE "none"
           /\ \A i \in Positions :
                 /\ ~DecidedAt(i) /\ transcript[i].name # ActionExecution.tool
                 /\ transcript[i].stamp = 0
                 /\ MarksCheckpoint(i) =>
                       transcript[i].status = checkpoint.phase /\ transcript[i].step = checkpoint.step
  <1>1. PICK phase \in StubPhases, mode \in StartModes : checkpoint = StubCheckpoint(phase, mode)
    BY DEF Init
  <1>2. /\ checkpoint.phase \in StubStates /\ checkpoint.step = 6
        /\ checkpoint.id = Id("incident-action-stub")
        /\ checkpoint.approval = IF checkpoint.phase = "action_stub_pending_approval"
                                 THEN "pending" ELSE "none"
    BY <1>1, StubAssumption DEF StubCheckpoint
  <1> DEFINE Undecided(e) == /\ e.type # "approval_resolved" /\ e.name # ActionExecution.tool
                             /\ e.stamp = 0
                             /\ e.type = "checkpoint_written" =>
                                   e.status = checkpoint.phase /\ e.step = checkpoint.step
  <1>3. /\ Undecided(Event("tool_request", ActionStub.tool, 6, "none"))
        /\ Undecided(Event("tool_result", ActionStub.tool, 6, "succeeded"))
        /\ Undecided(Event("verifier_request", ActionStub.verifier, 6, "none"))
        /\ Undecided(Event("verifier_result", ActionStub.verifier, 6, "pass"))
        /\ Undecided(Marker(checkpoint, 6))
    BY <1>2 DEF Event, Marker, Id, ActionStub, ActionExecution, Artifact
  <1> DEFINE stub == <<Event("tool_request", ActionStub.tool, 6, "none"),
                       Event("tool_result", ActionStub.tool, 6, "succeeded")>>
             rest == <<Event("verifier_request", ActionStub.verifier, 6, "none"),
                       Event("verifier_result", ActionStub.verifier, 6, "pass"),
                       Marker(checkpoint, 6)>>
  <1> HIDE DEF Undecided
  <1>4. ASSUME NEW i \in Positions PROVE Undecided(transcript[i])
    <2>1. CASE transcript = << >> \o rest
      BY <1>3, <2>1 DEF Positions
    <2>2. CASE transcript = stub \o rest
      BY <1>3, <2>2 DEF Positions
    <2> QED
      BY <2>1, <2>2 DEF Init, StubTranscript
  <1> QED
    BY <1>2, <1>4 DEF Undecided, DecidedAt, MarksCheckpoint

-----------------------------------------------------------------------------
(* Three kinds of step: one that writes nothing, one that saves the        *)
(* checkpoint, one that appends to the transcript                          *)

LEMMA OthersBacked ==
    ASSUME HistoryBacked, NEW o \in Operators, Confined(o), Grown, OperatorBacked(o)'
    PROVE  \A p \in Operators : OperatorBacked(p)'
  <1> SUFFICES ASSUME NEW p \in Operators, p # o PROVE OperatorBacked(p)'
    OBVIOUS
  <1>1. OperatorBacked(p)
    BY DEF HistoryBacked
  <1>2. /\ pc'[p] = pc[p] /\ job'[p] = job[p] /\ context'[p] = context[p]
        /\ branch'[p] = branch[p] /\ verdict'[p] = verdict[p]
    BY DEF Confined
  <1> QED
    BY <1>1, <1>2 DEF OperatorBacked, ClaimsBacked, Approves, Grown

LEMMA QuietStep ==
    ASSUME HistoryBacked, NEW o \in Operators, Confined(o), UNCHANGED durable,
           rollbacksSent' # rollbacksSent => Requested,
           OperatorBacked(o)'
    PROVE  HistoryBacked'
  BY OthersBacked, UnloggedGrown DEF HistoryBacked, ClaimsBacked, durable, RollbackIsRecorded

LEMMA SavingStep ==
    ASSUME HistoryBacked, NEW o \in Operators, Confined(o),
           UNCHANGED <<transcript, environment>>,
           ClaimsBacked(checkpoint'), OperatorBacked(o)'
    PROVE  HistoryBacked'
  BY OthersBacked, UnloggedGrown
  DEF HistoryBacked, ClaimsBacked, environment, RollbackIsRecorded

LEMMA LoggingStep ==
    ASSUME TypeOK, HistoryBacked, NEW o \in Operators, Confined(o), NEW e, Append1(e),
           NeedsApproval(e) => Approved,
           UNCHANGED <<checkpoint, environment>>,
           OperatorBacked(o)'
    PROVE  HistoryBacked'
  BY OthersBacked, LoggedGrown, LoggedOrder
  DEF HistoryBacked, ClaimsBacked, environment, RollbackIsRecorded, Grown

\* A command that ends or loads afresh holds nothing that needs backing.
LEMMA FreshOperator ==
    ASSUME TypeOK, NEW o \in Operators,
           Finish(o) \/ \E next \in Jobs : Continue(o, next)
    PROVE  Confined(o) /\ OperatorBacked(o)'
  BY DEF TypeOK, VolatileTypeOK, Finish, Continue, Goto, NoCheckpoint, Confined,
     OperatorBacked, ClaimsBacked, RollbackLabels

\* A probe is chosen only when the committed transcript holds the rollback's
\* successful result and its passed verdict.
LEMMA ProbedBranch ==
    ASSUME TypeOK, NEW o \in Operators, OutcomeBranch(o) = "probe_outcome"
    PROVE  RolledBack
  <1>1. "artifact" \in ExecutionRecord(o)
    BY DEF OutcomeBranch
  <1>2. PICK n \in CommitPoint(context[o], transcript) :
            VerifiedRecord(transcript, n, ActionExecution) = "artifact"
    BY <1>1 DEF ExecutionRecord, VerifiedActionExecution
  <1>3. 1 .. n \subseteq Positions
    BY <1>2 DEF CommitPoint, LatestOf, Positions, TypeOK, DurableTypeOK
  <1>4. PICK i \in MatchingResult(transcript, n, ActionExecution) :
            transcript[i].status = "succeeded"
    BY <1>2 DEF VerifiedRecord
  <1>5. i \in AtAttempt(transcript, n, ActionExecution, "tool_result", ActionExecution.tool)
    BY <1>4 DEF MatchingResult, LatestOf, FirstOf
  <1>6. PICK j \in MatchingVerdict(transcript, n, ActionExecution) :
            transcript[j].status = "pass"
    BY <1>2 DEF VerifiedRecord
  <1>7. j \in AtAttempt(transcript, n, ActionExecution, "verifier_result",
                        ActionExecution.verifier)
    BY <1>6 DEF MatchingVerdict, LatestOf
  <1> QED
    BY <1>3, <1>4, <1>5, <1>6, <1>7 DEF AtAttempt, RolledBack, SucceededAt, PassedAt

-----------------------------------------------------------------------------
(* The invariant *)

LEMMA InitHistoryBacked == Init => HistoryBacked
  <1> SUFFICES ASSUME Init PROVE HistoryBacked
    OBVIOUS
  <1>1. ClaimsBacked(checkpoint)
    <2>1. PICK phase \in StubPhases, mode \in StartModes :
              checkpoint = StubCheckpoint(phase, mode)
      BY DEF Init
    <2> QED
      BY <2>1, StubAssumption DEF StubCheckpoint, ClaimsBacked, StubStates
  <1>2. \A o \in Operators : OperatorBacked(o)
    BY DEF Init, OperatorBacked, ClaimsBacked, NoCheckpoint, RollbackLabels
  <1>3. \A i \in Positions : ~NeedsApproval(transcript[i])
    <2>1. transcript = StubTranscript(checkpoint)
      BY DEF Init
    <2>2. /\ ~NeedsApproval(Event("tool_request", ActionStub.tool, 6, "none"))
          /\ ~NeedsApproval(Event("tool_result", ActionStub.tool, 6, "succeeded"))
          /\ ~NeedsApproval(Event("verifier_request", ActionStub.verifier, 6, "none"))
          /\ ~NeedsApproval(Event("verifier_result", ActionStub.verifier, 6, "pass"))
          /\ ~NeedsApproval(Marker(checkpoint, 6))
      BY DEF NeedsApproval, Event, Marker, ActionStub, ActionExecution, Artifact
    <2> DEFINE stub == <<Event("tool_request", ActionStub.tool, 6, "none"),
                         Event("tool_result", ActionStub.tool, 6, "succeeded")>>
               rest == <<Event("verifier_request", ActionStub.verifier, 6, "none"),
                         Event("verifier_result", ActionStub.verifier, 6, "pass"),
                         Marker(checkpoint, 6)>>
    <2>3. CASE transcript = << >> \o rest
      BY <2>2, <2>3 DEF Positions
    <2>4. CASE transcript = stub \o rest
      BY <2>2, <2>4 DEF Positions
    <2> QED
      BY <2>1, <2>3, <2>4 DEF StubTranscript
  <1>4. RequestFollowsApproval /\ SuccessFollowsApproval
    BY <1>3 DEF RequestFollowsApproval, SuccessFollowsApproval, RequestedAt, SucceededAt,
       NeedsApproval
  <1> QED
    BY <1>1, <1>2, <1>4 DEF Init, HistoryBacked, RollbackIsRecorded

LEMMA NextHistoryBacked == TypeInv /\ HistoryBacked /\ [Next]_vars => HistoryBacked'
  <1> SUFFICES ASSUME TypeInv, HistoryBacked, [Next]_vars PROVE HistoryBacked'
    OBVIOUS
  <1>0. TypeOK
    BY DEF TypeInv
  <1>00. \A o \in Operators : OperatorBacked(o)
    BY DEF HistoryBacked
  <1> USE <1>0, <1>00
  <1>1. ASSUME NEW o \in Operators, NEW command \in Commands, StartCommand(o, command)
        PROVE  HistoryBacked'
    <2>1. Confined(o)
      BY <1>1 DEF StartCommand, Goto, Confined, slice, TypeOK, VolatileTypeOK
    <2>2. OperatorBacked(o)'
      BY <1>1, UnloggedGrown DEF StartCommand, Goto, OperatorBacked, ClaimsBacked,
         RollbackLabels, durable, slice, TypeOK, VolatileTypeOK
    <2> QED
      BY <1>1, <2>1, <2>2, QuietStep DEF StartCommand, environment
  <1>2. ASSUME NEW o \in Operators, ReadCheckpoint(o) PROVE HistoryBacked'
    <2>1. Confined(o)
      BY <1>2 DEF ReadCheckpoint, Goto, Confined, slice, TypeOK, VolatileTypeOK
    <2>2. ClaimsBacked(checkpoint)
      BY DEF HistoryBacked
    <2>3. OperatorBacked(o)'
      BY <1>2, <2>2, UnloggedGrown DEF ReadCheckpoint, Goto, OperatorBacked, ClaimsBacked,
         RollbackLabels, durable, slice, TypeOK, VolatileTypeOK
    <2> QED
      BY <1>2, <2>1, <2>3, QuietStep DEF ReadCheckpoint, environment
  <1>3. ASSUME NEW o \in Operators, Reject(o) PROVE HistoryBacked'
    <2>1. Confined(o) /\ OperatorBacked(o)'
      BY <1>3, FreshOperator DEF Reject
    <2> QED
      BY <1>3, <2>1, QuietStep DEF Reject, environment
  <1>4. ASSUME NEW o \in Operators, BeginResolve(o) PROVE HistoryBacked'
    <2>1. Confined(o)
      BY <1>4 DEF BeginResolve, Goto, Confined, TypeOK, VolatileTypeOK, slice
    <2>2. OperatorBacked(o)'
      BY <1>4, UnloggedGrown DEF BeginResolve, Goto, OperatorBacked, ClaimsBacked, Approves,
         RollbackLabels, TypeOK, VolatileTypeOK, durable, slice
    <2> QED
      BY <1>4, <2>1, <2>2, QuietStep DEF BeginResolve, environment
  <1>5. ASSUME NEW o \in Operators, RecordDecision(o) PROVE HistoryBacked'
    <2> DEFINE e == Event("approval_resolved", job[o].argument, NextStep(o), ApprovalOf(o))
    <2>1. Append1(e) /\ Confined(o)
      BY <1>5 DEF RecordDecision, Goto, Confined, slice, TypeOK, VolatileTypeOK
    <2>2. ~NeedsApproval(e)
      BY DEF NeedsApproval, Event
    <2>3. Approves(o) => Approved'
      BY <2>1, AppendedPositions DEF Approved, ApprovedAt, Event, ApprovalOf
    <2>4. OperatorBacked(o)'
      BY <1>5, <2>1, <2>3, LoggedGrown DEF RecordDecision, Goto, OperatorBacked, ClaimsBacked,
         Approves,
         RollbackLabels, Grown, slice, TypeOK, VolatileTypeOK
    <2> QED
      BY <1>5, <2>1, <2>2, <2>4, LoggingStep DEF RecordDecision
  <1>6. ASSUME NEW o \in Operators, SaveDecision(o) PROVE HistoryBacked'
    <2>1. Confined(o)
      BY <1>6 DEF SaveDecision, Goto, Confined, slice, TypeOK, VolatileTypeOK
    <2>2. ClaimsBacked(checkpoint')
      BY <1>6 DEF SaveDecision, ResolutionCheckpoint, ApprovalOf, OperatorBacked, ClaimsBacked,
         TypeOK, VolatileTypeOK, Checkpoints
    <2>3. OperatorBacked(o)'
      BY <1>6, UnloggedGrown DEF SaveDecision, Goto, OperatorBacked, ClaimsBacked, Approves,
         RollbackLabels, slice, TypeOK, VolatileTypeOK
    <2> QED
      BY <1>6, <2>1, <2>2, <2>3, SavingStep DEF SaveDecision
  <1>7. ASSUME NEW o \in Operators, MarkDecision(o) PROVE HistoryBacked'
    <2> DEFINE e == Marker(ResolutionCheckpoint(o), NextStep(o))
    <2>1. Append1(e) /\ ~NeedsApproval(e)
      BY <1>7 DEF MarkDecision, NeedsApproval, Marker, TornLine, Event
    <2>2. Confined(o) /\ OperatorBacked(o)'
      BY <1>7, FreshOperator DEF MarkDecision, Jobs, AutoJob
    <2> QED
      BY <1>7, <2>1, <2>2, LoggingStep DEF MarkDecision
  <1>8. ASSUME NEW o \in Operators, BeginExecute(o) PROVE HistoryBacked'
    <2>1. Confined(o)
      BY <1>8 DEF BeginExecute, Goto, Confined, TypeOK, VolatileTypeOK
    <2>2. OperatorBacked(o)'
      BY <1>8, UnloggedGrown DEF BeginExecute, Goto, OperatorBacked, ClaimsBacked, Approves,
         RollbackLabels, TypeOK, VolatileTypeOK, durable, RollbackBranch
    <2> QED
      BY <1>8, <2>1, <2>2, QuietStep DEF BeginExecute, environment
  <1>9. ASSUME NEW o \in Operators, RequestRollback(o) PROVE HistoryBacked'
    <2> DEFINE e == Event("tool_request", ActionExecution.tool, NextStep(o), "none")
    <2>1. Append1(e) /\ Confined(o)
      BY <1>9 DEF RequestRollback, Goto, Confined, slice, TypeOK, VolatileTypeOK
    <2>2. Approved
      BY <1>9 DEF RequestRollback, OperatorBacked, ClaimsBacked, RollbackLabels
    <2>3. Requested'
      BY <2>1, AppendedPositions DEF Requested, RequestedAt, Event
    <2>4. OperatorBacked(o)'
      BY <1>9, <2>1, <2>3, LoggedGrown DEF RequestRollback, Goto, OperatorBacked, ClaimsBacked,
         Approves,
         RollbackLabels, Grown, slice, TypeOK, VolatileTypeOK
    <2> QED
      BY <1>9, <2>1, <2>2, <2>4, LoggingStep DEF RequestRollback
  <1>10. ASSUME NEW o \in Operators, CheckTarget(o) PROVE HistoryBacked'
    <2>1. Confined(o)
      BY <1>10 DEF CheckTarget, Goto, Confined, TypeOK, VolatileTypeOK, ToolEnds
    <2>2. OperatorBacked(o)'
      BY <1>10, UnloggedGrown DEF CheckTarget, Goto, OperatorBacked, ClaimsBacked, Approves,
         RollbackLabels, TypeOK, VolatileTypeOK, durable, ToolEnds
    <2> QED
      BY <1>10, <2>1, <2>2, QuietStep DEF CheckTarget, environment
  <1>11. ASSUME NEW o \in Operators, PostRollback(o) PROVE HistoryBacked'
    <2>1. Confined(o)
      BY <1>11 DEF PostRollback, Goto, Confined, TypeOK, VolatileTypeOK, ToolEnds
    <2>2. OperatorBacked(o)'
      BY <1>11, UnloggedGrown DEF PostRollback, Goto, OperatorBacked, ClaimsBacked, Approves,
         RollbackLabels, TypeOK, VolatileTypeOK, durable, ToolEnds
    <2>3. Requested
      BY <1>11 DEF PostRollback, OperatorBacked, RollbackLabels
    <2> QED
      BY <1>11, <2>1, <2>2, <2>3, QuietStep DEF PostRollback, environment
  <1>12. ASSUME NEW o \in Operators, ReadBack(o) PROVE HistoryBacked'
    <2>1. Confined(o)
      BY <1>12 DEF ReadBack, Goto, Confined, TypeOK, VolatileTypeOK, ToolEnds
    <2>2. OperatorBacked(o)'
      BY <1>12, UnloggedGrown DEF ReadBack, Goto, OperatorBacked, ClaimsBacked, Approves,
         RollbackLabels, TypeOK, VolatileTypeOK, durable, ToolEnds
    <2> QED
      BY <1>12, <2>1, <2>2, QuietStep DEF ReadBack, environment
  <1>13. ASSUME NEW o \in Operators, RecordRollback(o) PROVE HistoryBacked'
    <2> DEFINE e == Event("tool_result", ActionExecution.tool, NextStep(o), ResultStatus(o))
    <2>1. Append1(e) /\ Confined(o)
      BY <1>13 DEF RecordRollback, Goto, Confined, slice, TypeOK, VolatileTypeOK
    <2>2. Approved
      BY <1>13 DEF RecordRollback, OperatorBacked, ClaimsBacked, RollbackLabels
    <2>3. OperatorBacked(o)'
      BY <1>13, <2>1, LoggedGrown DEF RecordRollback, Goto, OperatorBacked, ClaimsBacked, Approves,
         RollbackLabels, Grown, slice, TypeOK, VolatileTypeOK
    <2> QED
      BY <1>13, <2>1, <2>2, <2>3, LoggingStep DEF RecordRollback
  <1>14. ASSUME NEW o \in Operators, BeginProbe(o) PROVE HistoryBacked'
    <2>1. Confined(o)
      BY <1>14 DEF BeginProbe, Goto, Confined, TypeOK, VolatileTypeOK
    <2>2. branch'[o] = "probe_outcome" => RolledBack
      BY <1>14, ProbedBranch DEF BeginProbe, TypeOK, VolatileTypeOK
    <2>3. pc'[o] \in {"request_probe", "request_verifier"}
      BY <1>14 DEF BeginProbe, Goto, TypeOK, VolatileTypeOK
    <2>4. OperatorBacked(o)'
      BY <1>14, <2>2, <2>3, UnloggedGrown DEF BeginProbe, OperatorBacked, ClaimsBacked,
         RollbackLabels, durable
    <2> QED
      BY <1>14, <2>1, <2>4, QuietStep DEF BeginProbe, environment
  <1>15. ASSUME NEW o \in Operators, RequestProbe(o) PROVE HistoryBacked'
    <2> DEFINE e == Event("tool_request", OutcomeVerification.tool, NextStep(o), "none")
    <2>1. Append1(e) /\ Confined(o)
      BY <1>15 DEF RequestProbe, Goto, Confined, slice, TypeOK, VolatileTypeOK
    <2>2. ~NeedsApproval(e)
      BY DEF NeedsApproval, Event, ActionExecution, OutcomeVerification, Artifact
    <2>3. OperatorBacked(o)'
      BY <1>15, <2>1, LoggedGrown DEF RequestProbe, Goto, OperatorBacked, ClaimsBacked, Approves,
         RollbackLabels, Grown, slice, TypeOK, VolatileTypeOK
    <2> QED
      BY <1>15, <2>1, <2>2, <2>3, LoggingStep DEF RequestProbe
  <1>16. ASSUME NEW o \in Operators, ProbeEndpoint(o) PROVE HistoryBacked'
    <2>1. PICK k \in 1 .. 3 : ProbeEndpoint(o)!(k)
      BY <1>16 DEF ProbeEndpoint
    <2>2. UNCHANGED <<durable, environment, job, context, branch, verdict>>
      BY <2>1
    <2>3. \E next \in WaitLabels : pc' = [pc EXCEPT ![o] = next]
      BY <2>1 DEF ToolEnds, Goto, ProbeLabels, WaitLabels
    <2>4. pc'[o] \in {"probe_metrics", "probe_health", "record_probe"}
      BY <2>1 DEF ToolEnds, Goto, ProbeLabels, TypeOK, VolatileTypeOK
    <2>5. Confined(o)
      BY <2>2, <2>3 DEF Confined, TypeOK, VolatileTypeOK
    <2>6. OperatorBacked(o)'
      BY <2>2, <2>4, UnloggedGrown DEF OperatorBacked, ClaimsBacked, RollbackLabels, durable
    <2> QED
      BY <2>2, <2>5, <2>6, QuietStep DEF environment
  <1>17. ASSUME NEW o \in Operators, RecordProbe(o) PROVE HistoryBacked'
    <2> DEFINE e == Event("tool_result", OutcomeVerification.tool, NextStep(o), ResultStatus(o))
    <2>1. Append1(e) /\ Confined(o)
      BY <1>17 DEF RecordProbe, Goto, Confined, slice, TypeOK, VolatileTypeOK
    <2>2. ~NeedsApproval(e)
      BY DEF NeedsApproval, Event, ActionExecution, OutcomeVerification, Artifact
    <2>3. OperatorBacked(o)'
      BY <1>17, <2>1, LoggedGrown DEF RecordProbe, Goto, OperatorBacked, ClaimsBacked, Approves,
         RollbackLabels, Grown, slice, TypeOK, VolatileTypeOK
    <2> QED
      BY <1>17, <2>1, <2>2, <2>3, LoggingStep DEF RecordProbe
  <1>18. ASSUME NEW o \in Operators, RequestVerifier(o) PROVE HistoryBacked'
    <2> DEFINE e == Event("verifier_request", VerifierOf(o), NextStep(o), "none")
    <2>1. Append1(e) /\ Confined(o)
      BY <1>18 DEF RequestVerifier, Goto, Confined, slice, TypeOK, VolatileTypeOK
    <2>2. ~NeedsApproval(e)
      BY DEF NeedsApproval, Event
    <2>3. OperatorBacked(o)'
      BY <1>18, <2>1, LoggedGrown DEF RequestVerifier, Goto, OperatorBacked, ClaimsBacked, Approves,
         RollbackLabels, Grown, slice, TypeOK, VolatileTypeOK
    <2> QED
      BY <1>18, <2>1, <2>2, <2>3, LoggingStep DEF RequestVerifier
  <1>19. ASSUME NEW o \in Operators, RecordVerdict(o) PROVE HistoryBacked'
    <2> DEFINE v == IF job[o].slice = "execute" THEN RollbackVerdict(o) ELSE OutcomeVerdict(o)
               e == Event("verifier_result", VerifierOf(o), NextStep(o), v)
    <2>1. /\ Append1(e) /\ Confined(o)
          /\ pc'[o] = "save_checkpoint" /\ verdict'[o] = v
          /\ UNCHANGED <<checkpoint, environment, job, context, branch>>
      BY <1>19 DEF RecordVerdict, Goto, Confined, TypeOK, VolatileTypeOK
    <2>2. ~NeedsApproval(e)
      BY DEF NeedsApproval, Event
    <2>3. ASSUME job[o].slice # "execute", v = "pass"
          PROVE  RolledBack' /\ Confirmed'
      <3>1. RolledBack
        BY <2>3 DEF OutcomeVerdict, OperatorBacked
      <3>2. Confirmed'
        BY <2>1, <2>3, AppendedPositions DEF Confirmed, PassedAt, Event, VerifierOf
      <3> QED
        BY <2>1, <3>1, <3>2, LoggedGrown DEF Grown
    <2>4. Grown
      BY <2>1, LoggedGrown
    <2> HIDE DEF v
    <2>5. OperatorBacked(o)'
      BY <2>1, <2>3, <2>4 DEF OperatorBacked, ClaimsBacked, RollbackLabels, Grown
    <2> QED
      BY <2>1, <2>2, <2>5, LoggingStep
  <1>20. ASSUME NEW o \in Operators, SaveCheckpoint(o) PROVE HistoryBacked'
    <2>1. Confined(o)
      BY <1>20 DEF SaveCheckpoint, Goto, Confined, slice, TypeOK, VolatileTypeOK
    <2>2. ClaimsBacked(checkpoint')
      BY <1>20 DEF SaveCheckpoint, StepCheckpoint, ExecutionPhase, OutcomePhase, OperatorBacked,
         ClaimsBacked, TypeOK, VolatileTypeOK, Checkpoints
    <2>3. OperatorBacked(o)'
      BY <1>20, UnloggedGrown DEF SaveCheckpoint, Goto, OperatorBacked, ClaimsBacked, Approves,
         RollbackLabels, slice, TypeOK, VolatileTypeOK
    <2> QED
      BY <1>20, <2>1, <2>2, <2>3, SavingStep DEF SaveCheckpoint
  <1>21. ASSUME NEW o \in Operators, MarkCheckpoint(o) PROVE HistoryBacked'
    <2> DEFINE e == Marker(StepCheckpoint(o), NextStep(o))
    <2>1. Append1(e) /\ ~NeedsApproval(e)
      BY <1>21 DEF MarkCheckpoint, NeedsApproval, Marker, TornLine, Event
    <2>2. Confined(o) /\ OperatorBacked(o)'
      BY <1>21, FreshOperator DEF MarkCheckpoint, Jobs, AutoJob
    <2> QED
      BY <1>21, <2>1, <2>2, LoggingStep DEF MarkCheckpoint
  <1>22. ASSUME NEW o \in Operators, SkipMode(o) PROVE HistoryBacked'
    <2>1. Confined(o) /\ OperatorBacked(o)'
      BY <1>22, FreshOperator DEF SkipMode, AutoJob, Jobs
    <2> QED
      BY <1>22, <2>1, QuietStep DEF SkipMode, environment
  <1>23. ASSUME NEW o \in Operators, BeginMode(o) PROVE HistoryBacked'
    <2>1. Confined(o)
      BY <1>23 DEF BeginMode, Goto, Confined, TypeOK, VolatileTypeOK, slice
    <2>2. OperatorBacked(o)'
      BY <1>23, UnloggedGrown DEF BeginMode, Goto, OperatorBacked, ClaimsBacked, Approves,
         RollbackLabels, TypeOK, VolatileTypeOK, durable, slice
    <2> QED
      BY <1>23, <2>1, <2>2, QuietStep DEF BeginMode, environment
  <1>24. ASSUME NEW o \in Operators, SaveMode(o) PROVE HistoryBacked'
    <2>1. Confined(o)
      BY <1>24 DEF SaveMode, Goto, Confined, slice, TypeOK, VolatileTypeOK
    <2>2. ClaimsBacked(checkpoint') /\ checkpoint' = context'[o]
      BY <1>24 DEF SaveMode, OperatorBacked, ClaimsBacked, TypeOK, VolatileTypeOK, Checkpoints
    <2>3. OperatorBacked(o)'
      BY <1>24, <2>2, UnloggedGrown DEF SaveMode, Goto, OperatorBacked, ClaimsBacked,
         RollbackLabels, slice, TypeOK, VolatileTypeOK
    <2> QED
      BY <1>24, <2>1, <2>2, <2>3, SavingStep DEF SaveMode
  <1>25. ASSUME NEW o \in Operators, MarkMode(o) PROVE HistoryBacked'
    <2> DEFINE e == Marker(context[o], context[o].step)
    <2>1. Append1(e) /\ ~NeedsApproval(e)
      BY <1>25 DEF MarkMode, NeedsApproval, Marker, TornLine, Event
    <2>2. Confined(o) /\ OperatorBacked(o)'
      BY <1>25, FreshOperator DEF MarkMode, Jobs, AutoJob
    <2> QED
      BY <1>25, <2>1, <2>2, LoggingStep DEF MarkMode
  <1>26. ASSUME NEW o \in Operators, SkipAuto(o) PROVE HistoryBacked'
    <2>1. Confined(o) /\ OperatorBacked(o)'
      BY <1>26, FreshOperator DEF SkipAuto
    <2> QED
      BY <1>26, <2>1, QuietStep DEF SkipAuto, environment
  <1>27. ASSUME NEW o \in Operators, BeginAuto(o) PROVE HistoryBacked'
    <2>1. Confined(o)
      BY <1>27 DEF BeginAuto, Goto, Confined, TypeOK, VolatileTypeOK
    <2>2. OperatorBacked(o)'
      BY <1>27, UnloggedGrown DEF BeginAuto, Goto, OperatorBacked, ClaimsBacked, Approves,
         RollbackLabels, TypeOK, VolatileTypeOK, durable
    <2> QED
      BY <1>27, <2>1, <2>2, QuietStep DEF BeginAuto, environment
  <1>28. ASSUME NEW o \in Operators, EvaluateGate(o) PROVE HistoryBacked'
    <2>1. Confined(o) /\ OperatorBacked(o)'
      BY <1>28, FreshOperator DEF EvaluateGate, Jobs, ShellStates
    <2> QED
      BY <1>28, <2>1, QuietStep DEF EvaluateGate, environment
  <1>29. ASSUME NEW o \in Operators, Crash(o) PROVE HistoryBacked'
    <2>1. Confined(o) /\ OperatorBacked(o)'
      BY <1>29, FreshOperator DEF Crash
    <2> QED
      BY <1>29, <2>1, QuietStep DEF Crash, environment
  <1>30. ASSUME NEW o \in Operators, CrashMidLine(o) PROVE HistoryBacked'
    <2> DEFINE e == TornLine
    <2>1. Append1(e) /\ ~NeedsApproval(e)
      BY <1>30 DEF CrashMidLine, NeedsApproval, Marker, TornLine, Event
    <2>2. Confined(o) /\ OperatorBacked(o)'
      BY <1>30, FreshOperator DEF CrashMidLine, Jobs, AutoJob
    <2> QED
      BY <1>30, <2>1, <2>2, LoggingStep DEF CrashMidLine
  <1>31. CASE RestartTarget
    BY <1>31, UnloggedGrown DEF RestartTarget, HistoryBacked, RollbackIsRecorded, OperatorBacked,
       ClaimsBacked, Approves, durable, slice
  <1>32. CASE UNCHANGED vars
    BY <1>32, UnloggedGrown DEF vars, HistoryBacked, RollbackIsRecorded, OperatorBacked,
       ClaimsBacked, Approves, durable, environment, slice
  <1> QED
    BY <1>1, <1>2, <1>3, <1>4, <1>5, <1>6, <1>7, <1>8, <1>9, <1>10, <1>11, <1>12, <1>13, <1>14,
       <1>15, <1>16, <1>17, <1>18, <1>19, <1>20, <1>21, <1>22, <1>23, <1>24, <1>25, <1>26, <1>27,
       <1>28, <1>29, <1>30, <1>31, <1>32 DEF Next, Proceed

\* The invariant holds in every run of any number of operators.
THEOREM HistoryIsBacked == Spec => [](TypeInv /\ HistoryBacked)
  <1>1. Init => TypeInv /\ HistoryBacked
    BY InitTypeInv, InitHistoryBacked
  <1>2. TypeInv /\ HistoryBacked /\ [Next]_vars => TypeInv' /\ HistoryBacked'
    BY NextTypeInv, NextHistoryBacked
  <1> QED
    BY <1>1, <1>2, PTL DEF Spec

\* No write-capable tool request enters the transcript without an approval before
\* it (deployment_rollback_execution.py:259-279), for every set of operators.
THEOREM RequestsFollowApprovals == Spec => []RequestFollowsApproval
  <1>1. HistoryBacked => RequestFollowsApproval
    BY DEF HistoryBacked
  <1> QED
    BY <1>1, HistoryIsBacked, PTL

\* No POST /rollback leaves before its request is on disk
\* (deployment_rollback_execution.py:332-345), for every set of operators.
THEOREM RollbacksAreRecorded == Spec => []RollbackIsRecorded
  <1>1. HistoryBacked => RollbackIsRecorded
    BY DEF HistoryBacked
  <1> QED
    BY <1>1, HistoryIsBacked, PTL

\* A session that says its outcome is verified has the approval, the rollback, its
\* verdict and the passed probe on record (deployment_outcome_verification.py:272-312),
\* for every set of operators and any number of crashes and re-verifications.
THEOREM SuccessIsBacked == Spec => []SucceededIsBacked
  <1>1. HistoryBacked => SucceededIsBacked
    BY DEF HistoryBacked, ClaimsBacked, SuccessFollowsApproval, SucceededIsBacked, RolledBack
  <1> QED
    BY <1>1, HistoryIsBacked, PTL

=============================================================================
