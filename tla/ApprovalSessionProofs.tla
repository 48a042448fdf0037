------------------------ MODULE ApprovalSessionProofs ------------------------
(***************************************************************************)
(* The promises of a session driven by one operator at a time, for every   *)
(* subset of the commands and every bound on commands, crashes and service *)
(* restarts.  The argument is one inductive invariant, SessionConsistent,  *)
(* on top of TypeInv and HistoryBacked: what a file says is consistent     *)
(* with the other file at every moment a crash may leave them, and a       *)
(* command that got past its entry checks has seen the files as they are.  *)
(***************************************************************************)
EXTENDS ApprovalSafetyProofs

-----------------------------------------------------------------------------
(* What a step leaves of the files *)

LEMMA SameFiles ==
    ASSUME FilesConsistent, UNCHANGED <<checkpoint, transcript, rollbacksSent, stamps>>
    PROVE  /\ FilesConsistent'
           /\ NothingUntold' <=> NothingUntold
           /\ NotSent' <=> NotSent
           /\ \A type : LastEventIs(type)' <=> LastEventIs(type)
  <1>1. \A i : Untold(i)' <=> Untold(i)
    BY DEF Untold, DecidedAt, RequestedAt
  <1>2. \A n : MarksCheckpoint(n)' <=> MarksCheckpoint(n)
    BY DEF MarksCheckpoint
  <1>3. \A n : UnsafeAfter(n)' <=> UnsafeAfter(n)
    BY DEF UnsafeAfter, Positions
  <1>4. Positions' = Positions
    BY DEF Positions
  <1>5. MarkersMatch'
    BY <1>2, <1>3, <1>4 DEF FilesConsistent, MarkersMatch
  <1>6. UntoldComesLast' /\ (NothingUntold' <=> NothingUntold)
    BY <1>1, <1>2, <1>4 DEF FilesConsistent, UntoldComesLast, NothingUntold
  <1>7. StampsAreOld'
    BY <1>4 DEF FilesConsistent, StampsAreOld
  <1>8. NotSent' <=> NotSent
    BY UnloggedGrown DEF NotSent
  <1>9. RollbackAccounted'
    BY <1>4, <1>8 DEF FilesConsistent, RollbackAccounted, SucceededAt
  <1>10. \A type : LastEventIs(type)' <=> LastEventIs(type)
    BY DEF LastEventIs
  <1> QED
    BY <1>5, <1>6, <1>7, <1>8, <1>9, <1>10 DEF FilesConsistent

\* An event is written that is not a marker.
LEMMA LoggedFiles ==
    ASSUME TypeOK, FilesConsistent, NEW e \in Events, Append1(e),
           UNCHANGED <<checkpoint, rollbacksSent, stamps>>,
           e.type # "checkpoint_written", e.stamp = 0,
           e.type = "tool_request" /\ e.name = ActionExecution.tool
              => checkpoint.approval = "approved",
           e.type = "tool_result" /\ e.name = ActionExecution.tool /\ e.status = "succeeded"
              => rollbacksSent = 1
    PROVE  FilesConsistent' /\ LastEventIs(e.type)'
  <1>l. PICK last \in Nat : last = Len(transcript) + 1
    BY DEF TypeOK, DurableTypeOK
  <1>0. /\ Len(transcript) \in Nat
        /\ Positions' = Positions \cup {last}
        /\ \A i \in Positions : transcript'[i] = transcript[i]
        /\ transcript'[last] = e
        /\ \A i \in Positions : i \in Nat /\ i < last
    BY <1>l, AppendedPositions DEF Positions
  <1>1. \A i \in Positions : Untold(i)' <=> Untold(i)
    BY <1>0 DEF Untold, DecidedAt, RequestedAt
  <1>2. /\ \A n \in Positions : MarksCheckpoint(n)' <=> MarksCheckpoint(n)
        /\ ~MarksCheckpoint(last)'
    BY <1>0 DEF MarksCheckpoint
  <1>3. \A n \in Positions : UnsafeAfter(n) => UnsafeAfter(n)'
    BY <1>0 DEF UnsafeAfter
  <1>5. MarkersMatch'
    BY <1>0, <1>2, <1>3 DEF FilesConsistent, MarkersMatch
  <1>6. UntoldComesLast'
    BY <1>0, <1>1, <1>2 DEF FilesConsistent, UntoldComesLast
  <1>7. StampsAreOld'
    BY <1>0 DEF FilesConsistent, StampsAreOld, TypeOK, CountersTypeOK
  <1>8. RollbackAccounted'
    <2>1. checkpoint.approval # "approved" => ~Requested'
      BY <1>0 DEF FilesConsistent, RollbackAccounted, NotSent, Requested, RequestedAt
    <2>2. (\E i \in Positions' : SucceededAt(i, ActionExecution)') => rollbacksSent = 1
      BY <1>0 DEF FilesConsistent, RollbackAccounted, SucceededAt
    <2> QED
      BY <2>1, <2>2 DEF FilesConsistent, RollbackAccounted, NotSent
  <1>9. LastEventIs(e.type)'
    <2>1. Len(transcript') = last /\ last > 0
      BY <1>0, <1>l DEF TypeOK, DurableTypeOK, Append1
    <2> QED
      BY <1>0, <2>1 DEF LastEventIs
  <1> QED
    BY <1>5, <1>6, <1>7, <1>8, <1>9 DEF FilesConsistent

\* The checkpoint's own marker is written, and everything the transcript shows is told.
LEMMA MarkedFiles ==
    ASSUME TypeOK, FilesConsistent, NothingUntold,
           Append1(Marker(checkpoint, checkpoint.step)),
           UNCHANGED <<checkpoint, rollbacksSent, stamps>>
    PROVE  FilesConsistent'
  <1> DEFINE last == Len(transcript) + 1
             e == Marker(checkpoint, checkpoint.step)
  <1>0. /\ Len(transcript) \in Nat
        /\ Positions' = Positions \cup {last}
        /\ \A i \in Positions : transcript'[i] = transcript[i]
        /\ transcript'[last] = e
        /\ \A i \in Positions : i \in Nat /\ i < last
    BY AppendedPositions DEF Positions
  <1>1. \A i \in Positions' : ~Untold(i)'
    BY <1>0 DEF NothingUntold, Untold, DecidedAt, RequestedAt, Marker
  <1>2. /\ \A n \in Positions : MarksCheckpoint(n)' <=> MarksCheckpoint(n)
        /\ transcript'[last].status = checkpoint.phase
        /\ transcript'[last].step = checkpoint.step
    BY <1>0 DEF MarksCheckpoint, Marker
  <1>3. \A n \in Positions : UnsafeAfter(n) => UnsafeAfter(n)'
    BY <1>0 DEF UnsafeAfter
  <1>5. MarkersMatch'
    BY <1>0, <1>2, <1>3 DEF FilesConsistent, MarkersMatch
  <1>6. UntoldComesLast'
    BY <1>1 DEF UntoldComesLast
  <1>7. StampsAreOld'
    BY <1>0 DEF FilesConsistent, StampsAreOld, Marker
  <1>8. RollbackAccounted'
    <2>1. checkpoint.approval # "approved" => ~Requested'
      BY <1>0 DEF FilesConsistent, RollbackAccounted, NotSent, Requested, RequestedAt, Marker
    <2>2. (\E i \in Positions' : SucceededAt(i, ActionExecution)') => rollbacksSent = 1
      BY <1>0 DEF FilesConsistent, RollbackAccounted, SucceededAt, Marker
    <2> QED
      BY <2>1, <2>2 DEF FilesConsistent, RollbackAccounted, NotSent
  <1> QED
    BY <1>5, <1>6, <1>7, <1>8 DEF FilesConsistent

\* A checkpoint is saved over an unsafe tail that none of its markers follows.
LEMMA SavedFiles ==
    ASSUME TypeOK, FilesConsistent, UNCHANGED <<transcript, rollbacksSent, stamps>>,
           NEW type \in {"approval_resolved", "verifier_result"}, LastEventIs(type),
           checkpoint'.approval = StatusOf(checkpoint'.phase),
           checkpoint'.id.stamp = 0,
           NothingUntold',
           checkpoint'.approval # "approved" => NotSent
    PROVE  FilesConsistent'
  <1> DEFINE last == Len(transcript)
  <1>0. /\ Positions' = Positions /\ last \in Positions
        /\ \A i \in Positions : i \in Nat /\ i <= last
        /\ last \in Nat
        /\ transcript[last].type = type
    BY DEF Positions, LastEventIs, TypeOK, DurableTypeOK
  <1>1. MarkersMatch'
    <2> SUFFICES ASSUME NEW n \in Positions, MarksCheckpoint(n)' PROVE UnsafeAfter(n)'
      BY <1>0 DEF MarkersMatch
    <2>1. n < last
      BY <1>0 DEF MarksCheckpoint
    <2>2. UnsafeEvent(transcript[last])
      BY <1>0 DEF UnsafeEvent
    <2> QED
      BY <1>0, <2>1, <2>2 DEF UnsafeAfter
  <1>2. UntoldComesLast'
    BY DEF NothingUntold, UntoldComesLast
  <1>3. StampsAreOld'
    BY <1>0 DEF FilesConsistent, StampsAreOld, TypeOK, CountersTypeOK
  <1>4. RollbackAccounted'
    BY <1>0, UnloggedGrown DEF FilesConsistent, RollbackAccounted, NotSent, SucceededAt
  <1> QED
    BY <1>1, <1>2, <1>3, <1>4 DEF FilesConsistent

\* A session that loads has nothing untold, and the marker it was matched by is the
\* marker of this very checkpoint.
LEMMA LoadedFiles ==
    ASSUME TypeOK, FilesConsistent, Loadable(checkpoint, transcript)
    PROVE  /\ NothingUntold
           /\ \A n \in CommitPoint(checkpoint, transcript) :
                 transcript[n].status = checkpoint.phase /\ transcript[n].step = checkpoint.step
  <1>1. \A n \in CommitPoint(checkpoint, transcript) : n \in Positions /\ MarksCheckpoint(n)
    BY DEF CommitPoint, LatestOf, Positions, MarksCheckpoint
  <1>2. PICK n \in CommitPoint(checkpoint, transcript) : TailClass(transcript, n) # "unsafe"
    BY DEF Loadable
  <1>3. \A m \in CommitPoint(checkpoint, transcript) : m = n
    BY <1>2 DEF CommitPoint, LatestOf, TypeOK, DurableTypeOK
  <1>4. \A i \in (n + 1) .. Len(transcript) : ~UnsafeEvent(transcript[i])
    BY <1>2 DEF TailClass
  <1>5. \A i \in Positions : n < i => ~UnsafeEvent(transcript[i])
    BY <1>1, <1>2, <1>4 DEF Positions, TypeOK, DurableTypeOK
  <1>6. ~UnsafeAfter(n)
    BY <1>5 DEF UnsafeAfter
  <1>7. \A i \in Positions : Untold(i) => UnsafeEvent(transcript[i])
    <2>1. ActionExecution.tool \notin ReadOnlyTools
      BY DEF ReadOnlyTools, Triage, FollowUp, Evidence, Hypothesis, Recommendation, ActionStub,
         OutcomeVerification, ActionExecution, Artifact
    <2> QED
      BY <2>1 DEF Untold, DecidedAt, RequestedAt, UnsafeEvent
  <1>8. NothingUntold
    BY <1>1, <1>2, <1>5, <1>7 DEF NothingUntold, FilesConsistent, UntoldComesLast
  <1> QED
    BY <1>1, <1>2, <1>3, <1>6, <1>8 DEF FilesConsistent, MarkersMatch

-----------------------------------------------------------------------------
(* The invariant *)

\* A command that ends leaves nothing to be consistent with the files.
LEMMA EndedCommand ==
    ASSUME TypeOK, NEW o \in Operators, Finish(o)
    PROVE  CommandConsistent(o)'
  <1>1. pc'[o] = "idle" /\ job'[o] = NoJob
    BY DEF Finish, Goto, TypeOK, VolatileTypeOK
  <1> QED
    BY <1>1 DEF NoJob, CommandConsistent, SliceFits, LoadedIsCurrent, ResolvingFits, ExecutingFits,
       ProbingFits, ShellFits, RollbackLabels, ProbeSteps, VerifySteps

LEMMA ContinuedCommand ==
    ASSUME TypeOK, NEW o \in Operators, NEW next \in Jobs, Continue(o, next),
           next.slice = "execute" => checkpoint'.phase = "action_stub_approved" /\ NotSent',
           next.argument = "auto-approve" => checkpoint'.mode = "auto-safe"
    PROVE  CommandConsistent(o)'
  <1>1. pc'[o] = "load" /\ job'[o] = next
    BY DEF Continue, Goto, TypeOK, VolatileTypeOK
  <1> QED
    BY <1>1 DEF CommandConsistent, SliceFits, LoadedIsCurrent, ResolvingFits, ExecutingFits,
       ProbingFits, ShellFits, RollbackLabels, ProbeSteps, VerifySteps

LEMMA NextSessionConsistent ==
    ASSUME Solo, TypeInv, HistoryBacked, SessionConsistent, [Next]_vars
    PROVE  SessionConsistent'
  <1>0. /\ TypeOK /\ WriterJobs /\ FilesConsistent
        /\ \A o \in Operators : CommandConsistent(o) /\ OperatorBacked(o)
    BY DEF TypeInv, SessionConsistent, HistoryBacked
  <1> USE <1>0
  <1>00. ASSUME FilesConsistent', NEW o \in Operators, CommandConsistent(o)'
         PROVE  SessionConsistent'
    BY <1>00 DEF SessionConsistent, Solo
  <1>1. ASSUME NEW o \in Operators, NEW command \in Commands, StartCommand(o, command) PROVE SessionConsistent'
    <2>0. JobOf(command).slice # "execute" /\ JobOf(command).argument # "auto-approve"
      BY CommandsAssumption DEF JobOf, AllCommands, Decisions, Modes
    <2>1. FilesConsistent' /\ (NothingUntold' <=> NothingUntold) /\ (NotSent' <=> NotSent)
      BY <1>1, SameFiles DEF StartCommand, durable, environment, counters
    <2>2. CommandConsistent(o)'
      BY <1>1, <2>1, <2>0 DEF StartCommand, slice, environment, durable, CommandConsistent,
         SliceFits, LoadedIsCurrent, ResolvingFits, ExecutingFits, ProbingFits, ShellFits,
         RollbackLabels, ProbeSteps, VerifySteps, Goto, TypeOK, VolatileTypeOK
    <2> QED
      BY <2>1, <2>2, <1>00
  <1>2. ASSUME NEW o \in Operators, ReadCheckpoint(o) PROVE SessionConsistent'
    <2>1. FilesConsistent' /\ (NothingUntold' <=> NothingUntold) /\ (NotSent' <=> NotSent)
      BY <1>2, SameFiles DEF ReadCheckpoint, durable, environment, counters
    <2>2. CommandConsistent(o)'
      BY <1>2, <2>1 DEF ReadCheckpoint, slice, environment, durable, CommandConsistent, SliceFits,
         LoadedIsCurrent, ResolvingFits, ExecutingFits, ProbingFits, ShellFits,
         RollbackLabels, ProbeSteps, VerifySteps, Goto, TypeOK, VolatileTypeOK
    <2> QED
      BY <2>1, <2>2, <1>00
  <1>3. ASSUME NEW o \in Operators, Reject(o) PROVE SessionConsistent'
    <2>1. FilesConsistent'
      BY <1>3, SameFiles DEF Reject, durable, environment, counters
    <2>2. CommandConsistent(o)'
      BY <1>3, EndedCommand DEF Reject
    <2> QED
      BY <2>1, <2>2, <1>00
  <1>4. ASSUME NEW o \in Operators, BeginResolve(o) PROVE SessionConsistent'
    <2>a. context[o] = checkpoint
      BY <1>4 DEF BeginResolve, CommandConsistent, LoadedIsCurrent
    <2>b. NothingUntold
      BY <1>4, <2>a, LoadedFiles DEF BeginResolve, Accepted
    <2>1. FilesConsistent' /\ (NothingUntold' <=> NothingUntold) /\ (NotSent' <=> NotSent)
      BY <1>4, SameFiles DEF BeginResolve, durable, environment, counters
    <2>2. CommandConsistent(o)'
      BY <1>4, <2>1, <2>a, <2>b DEF BeginResolve, slice, environment, durable, CommandConsistent,
         SliceFits, LoadedIsCurrent, ResolvingFits, ExecutingFits, ProbingFits, ShellFits,
         RollbackLabels, ProbeSteps, VerifySteps, Goto, TypeOK, VolatileTypeOK, Accepted,
         APPROVAL_RESOLUTION_ENTRY_PHASES
    <2> QED
      BY <2>1, <2>2, <1>00
  <1>5. ASSUME NEW o \in Operators, RecordDecision(o) PROVE SessionConsistent'
    <2> DEFINE e == Event("approval_resolved", job[o].argument, NextStep(o), ApprovalOf(o))
    <2>1. Append1(e) /\ UNCHANGED <<checkpoint, rollbacksSent, stamps>>
      BY <1>5 DEF RecordDecision, environment, counters
    <2>2. e \in Events /\ e.type = "approval_resolved" /\ e.stamp = 0
      <3>1. job[o].argument \in {"approve", "deny", "auto-approve"}
        BY <1>5 DEF RecordDecision, WriterJobs, TypeOK, VolatileTypeOK, Jobs, Decisions
      <3> QED
        BY <3>1, EventType, WrittenCheckpoints DEF Event, EventTypes, EventNames, Statuses,
           ApprovalOf
    <2>3. e.type # "checkpoint_written" /\ e.type # "tool_request" /\ e.type # "tool_result"
      BY <2>2
    <2>4. FilesConsistent' /\ LastEventIs("approval_resolved")'
      BY <2>1, <2>2, <2>3, LoggedFiles
    <2>5. CommandConsistent(o)'
      BY <1>5, <2>4 DEF RecordDecision, slice, environment, CommandConsistent, SliceFits,
         LoadedIsCurrent, ResolvingFits, ExecutingFits, ProbingFits, ShellFits,
         RollbackLabels, ProbeSteps, VerifySteps, Goto, TypeOK, VolatileTypeOK
    <2> QED
      BY <2>4, <2>5, <1>00
  <1>6. ASSUME NEW o \in Operators, SaveDecision(o) PROVE SessionConsistent'
    <2>1. /\ context[o] = checkpoint /\ checkpoint.phase = "action_stub_pending_approval"
          /\ LastEventIs("approval_resolved")
      BY <1>6 DEF SaveDecision, CommandConsistent, LoadedIsCurrent, ResolvingFits
    <2>2. NotSent
      BY <2>1 DEF FilesConsistent, RollbackAccounted, StatusOf,
         OUTCOME_VERIFICATION_STEP_ENTRY_PHASES,
         ACTION_EXECUTION_PHASES, OUTCOME_VERIFICATION_PHASES
    <2>3. /\ checkpoint' = ResolutionCheckpoint(o)
          /\ checkpoint'.phase = IF Approves(o) THEN "action_stub_approved" ELSE "action_stub_denied"
          /\ checkpoint'.approval = ApprovalOf(o) /\ checkpoint'.id.stamp = 0
      BY <1>6 DEF SaveDecision, ResolutionCheckpoint, Id, TypeOK, VolatileTypeOK, Checkpoints
    <2>4. checkpoint'.approval = StatusOf(checkpoint'.phase)
      BY <2>3 DEF StatusOf, ApprovalOf, OUTCOME_VERIFICATION_STEP_ENTRY_PHASES,
         ACTION_EXECUTION_PHASES, OUTCOME_VERIFICATION_PHASES
    <2>5. UNCHANGED <<transcript, rollbacksSent, stamps>> /\ NotSent' 
      BY <1>6, <2>2, UnloggedGrown DEF SaveDecision, environment, counters, NotSent
    <2>6. NothingUntold'
      BY <2>3, <2>5 DEF NothingUntold, Untold, NotSent, Requested
    <2>7. FilesConsistent'
      BY <2>1, <2>2, <2>3, <2>4, <2>5, <2>6, SavedFiles
    <2>8. ResolutionCheckpoint(o)' = ResolutionCheckpoint(o)
      BY <1>6 DEF SaveDecision, ResolutionCheckpoint, ApprovalOf, Approves, NextStep
    <2>9. CommandConsistent(o)'
      BY <1>6, <2>3, <2>5, <2>8 DEF SaveDecision, WriterJobs, CommandConsistent, SliceFits,
         LoadedIsCurrent,
         ResolvingFits, ExecutingFits, ProbingFits, ShellFits, RollbackLabels, ProbeSteps,
         VerifySteps, Goto, TypeOK, VolatileTypeOK
    <2> QED
      BY <2>7, <2>9, <1>00
  <1>7. ASSUME NEW o \in Operators, MarkDecision(o) PROVE SessionConsistent'
    <2>1. checkpoint = ResolutionCheckpoint(o) /\ NotSent
      BY <1>7 DEF MarkDecision, CommandConsistent, LoadedIsCurrent, ResolvingFits
    <2>2. /\ checkpoint.phase = IF Approves(o) THEN "action_stub_approved" ELSE "action_stub_denied"
          /\ checkpoint.step = NextStep(o)
      BY <2>1 DEF ResolutionCheckpoint, TypeOK, VolatileTypeOK, Checkpoints
    <2>3. /\ Append1(Marker(checkpoint, checkpoint.step))
          /\ UNCHANGED <<checkpoint, rollbacksSent, stamps>>
      BY <1>7, <2>1, <2>2 DEF MarkDecision, environment, counters
    <2>4. NothingUntold
      BY <2>1, <2>2 DEF NothingUntold, Untold, NotSent, Requested
    <2>5. FilesConsistent'
      BY <2>3, <2>4, MarkedFiles
    <2>6. NotSent'
      BY <2>1, <2>3, AppendedPositions DEF NotSent, Requested, RequestedAt, Marker
    <2>7. [slice |-> "execute", argument |-> "none"] \in Jobs
      BY DEF Jobs
    <2>8. CommandConsistent(o)'
      BY <1>7, <2>2, <2>3, <2>6, <2>7, EndedCommand, ContinuedCommand DEF MarkDecision
    <2> QED
      BY <2>5, <2>8, <1>00
  <1>8. ASSUME NEW o \in Operators, BeginExecute(o) PROVE SessionConsistent'
    <2>a. context[o] = checkpoint
      BY <1>8 DEF BeginExecute, CommandConsistent, LoadedIsCurrent
    <2>1. FilesConsistent' /\ (NothingUntold' <=> NothingUntold) /\ (NotSent' <=> NotSent)
      BY <1>8, SameFiles DEF BeginExecute, durable, environment, counters
    <2>2. CommandConsistent(o)'
      BY <1>8, <2>1, <2>a DEF BeginExecute, slice, environment, durable, CommandConsistent,
         SliceFits, LoadedIsCurrent, ResolvingFits, ExecutingFits, ProbingFits, ShellFits,
         RollbackLabels, ProbeSteps, VerifySteps, Goto, TypeOK, VolatileTypeOK
    <2> QED
      BY <2>1, <2>2, <1>00
  <1>9. ASSUME NEW o \in Operators, RequestRollback(o) PROVE SessionConsistent'
    <2> DEFINE e == Event("tool_request", ActionExecution.tool, NextStep(o), "none")
    <2>1. Append1(e) /\ UNCHANGED <<checkpoint, rollbacksSent, stamps>>
      BY <1>9 DEF RequestRollback, environment, counters
    <2>2. e \in Events /\ e.type = "tool_request" /\ e.stamp = 0
      BY EventType, WrittenCheckpoints DEF Event, EventTypes, EventNames, Statuses
    <2>a. job[o].slice = "execute" /\ context[o] = checkpoint /\ NotSent
      BY <1>9 DEF RequestRollback, CommandConsistent, SliceFits, LoadedIsCurrent, ExecutingFits,
         RollbackLabels
    <2>3. e.type # "checkpoint_written" /\ checkpoint.approval = "approved"
      BY <1>9, <2>2, <2>a DEF RequestRollback, OperatorBacked, RollbackLabels
    <2>4. FilesConsistent' /\ LastEventIs("tool_request")'
      BY <2>1, <2>2, <2>3, LoggedFiles
    <2>5. CommandConsistent(o)'
      BY <1>9, <2>4, <2>a DEF RequestRollback, slice, environment, CommandConsistent, SliceFits,
         LoadedIsCurrent, ResolvingFits, ExecutingFits, ProbingFits, ShellFits,
         RollbackLabels, ProbeSteps, VerifySteps, Goto, TypeOK, VolatileTypeOK, NotSent
    <2> QED
      BY <2>4, <2>5, <1>00
  <1>10. ASSUME NEW o \in Operators, CheckTarget(o) PROVE SessionConsistent'
    <2>1. FilesConsistent' /\ (NothingUntold' <=> NothingUntold) /\ (NotSent' <=> NotSent)
      BY <1>10, SameFiles DEF CheckTarget, durable, environment, counters
    <2>2. CommandConsistent(o)'
      BY <1>10, <2>1 DEF CheckTarget, slice, environment, durable, CommandConsistent, SliceFits,
         LoadedIsCurrent, ResolvingFits, ExecutingFits, ProbingFits, ShellFits,
         RollbackLabels, ProbeSteps, VerifySteps, Goto, TypeOK, VolatileTypeOK, ToolEnds
    <2> QED
      BY <2>1, <2>2, <1>00
  <1>11. ASSUME NEW o \in Operators, PostRollback(o) PROVE SessionConsistent'
    <2>1. /\ rollbacksSent = 0 /\ job[o].slice = "execute"
          /\ checkpoint.phase = "action_stub_approved" /\ context[o] = checkpoint
      BY <1>11 DEF PostRollback, CommandConsistent, SliceFits, LoadedIsCurrent, ExecutingFits,
         RollbackLabels
    <2>2. rollbacksSent' = 1 /\ UNCHANGED <<checkpoint, transcript, stamps>>
      BY <1>11, <2>1 DEF PostRollback, durable, counters
    <2>3. checkpoint.approval = "approved"
      BY <2>1 DEF FilesConsistent, StatusOf
    <2>4. FilesConsistent'
      <3>1. MarkersMatch'
        BY <2>2 DEF FilesConsistent, MarkersMatch, MarksCheckpoint, UnsafeAfter, Positions
      <3>2. UntoldComesLast'
        BY <2>2 DEF FilesConsistent, UntoldComesLast, Untold, DecidedAt, RequestedAt,
           MarksCheckpoint, Positions
      <3>3. StampsAreOld' /\ RollbackAccounted'
        BY <2>2, <2>3 DEF FilesConsistent, StampsAreOld, RollbackAccounted, Positions
      <3> QED
        BY <2>2, <3>1, <3>2, <3>3 DEF FilesConsistent
    <2>5. CommandConsistent(o)'
      BY <1>11, <2>1, <2>2 DEF PostRollback, ToolEnds, CommandConsistent, SliceFits,
         LoadedIsCurrent,
         ResolvingFits, ExecutingFits, ProbingFits, ShellFits, RollbackLabels, ProbeSteps,
         VerifySteps, Goto, TypeOK, VolatileTypeOK
    <2> QED
      BY <2>4, <2>5, <1>00
  <1>12. ASSUME NEW o \in Operators, ReadBack(o) PROVE SessionConsistent'
    <2>1. FilesConsistent' /\ (NothingUntold' <=> NothingUntold) /\ (NotSent' <=> NotSent)
      BY <1>12, SameFiles DEF ReadBack, durable, environment, counters
    <2>2. CommandConsistent(o)'
      BY <1>12, <2>1 DEF ReadBack, slice, environment, durable, CommandConsistent, SliceFits,
         LoadedIsCurrent, ResolvingFits, ExecutingFits, ProbingFits, ShellFits,
         RollbackLabels, ProbeSteps, VerifySteps, Goto, TypeOK, VolatileTypeOK, ToolEnds
    <2> QED
      BY <2>1, <2>2, <1>00
  <1>13. ASSUME NEW o \in Operators, RecordRollback(o) PROVE SessionConsistent'
    <2> DEFINE e == Event("tool_result", ActionExecution.tool, NextStep(o), ResultStatus(o))
    <2>1. Append1(e) /\ UNCHANGED <<checkpoint, rollbacksSent, stamps>>
      BY <1>13 DEF RecordRollback, environment, counters
    <2>2. e \in Events /\ e.type = "tool_result" /\ e.stamp = 0
      BY EventType, WrittenCheckpoints DEF Event, EventTypes, EventNames, Statuses, ResultStatus
    <2>3. e.type # "checkpoint_written" /\ e.type # "tool_request" 
          /\ (e.status = "succeeded" => rollbacksSent = 1)
      BY <1>13, <2>2 DEF RecordRollback, CommandConsistent, ExecutingFits, Event, ResultStatus
    <2>4. FilesConsistent' /\ LastEventIs("tool_result")'
      BY <2>1, <2>2, <2>3, LoggedFiles
    <2>5. CommandConsistent(o)'
      BY <1>13, <2>4 DEF RecordRollback, slice, environment, CommandConsistent, SliceFits,
         LoadedIsCurrent, ResolvingFits, ExecutingFits, ProbingFits, ShellFits,
         RollbackLabels, ProbeSteps, VerifySteps, Goto, TypeOK, VolatileTypeOK
    <2> QED
      BY <2>4, <2>5, <1>00
  <1>14. ASSUME NEW o \in Operators, BeginProbe(o) PROVE SessionConsistent'
    <2>a. context[o] = checkpoint
      BY <1>14 DEF BeginProbe, CommandConsistent, LoadedIsCurrent
    <2>1. FilesConsistent' /\ (NothingUntold' <=> NothingUntold) /\ (NotSent' <=> NotSent)
      BY <1>14, SameFiles DEF BeginProbe, durable, environment, counters
    <2>2. CommandConsistent(o)'
      BY <1>14, <2>1, <2>a DEF BeginProbe, slice, environment, durable, CommandConsistent,
         SliceFits, LoadedIsCurrent, ResolvingFits, ExecutingFits, ProbingFits, ShellFits,
         RollbackLabels, ProbeSteps, VerifySteps, Goto, TypeOK, VolatileTypeOK, Accepted
    <2> QED
      BY <2>1, <2>2, <1>00
  <1>15. ASSUME NEW o \in Operators, RequestProbe(o) PROVE SessionConsistent'
    <2> DEFINE e == Event("tool_request", OutcomeVerification.tool, NextStep(o), "none")
    <2>1. Append1(e) /\ UNCHANGED <<checkpoint, rollbacksSent, stamps>>
      BY <1>15 DEF RequestProbe, environment, counters
    <2>2. e \in Events /\ e.type = "tool_request" /\ e.stamp = 0
      BY EventType, WrittenCheckpoints DEF Event, EventTypes, EventNames, Statuses
    <2>3. e.type # "checkpoint_written" /\ e.name # ActionExecution.tool
      BY <2>2 DEF Event, OutcomeVerification, ActionExecution, Artifact
    <2>4. FilesConsistent' /\ LastEventIs("tool_request")'
      BY <2>1, <2>2, <2>3, LoggedFiles
    <2>5. CommandConsistent(o)'
      BY <1>15, <2>4 DEF RequestProbe, slice, environment, CommandConsistent, SliceFits,
         LoadedIsCurrent, ResolvingFits, ExecutingFits, ProbingFits, ShellFits,
         RollbackLabels, ProbeSteps, VerifySteps, Goto, TypeOK, VolatileTypeOK
    <2> QED
      BY <2>4, <2>5, <1>00
  <1>16. ASSUME NEW o \in Operators, ProbeEndpoint(o) PROVE SessionConsistent'
    <2>1. PICK k \in 1 .. 3 : ProbeEndpoint(o)!(k)
      BY <1>16 DEF ProbeEndpoint
    <2>2. UNCHANGED <<durable, environment, job, context, counters>>
      BY <2>1
    <2>3. pc[o] \in {"probe_deployment", "probe_metrics", "probe_health"}
      BY <2>1 DEF ProbeLabels
    <2>4. pc'[o] \in {"probe_metrics", "probe_health", "record_probe"}
      BY <2>1 DEF ToolEnds, Goto, ProbeLabels, TypeOK, VolatileTypeOK
    <2>5. FilesConsistent'
      BY <2>2, SameFiles DEF durable, environment, counters
    <2>6. CommandConsistent(o)'
      BY <2>2, <2>3, <2>4 DEF durable, CommandConsistent, SliceFits, LoadedIsCurrent, ResolvingFits,
         ExecutingFits, ProbingFits, ShellFits, RollbackLabels, ProbeSteps, VerifySteps
    <2> QED
      BY <2>5, <2>6, <1>00
  <1>17. ASSUME NEW o \in Operators, RecordProbe(o) PROVE SessionConsistent'
    <2> DEFINE e == Event("tool_result", OutcomeVerification.tool, NextStep(o), ResultStatus(o))
    <2>1. Append1(e) /\ UNCHANGED <<checkpoint, rollbacksSent, stamps>>
      BY <1>17 DEF RecordProbe, environment, counters
    <2>2. e \in Events /\ e.type = "tool_result" /\ e.stamp = 0
      BY EventType, WrittenCheckpoints DEF Event, EventTypes, EventNames, Statuses, ResultStatus
    <2>3. e.type # "checkpoint_written" /\ e.name # ActionExecution.tool
      BY <2>2 DEF Event, OutcomeVerification, ActionExecution, Artifact
    <2>4. FilesConsistent' /\ LastEventIs("tool_result")'
      BY <2>1, <2>2, <2>3, LoggedFiles
    <2>5. CommandConsistent(o)'
      BY <1>17, <2>4 DEF RecordProbe, slice, environment, CommandConsistent, SliceFits,
         LoadedIsCurrent, ResolvingFits, ExecutingFits, ProbingFits, ShellFits,
         RollbackLabels, ProbeSteps, VerifySteps, Goto, TypeOK, VolatileTypeOK
    <2> QED
      BY <2>4, <2>5, <1>00
  <1>18. ASSUME NEW o \in Operators, RequestVerifier(o) PROVE SessionConsistent'
    <2> DEFINE e == Event("verifier_request", VerifierOf(o), NextStep(o), "none")
    <2>1. Append1(e) /\ UNCHANGED <<checkpoint, rollbacksSent, stamps>>
      BY <1>18 DEF RequestVerifier, environment, counters
    <2>2. e \in Events /\ e.type = "verifier_request" /\ e.stamp = 0
      BY EventType, WrittenCheckpoints DEF Event, EventTypes, EventNames, Statuses, VerifierOf
    <2>3. e.type # "checkpoint_written" /\ e.type # "tool_request" /\ e.type # "tool_result"
      BY <2>2
    <2>4. FilesConsistent' /\ LastEventIs("verifier_request")'
      BY <2>1, <2>2, <2>3, LoggedFiles
    <2>5. CommandConsistent(o)'
      BY <1>18, <2>4 DEF RequestVerifier, slice, environment, CommandConsistent, SliceFits,
         LoadedIsCurrent, ResolvingFits, ExecutingFits, ProbingFits, ShellFits,
         RollbackLabels, ProbeSteps, VerifySteps, Goto, TypeOK, VolatileTypeOK
    <2> QED
      BY <2>4, <2>5, <1>00
  <1>19. ASSUME NEW o \in Operators, RecordVerdict(o) PROVE SessionConsistent'
    <2> DEFINE v == IF job[o].slice = "execute" THEN RollbackVerdict(o) ELSE OutcomeVerdict(o)
               e == Event("verifier_result", VerifierOf(o), NextStep(o), v)
    <2>1. /\ Append1(e) /\ UNCHANGED <<checkpoint, rollbacksSent, stamps, context, job>>
          /\ pc[o] = "record_verdict" /\ pc'[o] = "save_checkpoint"
      BY <1>19 DEF RecordVerdict, environment, counters, Goto, TypeOK, VolatileTypeOK
    <2>2. e \in Events /\ e.type = "verifier_result" /\ e.stamp = 0
      <3>1. v \in {"pass", "fail", "unverified"}
        BY DEF RollbackVerdict, OutcomeVerdict
      <3> QED
        BY <3>1, EventType, WrittenCheckpoints DEF Event, EventTypes, EventNames, Statuses,
           VerifierOf
    <2>3. e.type # "checkpoint_written" /\ e.type # "tool_request" /\ e.type # "tool_result"
      BY <2>2
    <2> HIDE DEF v
    <2>4. FilesConsistent' /\ LastEventIs("verifier_result")'
      BY <2>1, <2>2, <2>3, LoggedFiles
    <2>5. CommandConsistent(o)'
      BY <2>1, <2>4 DEF CommandConsistent, SliceFits, LoadedIsCurrent,
         ResolvingFits, ExecutingFits, ProbingFits, ShellFits, RollbackLabels, ProbeSteps,
         VerifySteps
    <2> QED
      BY <2>4, <2>5, <1>00
  <1>20. ASSUME NEW o \in Operators, SaveCheckpoint(o) PROVE SessionConsistent'
    <2>1. /\ context[o] = checkpoint /\ LastEventIs("verifier_result")
          /\ job[o].slice \in {"execute", "probe"}
          /\ checkpoint.phase \in {"action_stub_approved"} \cup OUTCOME_VERIFICATION_STEP_ENTRY_PHASES
      BY <1>20 DEF SaveCheckpoint, CommandConsistent, SliceFits, VerifySteps, LoadedIsCurrent,
         ExecutingFits, ProbingFits
    <2>2. checkpoint.approval = "approved"
      BY <2>1 DEF FilesConsistent, StatusOf, OUTCOME_VERIFICATION_STEP_ENTRY_PHASES,
         ACTION_EXECUTION_PHASES, OUTCOME_VERIFICATION_PHASES
    <2>3. /\ checkpoint' = StepCheckpoint(o)
          /\ checkpoint'.phase \in OUTCOME_VERIFICATION_STEP_ENTRY_PHASES
          /\ checkpoint'.approval = "approved" /\ checkpoint'.id.stamp = 0
      BY <1>20, <2>1, <2>2 DEF SaveCheckpoint, StepCheckpoint, Id, TypeOK, VolatileTypeOK,
         Checkpoints,
         ExecutionPhase, OutcomePhase, OUTCOME_VERIFICATION_STEP_ENTRY_PHASES,
         ACTION_EXECUTION_PHASES, OUTCOME_VERIFICATION_PHASES
    <2>4. checkpoint'.approval = StatusOf(checkpoint'.phase)
      BY <2>3 DEF StatusOf, OUTCOME_VERIFICATION_STEP_ENTRY_PHASES,
         ACTION_EXECUTION_PHASES, OUTCOME_VERIFICATION_PHASES
    <2>5. UNCHANGED <<transcript, rollbacksSent, stamps>>
      BY <1>20 DEF SaveCheckpoint, environment, counters
    <2>6. NothingUntold'
      BY <2>3 DEF NothingUntold, Untold, OUTCOME_VERIFICATION_STEP_ENTRY_PHASES,
         ACTION_EXECUTION_PHASES, OUTCOME_VERIFICATION_PHASES
    <2>7. FilesConsistent'
      BY <2>1, <2>3, <2>4, <2>5, <2>6, SavedFiles
    <2>8. StepCheckpoint(o)' = StepCheckpoint(o)
      BY <1>20 DEF SaveCheckpoint, slice, StepCheckpoint, ExecutionPhase, OutcomePhase,
         ArtifactFailure, NextStep
    <2>9. CommandConsistent(o)'
      BY <1>20, <2>1, <2>3, <2>8 DEF SaveCheckpoint, CommandConsistent, SliceFits, LoadedIsCurrent,
         ResolvingFits, ExecutingFits, ProbingFits, ShellFits, RollbackLabels, ProbeSteps,
         VerifySteps, Goto, TypeOK, VolatileTypeOK
    <2> QED
      BY <2>7, <2>9, <1>00
  <1>21. ASSUME NEW o \in Operators, MarkCheckpoint(o) PROVE SessionConsistent'
    <2>1. checkpoint = StepCheckpoint(o)
      BY <1>21 DEF MarkCheckpoint, CommandConsistent, LoadedIsCurrent
    <2>2. /\ checkpoint.phase \in OUTCOME_VERIFICATION_STEP_ENTRY_PHASES
          /\ checkpoint.step = NextStep(o)
      BY <2>1 DEF StepCheckpoint, TypeOK, VolatileTypeOK, Checkpoints, ExecutionPhase, OutcomePhase,
         OUTCOME_VERIFICATION_STEP_ENTRY_PHASES, ACTION_EXECUTION_PHASES,
         OUTCOME_VERIFICATION_PHASES
    <2>3. /\ Append1(Marker(checkpoint, checkpoint.step))
          /\ UNCHANGED <<checkpoint, rollbacksSent, stamps>>
      BY <1>21, <2>1, <2>2 DEF MarkCheckpoint, environment, counters
    <2>4. NothingUntold
      BY <2>2 DEF NothingUntold, Untold, OUTCOME_VERIFICATION_STEP_ENTRY_PHASES,
         ACTION_EXECUTION_PHASES, OUTCOME_VERIFICATION_PHASES
    <2>5. FilesConsistent'
      BY <2>3, <2>4, MarkedFiles
    <2>6. [slice |-> "probe", argument |-> "none"] \in Jobs
      BY DEF Jobs
    <2>7. CommandConsistent(o)'
      BY <1>21, <2>6, EndedCommand, ContinuedCommand DEF MarkCheckpoint
    <2> QED
      BY <2>5, <2>7, <1>00
  <1>22. ASSUME NEW o \in Operators, SkipMode(o) PROVE SessionConsistent'
    <2>1. FilesConsistent'
      BY <1>22, SameFiles DEF SkipMode, durable, environment, counters
    <2>2. AutoJob \in Jobs
      BY DEF AutoJob, Jobs
    <2>3. CommandConsistent(o)'
      BY <1>22, <2>2, EndedCommand, ContinuedCommand DEF SkipMode, AutoJob
    <2> QED
      BY <2>1, <2>3, <1>00
  <1>23. ASSUME NEW o \in Operators, BeginMode(o) PROVE SessionConsistent'
    <2>a. context[o] = checkpoint
      BY <1>23 DEF BeginMode, CommandConsistent, LoadedIsCurrent
    <2>b. NothingUntold
      BY <1>23, <2>a, LoadedFiles DEF BeginMode, Accepted
    <2>1. FilesConsistent' /\ (NothingUntold' <=> NothingUntold) /\ (NotSent' <=> NotSent)
      BY <1>23, SameFiles DEF BeginMode, durable, environment, counters
    <2>2. CommandConsistent(o)'
      BY <1>23, <2>1, <2>a, <2>b DEF BeginMode, slice, environment, durable, CommandConsistent,
         SliceFits, LoadedIsCurrent, ResolvingFits, ExecutingFits, ProbingFits, ShellFits,
         RollbackLabels, ProbeSteps, VerifySteps, Goto, TypeOK, VolatileTypeOK
    <2> QED
      BY <2>1, <2>2, <1>00
  <1>24. ASSUME NEW o \in Operators, SaveMode(o) PROVE SessionConsistent'
    <2> DEFINE copy == [context[o] EXCEPT !.id = [name |-> "operator-shell", stamp |-> stamps + 1],
                                         !.mode = job[o].argument]
    <2>1. context[o] = checkpoint /\ NothingUntold
      BY <1>24 DEF SaveMode, CommandConsistent, LoadedIsCurrent, ShellFits
    <2>2. /\ UNCHANGED <<transcript, rollbacksSent>> /\ stamps' = stamps + 1
          /\ checkpoint' = copy /\ context'[o] = copy
      BY <1>24 DEF SaveMode, environment, TypeOK, VolatileTypeOK
    <2>3. /\ checkpoint'.phase = checkpoint.phase /\ checkpoint'.approval = checkpoint.approval
          /\ checkpoint'.id.stamp = stamps + 1
      BY <2>1, <2>2 DEF TypeOK, VolatileTypeOK, Checkpoints
    <2> HIDE DEF copy
    <2>4. \A n \in Positions : transcript[n].stamp \in Nat /\ transcript[n].stamp < stamps + 1
      <3>1. \A n \in Positions : transcript[n] \in Events
        BY DEF TypeOK, DurableTypeOK, Positions
      <3>2. \A n \in Positions : transcript[n].stamp \in Nat
        BY <3>1 DEF Events
      <3> QED
        BY <3>2 DEF FilesConsistent, StampsAreOld, TypeOK, CountersTypeOK
    <2>5. FilesConsistent'
      <3>1. \A n \in Positions' : ~MarksCheckpoint(n)'
        BY <2>2, <2>3, <2>4 DEF MarksCheckpoint, Positions
      <3>2. MarkersMatch' /\ UntoldComesLast'
        BY <3>1 DEF MarkersMatch, UntoldComesLast
      <3>3. StampsAreOld'
        BY <2>2, <2>3, <2>4 DEF StampsAreOld, Positions, TypeOK, CountersTypeOK
      <3>4. RollbackAccounted'
        BY <2>2, <2>3, UnloggedGrown DEF FilesConsistent, RollbackAccounted, NotSent, SucceededAt,
           Positions
      <3> QED
        BY <2>3, <3>2, <3>3, <3>4 DEF FilesConsistent
    <2>6. NothingUntold'
      BY <2>1, <2>2, <2>3 DEF NothingUntold, Untold, DecidedAt, RequestedAt, Positions
    <2>7. CommandConsistent(o)'
      BY <1>24, <2>2, <2>6 DEF SaveMode, WriterJobs, CommandConsistent, SliceFits, LoadedIsCurrent,
         ResolvingFits, ExecutingFits, ProbingFits, ShellFits, RollbackLabels, ProbeSteps,
         VerifySteps, Goto, TypeOK, VolatileTypeOK
    <2> QED
      BY <2>5, <2>7, <1>00
  <1>25. ASSUME NEW o \in Operators, MarkMode(o) PROVE SessionConsistent'
    <2>1. context[o] = checkpoint /\ NothingUntold
      BY <1>25 DEF MarkMode, CommandConsistent, LoadedIsCurrent, ShellFits
    <2>2. /\ Append1(Marker(checkpoint, checkpoint.step))
          /\ UNCHANGED <<checkpoint, rollbacksSent, stamps>>
      BY <1>25, <2>1 DEF MarkMode, environment, counters
    <2>3. FilesConsistent'
      BY <2>1, <2>2, MarkedFiles
    <2>4. AutoJob \in Jobs
      BY DEF AutoJob, Jobs
    <2>5. CommandConsistent(o)'
      BY <1>25, <2>4, EndedCommand, ContinuedCommand DEF MarkMode, AutoJob
    <2> QED
      BY <2>3, <2>5, <1>00
  <1>26. ASSUME NEW o \in Operators, SkipAuto(o) PROVE SessionConsistent'
    <2>1. FilesConsistent'
      BY <1>26, SameFiles DEF SkipAuto, durable, environment, counters
    <2>2. CommandConsistent(o)'
      BY <1>26, EndedCommand DEF SkipAuto
    <2> QED
      BY <2>1, <2>2, <1>00
  <1>27. ASSUME NEW o \in Operators, BeginAuto(o) PROVE SessionConsistent'
    <2>1. FilesConsistent' /\ (NothingUntold' <=> NothingUntold) /\ (NotSent' <=> NotSent)
      BY <1>27, SameFiles DEF BeginAuto, durable, environment, counters
    <2>2. CommandConsistent(o)'
      BY <1>27, <2>1 DEF BeginAuto, slice, environment, durable, CommandConsistent, SliceFits,
         LoadedIsCurrent, ResolvingFits, ExecutingFits, ProbingFits, ShellFits,
         RollbackLabels, ProbeSteps, VerifySteps, Goto, TypeOK, VolatileTypeOK, AutoApplies
    <2> QED
      BY <2>1, <2>2, <1>00
  <1>28. ASSUME NEW o \in Operators, EvaluateGate(o) PROVE SessionConsistent'
    <2>1. FilesConsistent'
      BY <1>28, SameFiles DEF EvaluateGate, durable, environment, counters
    <2>2. checkpoint.mode = "auto-safe" /\ UNCHANGED checkpoint
      BY <1>28 DEF EvaluateGate, durable, CommandConsistent, LoadedIsCurrent, ShellFits, AutoApplies
    <2>3. /\ [slice |-> "resolve", argument |-> "auto-approve"] \in Jobs
          /\ [slice |-> "set_mode", argument |-> "degraded"] \in Jobs
      BY DEF Jobs, ShellStates
    <2>4. CommandConsistent(o)'
      BY <1>28, <2>2, <2>3, ContinuedCommand DEF EvaluateGate
    <2> QED
      BY <2>1, <2>4, <1>00
  <1>29. ASSUME NEW o \in Operators, Crash(o) PROVE SessionConsistent'
    <2>1. FilesConsistent'
      BY <1>29, SameFiles DEF Crash, durable, environment, counters
    <2>2. CommandConsistent(o)'
      BY <1>29, EndedCommand DEF Crash
    <2> QED
      BY <2>1, <2>2, <1>00
  <1>30. ASSUME NEW o \in Operators, CrashMidLine(o) PROVE SessionConsistent'
    <2>1. TornLine \in Events /\ TornLine.type = "torn" /\ TornLine.stamp = 0
      BY EventType DEF TornLine, Event, EventTypes, EventNames, CheckpointNames, Statuses
    <2>2. FilesConsistent'
      BY <1>30, <2>1, LoggedFiles DEF CrashMidLine, environment
    <2>3. CommandConsistent(o)'
      BY <1>30, EndedCommand DEF CrashMidLine
    <2> QED
      BY <2>2, <2>3, <1>00
  <1>31. CASE RestartTarget
    <2>1. UNCHANGED <<durable, rollbacksSent, stamps, pc, job, context, slice>>
      BY <1>31 DEF RestartTarget, counters
    <2>2. FilesConsistent' /\ (NothingUntold' <=> NothingUntold) /\ (NotSent' <=> NotSent)
          /\ \A type : LastEventIs(type)' <=> LastEventIs(type)
      BY <2>1, SameFiles DEF durable
    <2>3. ASSUME NEW o \in Operators PROVE CommandConsistent(o)'
      <3>1. StepCheckpoint(o)' = StepCheckpoint(o) /\ ResolutionCheckpoint(o)' = ResolutionCheckpoint(o)
        BY <2>1 DEF slice, StepCheckpoint, ExecutionPhase, OutcomePhase, ArtifactFailure, NextStep,
           ResolutionCheckpoint, ApprovalOf, Approves
      <3> QED
        BY <2>1, <2>2, <3>1 DEF durable, slice, CommandConsistent, SliceFits, LoadedIsCurrent,
           ResolvingFits,
           ExecutingFits, ProbingFits, ShellFits, AutoApplies
    <2> QED
      BY <2>2, <2>3 DEF SessionConsistent
  <1>32. CASE UNCHANGED vars
    <2>1. UNCHANGED <<durable, rollbacksSent, stamps, pc, job, context, slice>>
      BY <1>32 DEF vars, environment, counters
    <2>2. FilesConsistent' /\ (NothingUntold' <=> NothingUntold) /\ (NotSent' <=> NotSent)
          /\ \A type : LastEventIs(type)' <=> LastEventIs(type)
      BY <2>1, SameFiles DEF durable
    <2>3. ASSUME NEW o \in Operators PROVE CommandConsistent(o)'
      <3>1. StepCheckpoint(o)' = StepCheckpoint(o) /\ ResolutionCheckpoint(o)' = ResolutionCheckpoint(o)
        BY <2>1 DEF slice, StepCheckpoint, ExecutionPhase, OutcomePhase, ArtifactFailure, NextStep,
           ResolutionCheckpoint, ApprovalOf, Approves
      <3> QED
        BY <2>1, <2>2, <3>1 DEF durable, slice, CommandConsistent, SliceFits, LoadedIsCurrent,
           ResolvingFits,
           ExecutingFits, ProbingFits, ShellFits, AutoApplies
    <2> QED
      BY <2>2, <2>3 DEF SessionConsistent
  <1> QED
    BY <1>1, <1>2, <1>3, <1>4, <1>5, <1>6, <1>7, <1>8, <1>9, <1>10, <1>11, <1>12, <1>13, <1>14,
       <1>15, <1>16, <1>17, <1>18, <1>19, <1>20, <1>21, <1>22, <1>23, <1>24, <1>25, <1>26, <1>27,
       <1>28, <1>29, <1>30, <1>31, <1>32 DEF Next, Proceed

LEMMA InitSessionConsistent == ASSUME Init PROVE SessionConsistent
  <1>1. checkpoint.approval = StatusOf(checkpoint.phase) /\ checkpoint.approval # "approved"
    BY InitUndecided DEF StubStates, StatusOf, OUTCOME_VERIFICATION_STEP_ENTRY_PHASES,
       ACTION_EXECUTION_PHASES, OUTCOME_VERIFICATION_PHASES
  <1>2. MarkersMatch /\ UntoldComesLast
    BY InitUndecided DEF MarkersMatch, UntoldComesLast, Untold, RequestedAt
  <1>3. StampsAreOld
    BY InitUndecided DEF StampsAreOld, Id, Init
  <1>4. RollbackAccounted
    BY InitUndecided DEF RollbackAccounted, NotSent, Requested, RequestedAt, SucceededAt, Init
  <1>5. FilesConsistent
    BY <1>1, <1>2, <1>3, <1>4 DEF FilesConsistent
  <1>6. ASSUME NEW o \in Operators PROVE CommandConsistent(o)
    BY DEF Init, NoJob, CommandConsistent, SliceFits, LoadedIsCurrent, ResolvingFits, ExecutingFits,
       ProbingFits, ShellFits, RollbackLabels, ProbeSteps, VerifySteps
  <1> QED
    BY <1>5, <1>6 DEF SessionConsistent

\* What one operator keeps: the types, what the transcript shows of every claim, and
\* what the two files and the command at work say of each other.
SessionInv == TypeInv /\ HistoryBacked /\ SessionConsistent

LEMMA NextSessionInv ==
    ASSUME Solo PROVE SessionInv /\ [Next]_vars => SessionInv'
  BY NextTypeInv, NextHistoryBacked, NextSessionConsistent DEF SessionInv

\* The invariant holds in every run of one operator, whatever commands are issued and
\* wherever they crash (live_surface.py:152-246, shell.py:1152-1166).
THEOREM SessionInvariant ==
    ASSUME Solo PROVE Spec => []SessionInv
  <1>1. Init => SessionInv
    BY InitTypeInv, InitHistoryBacked, InitSessionConsistent DEF SessionInv
  <1> QED
    BY <1>1, NextSessionInv, PTL DEF Spec

\* At every moment a crash may leave them, the checkpoint and the transcript of a session
\* agree, and a command past its entry checks has seen them as they are
\* (SessionArtifactContext.load, session_artifacts.py:1239-1330).
THEOREM SessionIsConsistent == ASSUME Solo PROVE Spec => []SessionConsistent
  <1>1. SessionInv => SessionConsistent
    BY DEF SessionInv
  <1> QED
    BY <1>1, SessionInvariant, PTL

-----------------------------------------------------------------------------
(* The promises that are invariants *)

LEMMA Promises ==
    ASSUME SessionInv
    PROVE  /\ PhaseMatchesApproval
           /\ AtMostOneRollback
           /\ UnfinishedWriteNotResumable
           /\ TrustedCheckpointMatchesMarker
  <1>0. TypeOK /\ FilesConsistent
    BY DEF SessionInv, TypeInv, SessionConsistent
  <1>1. checkpoint.approval = StatusOf(checkpoint.phase)
    BY <1>0 DEF FilesConsistent
  <1>2. PhaseMatchesApproval
    BY <1>1 DEF PhaseMatchesApproval, StatusOf, OUTCOME_VERIFICATION_STEP_ENTRY_PHASES,
       ACTION_EXECUTION_PHASES, OUTCOME_VERIFICATION_PHASES
  <1>3. AtMostOneRollback
    BY <1>0 DEF AtMostOneRollback, FilesConsistent, RollbackAccounted
  <1>4. UnfinishedWriteNotResumable
    <2> SUFFICES ASSUME rollbacksSent > 0, Loadable(checkpoint, transcript)
                 PROVE  checkpoint.phase \in ACTION_EXECUTION_PHASES \cup OUTCOME_VERIFICATION_PHASES
      BY DEF UnfinishedWriteNotResumable
    <2>1. NothingUntold
      BY <1>0, LoadedFiles
    <2>2. Requested
      BY DEF SessionInv, HistoryBacked, RollbackIsRecorded
    <2>3. checkpoint.phase # "action_stub_approved"
      BY <2>1, <2>2 DEF NothingUntold, Untold, Requested
    <2>4. checkpoint.approval = "approved"
      BY <1>0 DEF FilesConsistent, RollbackAccounted, NotSent
    <2> QED
      BY <1>1, <2>3, <2>4 DEF StatusOf, OUTCOME_VERIFICATION_STEP_ENTRY_PHASES,
         ACTION_EXECUTION_PHASES, OUTCOME_VERIFICATION_PHASES
  <1>5. TrustedCheckpointMatchesMarker
    BY <1>0, LoadedFiles DEF TrustedCheckpointMatchesMarker
  <1> QED
    BY <1>2, <1>3, <1>4, <1>5

\* Approval status and phase never contradict each other on disk, whatever command
\* ran and wherever it crashed (live_surface.py:202-222, shell.py:1152).
THEOREM PhasesMatchApprovals == ASSUME Solo PROVE Spec => []PhaseMatchesApproval
  BY SessionInvariant, Promises, PTL

\* At most one POST /rollback leaves a session, for any number of commands, crashes
\* and service restarts (deployment_rollback_execution.py:259-345).
THEOREM OneRollbackAtMost == ASSUME Solo PROVE Spec => []AtMostOneRollback
  BY SessionInvariant, Promises, PTL

\* A rollback sent but not told of leaves no loadable session that still looks as if
\* nothing had been done (session_artifacts.py:1312-1330).
THEOREM UnfinishedWritesBlock == ASSUME Solo PROVE Spec => []UnfinishedWriteNotResumable
  BY SessionInvariant, Promises, PTL

\* Every session that loads was matched by the marker of the very checkpoint on disk,
\* although ids are reused (session_artifacts.py:1239-1258).
THEOREM TrustedCheckpointsMatch == ASSUME Solo PROVE Spec => []TrustedCheckpointMatchesMarker
  BY SessionInvariant, Promises, PTL

-----------------------------------------------------------------------------
(* The promises that are about steps *)

LEMMA OnlyDecisionsAreLogged ==
    ASSUME [Next]_vars, \A o \in Operators : ~RecordDecision(o)
    PROVE  \/ UNCHANGED transcript
           \/ \E e : Append1(e) /\ e.type # "approval_resolved"
  <1>1. ASSUME NEW o \in Operators, RequestRollback(o)
        PROVE  \E e : Append1(e) /\ e.type # "approval_resolved"
    <2> DEFINE e == Event("tool_request", ActionExecution.tool, NextStep(o), "none")
    <2>1. Append1(e) /\ e.type # "approval_resolved"
      BY <1>1 DEF RequestRollback, Event
    <2> QED
      BY <2>1
  <1> QED
    BY <1>1, OtherEventsDoNotCount DEF Counts

\* What the three saves leave of the checkpoint they replace.
LEMMA Replaced ==
    ASSUME SessionInv, NEW o \in Operators
    PROVE  /\ SaveDecision(o) =>
                 /\ checkpoint.approval = "pending"
                 /\ checkpoint'.id.name = "approval-resolution"
                 /\ checkpoint'.phase \notin OUTCOME_VERIFICATION_PHASES
           /\ SaveCheckpoint(o) =>
                 /\ checkpoint'.approval = checkpoint.approval
                 /\ checkpoint'.id.name # "operator-shell"
                 /\ checkpoint.approval = "approved"
           /\ SaveMode(o) =>
                 /\ checkpoint'.phase = checkpoint.phase /\ checkpoint'.step = checkpoint.step
                 /\ checkpoint'.approval = checkpoint.approval
  <1>0. TypeOK /\ CommandConsistent(o) /\ checkpoint.approval = StatusOf(checkpoint.phase)
    BY DEF SessionInv, TypeInv, SessionConsistent, FilesConsistent
  <1>1. ASSUME SaveDecision(o)
        PROVE  /\ checkpoint.approval = "pending"
               /\ checkpoint'.id.name = "approval-resolution"
               /\ checkpoint'.phase \notin OUTCOME_VERIFICATION_PHASES
    <2>1. checkpoint.phase = "action_stub_pending_approval"
      BY <1>0, <1>1 DEF SaveDecision, CommandConsistent, ResolvingFits
    <2>2. checkpoint.approval = "pending"
      BY <1>0, <2>1 DEF StatusOf, OUTCOME_VERIFICATION_STEP_ENTRY_PHASES,
         ACTION_EXECUTION_PHASES, OUTCOME_VERIFICATION_PHASES
    <2> QED
      BY <1>0, <1>1, <2>2 DEF SaveDecision, ResolutionCheckpoint, Id, TypeOK, VolatileTypeOK,
         Checkpoints,
         OUTCOME_VERIFICATION_PHASES
  <1>2. ASSUME SaveCheckpoint(o)
        PROVE  /\ checkpoint'.approval = checkpoint.approval
               /\ checkpoint'.id.name # "operator-shell"
               /\ checkpoint.approval = "approved"
    <2>1. context[o] = checkpoint
      BY <1>0, <1>2 DEF SaveCheckpoint, CommandConsistent, LoadedIsCurrent
    <2>2. checkpoint.phase \in {"action_stub_approved"} \cup OUTCOME_VERIFICATION_STEP_ENTRY_PHASES
      BY <1>0, <1>2 DEF SaveCheckpoint, CommandConsistent, SliceFits, VerifySteps, ExecutingFits,
         ProbingFits
    <2>3. checkpoint.approval = "approved"
      BY <1>0, <2>2 DEF StatusOf, OUTCOME_VERIFICATION_STEP_ENTRY_PHASES,
         ACTION_EXECUTION_PHASES, OUTCOME_VERIFICATION_PHASES
    <2> QED
      BY <1>0, <1>2, <2>1, <2>3 DEF SaveCheckpoint, StepCheckpoint, Id, TypeOK, VolatileTypeOK,
         Checkpoints
  <1>3. ASSUME SaveMode(o)
        PROVE  /\ checkpoint'.phase = checkpoint.phase /\ checkpoint'.step = checkpoint.step
               /\ checkpoint'.approval = checkpoint.approval
    <2>1. context[o] = checkpoint
      BY <1>0, <1>3 DEF SaveMode, CommandConsistent, LoadedIsCurrent
    <2> QED
      BY <1>0, <1>3, <2>1 DEF SaveMode, TypeOK, VolatileTypeOK, Checkpoints
  <1> QED
    BY <1>1, <1>2, <1>3

\* A decision is final on disk: denied stays denied, approved stays approved
\* (live_surface.py:159-222, deployment_rollback_execution.py:196).
THEOREM DecisionsStand == ASSUME Solo PROVE Spec => DecisionStands
  <1> DEFINE A == /\ checkpoint.approval = "denied" => checkpoint'.approval = "denied"
                  /\ checkpoint.approval = "approved" => checkpoint'.approval = "approved"
  <1>1. ASSUME SessionInv, [Next]_vars PROVE A
    BY <1>1, OnlySavesReplace, Replaced
  <1>2. SessionInv /\ [Next]_vars => [A]_vars
    BY <1>1
  <1> QED
    BY <1>2, SessionInvariant, PTL DEF Spec, DecisionStands

\* Changing the autonomy mode never moves the phase, the step or the decision
\* (shell.py:1152-1166).
THEOREM ModeWritesKeepDecisions == ASSUME Solo PROVE Spec => ModeWriteKeepsDecision
  <1> DEFINE A == checkpoint'.id.name = "operator-shell" /\ checkpoint' # checkpoint
                  => /\ checkpoint'.phase = checkpoint.phase
                     /\ checkpoint'.step = checkpoint.step
                     /\ checkpoint'.approval = checkpoint.approval
  <1>1. ASSUME SessionInv, [Next]_vars PROVE A
    BY <1>1, OnlySavesReplace, Replaced
  <1>2. SessionInv /\ [Next]_vars => [A]_vars
    BY <1>1
  <1> QED
    BY <1>2, SessionInvariant, PTL DEF Spec, ModeWriteKeepsDecision

\* The auto-safe policy decides only a session that on disk is pending, in auto-safe
\* mode and not denied (shell.py:733-763, live_surface.py:159-174).
THEOREM AutoApprovalsAreUnderAutoSafe == ASSUME Solo PROVE Spec => AutoApprovalUnderAutoSafe
  <1> DEFINE A == \A i \in 1 .. Len(transcript') :
                     /\ i > Len(transcript)
                     /\ transcript'[i].type = "approval_resolved"
                     /\ transcript'[i].name = "auto-approve"
                     => /\ checkpoint.mode = "auto-safe"
                        /\ checkpoint.approval = "pending"
                        /\ ~Denied
  <1>1. ASSUME SessionInv, [Next]_vars PROVE A
    <2> SUFFICES ASSUME NEW i \in 1 .. Len(transcript'), i > Len(transcript),
                        transcript'[i].type = "approval_resolved",
                        transcript'[i].name = "auto-approve"
                 PROVE  /\ checkpoint.mode = "auto-safe" /\ checkpoint.approval = "pending"
                        /\ ~Denied
      OBVIOUS
    <2>0. TypeOK /\ Len(transcript) \in Nat /\ checkpoint.approval = StatusOf(checkpoint.phase)
      BY <1>1 DEF SessionInv, TypeInv, TypeOK, DurableTypeOK, SessionConsistent, FilesConsistent
    <2>1. ~UNCHANGED transcript
      BY <2>0
    <2>2. \A e : Append1(e) => transcript'[i] = e
      <3> SUFFICES ASSUME NEW e, Append1(e) PROVE transcript'[i] = e
        OBVIOUS
      <3>1. i = Len(transcript) + 1
        BY <2>0 DEF Append1, TypeOK, DurableTypeOK
      <3> QED
        BY <2>0, <3>1, AppendedPositions
    <2>3. PICK o \in Operators : RecordDecision(o)
      BY <1>1, <2>1, <2>2, OnlyDecisionsAreLogged
    <2>4. job[o].argument = "auto-approve"
      BY <2>2, <2>3 DEF RecordDecision, Event
    <2>5. /\ checkpoint.mode = "auto-safe" /\ NothingUntold
          /\ checkpoint.phase = "action_stub_pending_approval"
      BY <1>1, <2>3, <2>4 DEF RecordDecision, SessionInv, SessionConsistent, CommandConsistent,
         ResolvingFits, ShellFits
    <2>6. ~Denied
      BY <2>5 DEF NothingUntold, Untold, DecidedAt, Denied, DeniedAt
    <2> QED
      BY <2>0, <2>5, <2>6 DEF StatusOf, OUTCOME_VERIFICATION_STEP_ENTRY_PHASES,
         ACTION_EXECUTION_PHASES, OUTCOME_VERIFICATION_PHASES
  <1>2. SessionInv /\ [Next]_vars => [A]_vars
    BY <1>1
  <1> QED
    BY <1>2, SessionInvariant, PTL DEF Spec, AutoApprovalUnderAutoSafe

-----------------------------------------------------------------------------
(* The session implements the abstract approval gate *)

LEMMA SameDecision ==
    ASSUME TypeOK, \/ UNCHANGED transcript
                   \/ \E e : Append1(e) /\ e.type # "approval_resolved"
    PROVE  Decision' = Decision
  <1>1. (Approved' <=> Approved) /\ (Denied' <=> Denied)
    <2>1. CASE UNCHANGED transcript
      BY <2>1 DEF Approved, Denied, ApprovedAt, DeniedAt, Positions
    <2>2. ASSUME NEW e, Append1(e), e.type # "approval_resolved"
          PROVE  (Approved' <=> Approved) /\ (Denied' <=> Denied)
      BY <2>2, AppendedPositions DEF Approved, Denied, ApprovedAt, DeniedAt
    <2> QED
      BY <2>1, <2>2
  <1> QED
    BY <1>1 DEF Decision

\* A decision is logged: the gate decides.
LEMMA LoggedDecisionDecides ==
    ASSUME SessionInv, NEW o \in Operators, RecordDecision(o)
    PROVE  Gate!Decide
  <1>0. TypeOK
    BY DEF SessionInv, TypeInv
  <1>1. NothingUntold /\ checkpoint.phase = "action_stub_pending_approval"
    BY DEF RecordDecision, SessionInv, SessionConsistent, CommandConsistent, ResolvingFits
  <1>2. Decision = "open"
    BY <1>1 DEF Decision, NothingUntold, Untold, DecidedAt, Approved, ApprovedAt, Denied, DeniedAt
  <1>3. PICK e : Append1(e) /\ e.type = "approval_resolved" /\ e.status \in {"approved", "denied"}
    <2> DEFINE e == Event("approval_resolved", job[o].argument, NextStep(o), ApprovalOf(o))
    <2>1. Append1(e)
      BY DEF RecordDecision
    <2>2. e.type = "approval_resolved" /\ e.status \in {"approved", "denied"}
      BY DEF Event, ApprovalOf
    <2> QED
      BY <2>1, <2>2
  <1>4. Approved' \/ Denied'
    BY <1>0, <1>3, AppendedPositions DEF Approved, ApprovedAt, Denied, DeniedAt
  <1>5. Decision' \in {"approved", "denied"}
    BY <1>4 DEF Decision
  <1>6. UNCHANGED <<RollbackView, RecoveryView>>
    BY DEF RecordDecision, environment, RollbackView, RecoveryView
  <1> QED
    BY <1>2, <1>5, <1>6 DEF Gate!Decide

\* A rollback is sent: the gate lets it out.
LEMMA PostedRollbackIsSent ==
    ASSUME SessionInv, NEW o \in Operators, PostRollback(o)
    PROVE  Gate!SendRollback
  <1>1. rollbacksSent = 0 /\ rollbacksSent' = 1 /\ UNCHANGED <<checkpoint, transcript>>
    BY DEF PostRollback, SessionInv, SessionConsistent, CommandConsistent, ExecutingFits, durable
  <1>2. Approved
    BY DEF PostRollback, SessionInv, HistoryBacked, OperatorBacked, ClaimsBacked, RollbackLabels
  <1>3. Decision = "approved" /\ UNCHANGED Decision
    BY <1>1, <1>2, SameDecision DEF Decision, SessionInv, TypeInv
  <1>4. UNCHANGED RecoveryView
    BY <1>1 DEF RecoveryView
  <1>5. RollbackView = "none" /\ RollbackView' = "sent"
    BY <1>1 DEF RollbackView
  <1> QED
    BY <1>3, <1>4, <1>5 DEF Gate!SendRollback

\* A step's checkpoint is saved: the outcome is judged, or the gate sees nothing.
LEMMA SavedOutcomeIsJudged ==
    ASSUME SessionInv, SessionInv', NEW o \in Operators, SaveCheckpoint(o)
    PROVE  Gate!Confirm \/ Gate!Doubt \/ UNCHANGED Gate!gateVars
  <1>0. /\ TypeOK /\ CommandConsistent(o) /\ FilesConsistent
        /\ context[o] = checkpoint /\ job[o].slice \in {"execute", "probe"}
    BY DEF SessionInv, TypeInv, SessionConsistent, SaveCheckpoint, CommandConsistent,
       LoadedIsCurrent, SliceFits, VerifySteps
  <1>1. UNCHANGED <<transcript, rollbacksSent>>
    BY DEF SaveCheckpoint, environment
  <1>2. Decision = "approved" /\ UNCHANGED <<Decision, RollbackView>>
    <2>1. checkpoint.approval = "approved"
      BY Replaced
    <2>2. Approved
      BY <2>1 DEF SessionInv, HistoryBacked, ClaimsBacked
    <2> QED
      BY <1>0, <1>1, <2>2, SameDecision DEF Decision, RollbackView
  <1>3. CASE job[o].slice = "execute"
    <2>1. checkpoint.phase = "action_stub_approved"
      BY <1>0, <1>3 DEF SaveCheckpoint, CommandConsistent, ExecutingFits
    <2>2. checkpoint'.phase = ExecutionPhase(o)
      BY <1>0, <1>3 DEF SaveCheckpoint, StepCheckpoint, TypeOK, VolatileTypeOK, Checkpoints
    <2>3. checkpoint'.phase \in ACTION_EXECUTION_PHASES
      BY <2>2 DEF ExecutionPhase, ACTION_EXECUTION_PHASES
    <2>4. RecoveryView = "unknown" /\ RecoveryView' = "unknown"
      BY <2>1, <2>3 DEF RecoveryView, ACTION_EXECUTION_PHASES, OUTCOME_VERIFICATION_PHASES
    <2> QED
      BY <1>2, <2>4 DEF Gate!gateVars
  <1>4. CASE job[o].slice = "probe"
    <2>1. checkpoint'.phase = OutcomePhase(o)
      BY <1>0, <1>4 DEF SaveCheckpoint, StepCheckpoint, TypeOK, VolatileTypeOK, Checkpoints
    <2>2. checkpoint'.phase \in OUTCOME_VERIFICATION_PHASES
      BY <2>1 DEF OutcomePhase, OUTCOME_VERIFICATION_PHASES
    <2>3. CASE checkpoint'.phase = "outcome_verification_succeeded"
      <3>1. RolledBack
        BY <1>1, <2>3, UnloggedGrown DEF SessionInv, HistoryBacked, ClaimsBacked
      <3>2. RollbackView = "sent"
        BY <1>0, <3>1 DEF FilesConsistent, RollbackAccounted, RolledBack, RollbackView
      <3>3. RecoveryView' = "confirmed"
        BY <2>3 DEF RecoveryView
      <3> QED
        BY <1>2, <3>2, <3>3 DEF Gate!Confirm
    <2>4. CASE checkpoint'.phase # "outcome_verification_succeeded"
      BY <1>2, <2>2, <2>4 DEF Gate!Doubt, RecoveryView
    <2> QED
      BY <2>3, <2>4
  <1> QED
    BY <1>0, <1>3, <1>4

\* The session implements the abstract approval gate: a decision is taken once, one
\* rollback at most leaves after an approval, and recovery is claimed only of a
\* rollback that left, whatever commands the operator issues and wherever they crash.
THEOREM SessionImplementsGate == ASSUME Solo PROVE Spec => ImplementsGate
  <1>1. ASSUME Init PROVE Gate!GateInit
    <2>1. SessionInv
      BY <1>1, InitTypeInv, InitHistoryBacked, InitSessionConsistent DEF SessionInv
    <2>2. \A i \in Positions : ~DecidedAt(i)
      BY <1>1, InitUndecided
    <2>3. Decision = "open"
      BY <2>2 DEF Decision, DecidedAt, Approved, ApprovedAt, Denied, DeniedAt
    <2>4. RecoveryView = "unknown"
      BY <1>1, InitUndecided DEF RecoveryView, StubStates, OUTCOME_VERIFICATION_PHASES
    <2> QED
      BY <1>1, <2>3, <2>4 DEF Gate!GateInit, RollbackView, Init
  <1>2. ASSUME SessionInv, SessionInv', [Next]_vars PROVE [Gate!GateNext]_(Gate!gateVars)
    <2>1. ASSUME NEW o \in Operators, RecordDecision(o) PROVE Gate!GateNext
      BY <1>2, <2>1, LoggedDecisionDecides DEF Gate!GateNext
    <2>2. ASSUME NEW o \in Operators, PostRollback(o) PROVE Gate!GateNext
      BY <1>2, <2>2, PostedRollbackIsSent DEF Gate!GateNext
    <2>3. ASSUME NEW o \in Operators, SaveCheckpoint(o) PROVE [Gate!GateNext]_(Gate!gateVars)
      BY <1>2, <2>3, SavedOutcomeIsJudged DEF Gate!GateNext
    <2>4. ASSUME \A o \in Operators : ~RecordDecision(o) /\ ~PostRollback(o) /\ ~SaveCheckpoint(o)
          PROVE  UNCHANGED Gate!gateVars
      <3>1. UNCHANGED Decision
        BY <1>2, <2>4, OnlyDecisionsAreLogged, SameDecision DEF SessionInv, TypeInv
      <3>2. UNCHANGED RollbackView
        BY <1>2, <2>4, OnlyPostSends DEF RollbackView
      <3>3. UNCHANGED RecoveryView
        <4>1. CASE UNCHANGED checkpoint
          BY <4>1 DEF RecoveryView
        <4>2. ASSUME NEW o \in Operators, SaveMode(o) PROVE UNCHANGED RecoveryView
          BY <1>2, <4>2, Replaced DEF RecoveryView
        <4>3. ASSUME NEW o \in Operators, SaveDecision(o) PROVE UNCHANGED RecoveryView
          <5>1. checkpoint'.phase \notin OUTCOME_VERIFICATION_PHASES
            BY <1>2, <4>3, Replaced
          <5>2. checkpoint.phase = "action_stub_pending_approval"
            BY <1>2, <4>3 DEF SaveDecision, SessionInv, SessionConsistent, CommandConsistent,
               ResolvingFits
          <5> QED
            BY <5>1, <5>2 DEF RecoveryView, OUTCOME_VERIFICATION_PHASES
        <4> QED
          BY <1>2, <2>4, <4>1, <4>2, <4>3, OnlySavesReplace
      <3> QED
        BY <3>1, <3>2, <3>3 DEF Gate!gateVars
    <2> QED
      BY <2>1, <2>2, <2>3, <2>4
  <1>3. SessionInv /\ SessionInv' /\ [Next]_vars => [Gate!GateNext]_(Gate!gateVars)
    BY <1>2
  <1> QED
    BY <1>1, <1>3, SessionInvariant, PTL DEF Spec, ImplementsGate, Gate!GateSpec

=============================================================================
