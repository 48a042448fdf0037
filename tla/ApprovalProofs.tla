--------------------------- MODULE ApprovalProofs ---------------------------
(***************************************************************************)
(* Theorems about the approval boundary, for every set of operators, every *)
(* subset of the commands and every bound: any number of processes may run *)
(* and crash at the same time.                                             *)
(***************************************************************************)
EXTENDS ApprovalProperties, TLAPS

(* Sequences: what appending one event to the transcript does. *)

LEMMA AppendEvent ==
    ASSUME NEW log \in Seq(Events), NEW e \in Events
    PROVE  /\ Append(log, e) \in Seq(Events)
           /\ Len(log) \in Nat
           /\ Len(Append(log, e)) = Len(log) + 1
           /\ \A i \in 1 .. Len(log) : Append(log, e)[i] = log[i]
           /\ Append(log, e)[Len(log) + 1] = e
  OBVIOUS

-----------------------------------------------------------------------------
(* Type correctness *)

\* The argument of a slice that is writing is one it can write.
WriterJobs ==
    \A o \in Operators :
        /\ pc[o] \in {"save_mode", "mark_mode"} => job[o].slice = "set_mode"
        /\ pc[o] \in {"record_decision", "save_decision", "mark_decision"}
              => job[o].slice = "resolve"

TypeInv == TypeOK /\ WriterJobs

LEMMA MarkerType ==
    ASSUME NEW chk \in Checkpoints, NEW step \in Nat
    PROVE  Marker(chk, step) \in Events
  BY DEF Checkpoints, CheckpointIds, Marker, Events, EventTypes, EventNames, Statuses

LEMMA EventType ==
    ASSUME NEW type \in EventTypes, NEW name \in EventNames, NEW step \in Nat,
           NEW status \in Statuses
    PROVE  Event(type, name, step, status) \in Events
  BY DEF Event, Events

LEMMA InitTypeInv == Init => TypeInv
  <1> SUFFICES ASSUME Init PROVE TypeInv
    OBVIOUS
  <1>1. checkpoint \in Checkpoints
    <2>1. PICK phase \in StubPhases, mode \in StartModes :
              checkpoint = StubCheckpoint(phase, mode)
      BY DEF Init
    <2>2. phase \in Phases /\ mode \in ShellStates
      BY StubAssumption, ModesAssumption
      DEF StubStates, Phases, ACTION_STUB_PHASES, ShellStates
    <2> QED
      BY <2>1, <2>2 DEF StubCheckpoint, Checkpoints, CheckpointIds, CheckpointNames, Id, Approvals
  <1>2. NoCheckpoint \in Checkpoints
    BY DEF NoCheckpoint, Checkpoints, CheckpointIds, CheckpointNames, Id, Approvals,
       ShellStates, Modes
  <1>3. transcript \in Seq(Events)
    <2>1. /\ Event("tool_request", ActionStub.tool, 6, "none") \in Events
          /\ Event("tool_result", ActionStub.tool, 6, "succeeded") \in Events
          /\ Event("verifier_request", ActionStub.verifier, 6, "none") \in Events
          /\ Event("verifier_result", ActionStub.verifier, 6, "pass") \in Events
      BY EventType DEF EventTypes, EventNames, Statuses
    <2>2. Marker(checkpoint, 6) \in Events
      BY <1>1, MarkerType
    <2> QED
      BY <2>1, <2>2 DEF Init, StubTranscript
  <1>4. VolatileTypeOK
    BY <1>2 DEF Init, VolatileTypeOK, Labels, Jobs, NoJob, Branches
  <1> QED
    BY <1>1, <1>3, <1>4 DEF Init, TypeInv, TypeOK, DurableTypeOK, EnvironmentTypeOK,
       Versions, CountersTypeOK, WriterJobs

LEMMA FinishType ==
    ASSUME TypeInv, NEW o \in Operators, Finish(o)
    PROVE  VolatileTypeOK' /\ WriterJobs'
  <1>1. NoCheckpoint \in Checkpoints
    BY DEF NoCheckpoint, Checkpoints, CheckpointIds, CheckpointNames, Id, Approvals,
       ShellStates, Modes
  <1>2. NoJob \in Jobs
    BY DEF NoJob, Jobs
  <1>3. VolatileTypeOK'
    BY <1>1, <1>2 DEF TypeInv, TypeOK, VolatileTypeOK, Finish, Goto, Labels, Branches
  <1>4. WriterJobs'
    BY DEF TypeInv, TypeOK, VolatileTypeOK, WriterJobs, Finish, Goto
  <1> QED
    BY <1>3, <1>4

LEMMA ContinueType ==
    ASSUME TypeInv, NEW o \in Operators, NEW next \in Jobs, Continue(o, next)
    PROVE  VolatileTypeOK' /\ WriterJobs'
  <1>1. NoCheckpoint \in Checkpoints
    BY DEF NoCheckpoint, Checkpoints, CheckpointIds, CheckpointNames, Id, Approvals,
       ShellStates, Modes
  <1>2. VolatileTypeOK'
    BY <1>1 DEF TypeInv, TypeOK, VolatileTypeOK, Continue, Goto, Labels, Branches
  <1>3. WriterJobs'
    BY DEF TypeInv, TypeOK, VolatileTypeOK, WriterJobs, Continue, Goto
  <1> QED
    BY <1>2, <1>3

\* The checkpoints a slice writes are checkpoints.
LEMMA WrittenCheckpoints ==
    ASSUME TypeInv, NEW o \in Operators
    PROVE  /\ context[o] \in Checkpoints
           /\ NextStep(o) \in Nat
           /\ ResolutionCheckpoint(o) \in Checkpoints
           /\ StepCheckpoint(o) \in Checkpoints
  <1>1. context[o] \in Checkpoints
    BY DEF TypeInv, TypeOK, VolatileTypeOK
  <1>2. NextStep(o) \in Nat
    BY <1>1 DEF NextStep, Checkpoints
  <1>3. \A name \in CheckpointNames : Id(name) \in CheckpointIds
    BY DEF Id, CheckpointIds
  <1>4. ResolutionCheckpoint(o) \in Checkpoints
    <2>1. Id("approval-resolution") \in CheckpointIds
      BY <1>3 DEF CheckpointNames
    <2>2. ApprovalOf(o) \in Approvals
      BY DEF ApprovalOf, Approvals
    <2>3. (IF Approves(o) THEN "action_stub_approved" ELSE "action_stub_denied") \in Phases
      BY DEF Phases, ACTION_STUB_PHASES
    <2> QED
      BY <1>1, <1>2, <2>1, <2>2, <2>3 DEF ResolutionCheckpoint, Checkpoints
  <1>5. StepCheckpoint(o) \in Checkpoints
    <2>1. Id(IF job[o].slice = "execute" THEN "deployment-rollback-execution"
             ELSE "deployment-outcome-verification") \in CheckpointIds
      BY <1>3 DEF CheckpointNames
    <2>2. ExecutionPhase(o) \in Phases
      BY DEF ExecutionPhase, Phases, ACTION_EXECUTION_PHASES
    <2>3. OutcomePhase(o) \in Phases
      BY DEF OutcomePhase, Phases, OUTCOME_VERIFICATION_PHASES
    <2> QED
      BY <1>1, <1>2, <2>1, <2>2, <2>3 DEF StepCheckpoint, Checkpoints
  <1> QED
    BY <1>1, <1>2, <1>4, <1>5

LEMMA AppendType ==
    ASSUME TypeInv, NEW e \in Events, Append1(e)
    PROVE  transcript' \in Seq(Events)
  BY AppendEvent DEF TypeInv, TypeOK, DurableTypeOK, Append1

\* Where a tool call that has ended, or goes on with its next endpoint, leaves
\* an operator.
WaitLabels == {"record_rollback", "probe_metrics", "probe_health", "record_probe"}

LEMMA ToolEndsType ==
    ASSUME TypeInv, NEW o \in Operators,
           NEW result \in {"none", "succeeded", "failed", "raised"},
           NEW next \in WaitLabels,
           ToolEnds(o, result, next), UNCHANGED job
    PROVE  /\ toolResult' \in [Operators -> {"none", "succeeded", "failed", "raised"}]
           /\ pc' \in [Operators -> Labels]
           /\ WriterJobs'
  BY DEF TypeInv, TypeOK, VolatileTypeOK, WriterJobs, ToolEnds, Goto, Labels, WaitLabels

LEMMA NextTypeInv == TypeInv /\ [Next]_vars => TypeInv'
  <1> SUFFICES ASSUME TypeInv, [Next]_vars PROVE TypeInv'
    OBVIOUS
  <1> USE DEF TypeInv, TypeOK, DurableTypeOK, EnvironmentTypeOK, CountersTypeOK,
          durable, environment, counters, slice
  <1>1. ASSUME NEW o \in Operators, NEW command \in Commands, StartCommand(o, command)
        PROVE  TypeInv'
    <2>1. JobOf(command) \in Jobs
      BY CommandsAssumption DEF JobOf, Jobs, AllCommands, Decisions, Modes, ShellStates
    <2> QED
      BY <1>1, <2>1 DEF StartCommand, Goto, VolatileTypeOK, Labels, WriterJobs
  <1>2. ASSUME NEW o \in Operators, ReadCheckpoint(o) PROVE TypeInv'
    BY <1>2 DEF ReadCheckpoint, Goto, VolatileTypeOK, Labels, WriterJobs
  <1>3. ASSUME NEW o \in Operators, Reject(o) PROVE TypeInv'
    BY <1>3, FinishType DEF Reject
  <1>4. ASSUME NEW o \in Operators, BeginResolve(o) PROVE TypeInv'
    BY <1>4 DEF BeginResolve, Goto, VolatileTypeOK, Labels, WriterJobs
  <1>5. ASSUME NEW o \in Operators, RecordDecision(o) PROVE TypeInv'
    <2>1. Event("approval_resolved", job[o].argument, NextStep(o), ApprovalOf(o)) \in Events
      <3>1. job[o].argument \in {"approve", "deny", "auto-approve"}
        BY <1>5 DEF RecordDecision, WriterJobs, VolatileTypeOK, Jobs, Decisions
      <3> QED
        BY <3>1, EventType, WrittenCheckpoints DEF EventTypes, EventNames, Statuses, ApprovalOf
    <2>2. transcript' \in Seq(Events)
      BY <1>5, <2>1, AppendType DEF RecordDecision
    <2> QED
      BY <1>5, <2>2 DEF RecordDecision, Goto, VolatileTypeOK, Labels, WriterJobs
  <1>6. ASSUME NEW o \in Operators, SaveDecision(o) PROVE TypeInv'
    BY <1>6, WrittenCheckpoints DEF SaveDecision, Goto, VolatileTypeOK, Labels, WriterJobs
  <1>7. ASSUME NEW o \in Operators, MarkDecision(o) PROVE TypeInv'
    <2>1. transcript' \in Seq(Events)
      BY <1>7, MarkerType, WrittenCheckpoints, AppendType DEF MarkDecision
    <2>2. [slice |-> "execute", argument |-> "none"] \in Jobs
      BY DEF Jobs
    <2> QED
      BY <1>7, <2>1, <2>2, FinishType, ContinueType DEF MarkDecision
  <1>8. ASSUME NEW o \in Operators, BeginExecute(o) PROVE TypeInv'
    BY <1>8 DEF BeginExecute, Goto, VolatileTypeOK, Labels, WriterJobs, RollbackBranch, Branches
  <1>9. ASSUME NEW o \in Operators, RequestRollback(o) PROVE TypeInv'
    <2>1. Event("tool_request", ActionExecution.tool, NextStep(o), "none") \in Events
      BY <1>9, EventType, WrittenCheckpoints DEF RequestRollback, EventTypes, EventNames, Statuses
    <2>2. transcript' \in Seq(Events)
      BY <1>9, <2>1, AppendType DEF RequestRollback
    <2> QED
      BY <1>9, <2>2 DEF RequestRollback, Goto, VolatileTypeOK, Labels, WriterJobs
  <1>10. ASSUME NEW o \in Operators, CheckTarget(o) PROVE TypeInv'
    <2>1. CASE \E result \in {"failed", "raised"} : ToolEnds(o, result, "record_rollback")
      BY <1>10, <2>1, ToolEndsType DEF CheckTarget, VolatileTypeOK, WaitLabels
    <2>2. CASE pc' = [pc EXCEPT ![o] = "post_rollback"] /\ UNCHANGED toolResult
      BY <1>10, <2>2 DEF CheckTarget, VolatileTypeOK, Labels, WriterJobs
    <2> QED
      BY <1>10, <2>1, <2>2 DEF CheckTarget, Goto
  <1>11. ASSUME NEW o \in Operators, PostRollback(o) PROVE TypeInv'
    <2>1. CASE ToolEnds(o, "failed", "record_rollback") /\ target' \in {target, "previous"}
      BY <1>11, <2>1, ToolEndsType DEF PostRollback, VolatileTypeOK, WaitLabels, Versions
    <2>2. CASE pc' = [pc EXCEPT ![o] = "read_back"] /\ UNCHANGED toolResult
               /\ target' = "previous"
      BY <1>11, <2>2 DEF PostRollback, VolatileTypeOK, Labels, WriterJobs, Versions
    <2> QED
      BY <1>11, <2>1, <2>2 DEF PostRollback, Goto
  <1>12. ASSUME NEW o \in Operators, ReadBack(o) PROVE TypeInv'
    <2>1. PICK result \in {"failed", "succeeded"} : ToolEnds(o, result, "record_rollback")
      BY <1>12 DEF ReadBack
    <2>2. {target} \in SUBSET Versions
      OBVIOUS
    <2>3. seen' \in [Operators -> SUBSET Versions]
      <3>1. CASE UNCHANGED seen
        BY <3>1 DEF VolatileTypeOK
      <3>2. CASE seen' = [seen EXCEPT ![o] = {target}]
        BY <2>2, <3>2 DEF VolatileTypeOK
      <3> QED
        BY <1>12, <3>1, <3>2 DEF ReadBack
    <2>4. UNCHANGED job /\ "record_rollback" \in WaitLabels
      BY <1>12 DEF ReadBack, WaitLabels
    <2>5. /\ toolResult' \in [Operators -> {"none", "succeeded", "failed", "raised"}]
          /\ pc' \in [Operators -> Labels]
          /\ WriterJobs'
      BY <2>1, <2>4, ToolEndsType
    <2> QED
      BY <1>12, <2>3, <2>5 DEF ReadBack, VolatileTypeOK
  <1>13. ASSUME NEW o \in Operators, RecordRollback(o) PROVE TypeInv'
    <2>1. Event("tool_result", ActionExecution.tool, NextStep(o), ResultStatus(o)) \in Events
      BY <1>13, EventType, WrittenCheckpoints DEF RecordRollback, EventTypes, EventNames, Statuses, ResultStatus
    <2>2. transcript' \in Seq(Events)
      BY <1>13, <2>1, AppendType DEF RecordRollback
    <2> QED
      BY <1>13, <2>2 DEF RecordRollback, Goto, VolatileTypeOK, Labels, WriterJobs
  <1>14. ASSUME NEW o \in Operators, BeginProbe(o) PROVE TypeInv'
    BY <1>14 DEF BeginProbe, Goto, VolatileTypeOK, Labels, WriterJobs, OutcomeBranch, Branches
  <1>15. ASSUME NEW o \in Operators, RequestProbe(o) PROVE TypeInv'
    <2>1. Event("tool_request", OutcomeVerification.tool, NextStep(o), "none") \in Events
      BY <1>15, EventType, WrittenCheckpoints DEF RequestProbe, EventTypes, EventNames, Statuses
    <2>2. transcript' \in Seq(Events)
      BY <1>15, <2>1, AppendType DEF RequestProbe
    <2> QED
      BY <1>15, <2>2 DEF RequestProbe, Goto, VolatileTypeOK, Labels, WriterJobs
  <1>16. ASSUME NEW o \in Operators, ProbeEndpoint(o) PROVE TypeInv'
    <2>1. PICK k \in 1 .. 3 : ProbeEndpoint(o)!(k)
      BY <1>16 DEF ProbeEndpoint
    <2>2. ProbeLabels[k + 1] \in WaitLabels
      BY DEF ProbeLabels, WaitLabels
    <2>a. seen' = seen \/ seen' = [seen EXCEPT ![o] = @ \cup {target}]
      BY <2>1
    <2>b. seen \in [Operators -> SUBSET Versions] /\ target \in Versions
      BY DEF EnvironmentTypeOK, VolatileTypeOK
    <2>3. seen' \in [Operators -> SUBSET Versions]
      <3>1. seen[o] \cup {target} \in SUBSET Versions
        BY <2>b
      <3> QED
        BY <2>a, <2>b, <3>1
    <2>4. \E result \in {"none", "succeeded", "failed", "raised"}, next \in WaitLabels :
              ToolEnds(o, result, next)
      BY <2>1, <2>2 DEF WaitLabels
    <2> QED
      BY <2>1, <2>3, <2>4, ToolEndsType DEF VolatileTypeOK
  <1>17. ASSUME NEW o \in Operators, RecordProbe(o) PROVE TypeInv'
    <2>1. Event("tool_result", OutcomeVerification.tool, NextStep(o), ResultStatus(o)) \in Events
      BY <1>17, EventType, WrittenCheckpoints DEF RecordProbe, EventTypes, EventNames, Statuses, ResultStatus
    <2>2. transcript' \in Seq(Events)
      BY <1>17, <2>1, AppendType DEF RecordProbe
    <2> QED
      BY <1>17, <2>2 DEF RecordProbe, Goto, VolatileTypeOK, Labels, WriterJobs
  <1>18. ASSUME NEW o \in Operators, RequestVerifier(o) PROVE TypeInv'
    <2>1. Event("verifier_request", VerifierOf(o), NextStep(o), "none") \in Events
      BY <1>18, EventType, WrittenCheckpoints DEF RequestVerifier, EventTypes, EventNames, Statuses, VerifierOf
    <2>2. transcript' \in Seq(Events)
      BY <1>18, <2>1, AppendType DEF RequestVerifier
    <2> QED
      BY <1>18, <2>2 DEF RequestVerifier, Goto, VolatileTypeOK, Labels, WriterJobs
  <1>19. ASSUME NEW o \in Operators, RecordVerdict(o) PROVE TypeInv'
    <2> DEFINE v == IF job[o].slice = "execute" THEN RollbackVerdict(o) ELSE OutcomeVerdict(o)
    <2>1. v \in {"pass", "fail", "unverified"}
      BY DEF RollbackVerdict, OutcomeVerdict
    <2>2. Event("verifier_result", VerifierOf(o), NextStep(o), v) \in Events
      BY <2>1, EventType, WrittenCheckpoints DEF EventTypes, EventNames, Statuses, VerifierOf
    <2>3. transcript' \in Seq(Events)
      BY <1>19, <2>2, AppendType DEF RecordVerdict
    <2> QED
      BY <1>19, <2>1, <2>3 DEF RecordVerdict, Goto, VolatileTypeOK, Labels, WriterJobs
  <1>20. ASSUME NEW o \in Operators, SaveCheckpoint(o) PROVE TypeInv'
    BY <1>20, WrittenCheckpoints DEF SaveCheckpoint, Goto, VolatileTypeOK, Labels, WriterJobs
  <1>21. ASSUME NEW o \in Operators, MarkCheckpoint(o) PROVE TypeInv'
    <2>1. transcript' \in Seq(Events)
      BY <1>21, MarkerType, WrittenCheckpoints, AppendType DEF MarkCheckpoint
    <2>2. [slice |-> "probe", argument |-> "none"] \in Jobs
      BY DEF Jobs
    <2> QED
      BY <1>21, <2>1, <2>2, FinishType, ContinueType DEF MarkCheckpoint
  <1>22. ASSUME NEW o \in Operators, SkipMode(o) PROVE TypeInv'
    <2>1. AutoJob \in Jobs
      BY DEF AutoJob, Jobs
    <2> QED
      BY <1>22, <2>1, FinishType, ContinueType DEF SkipMode
  <1>23. ASSUME NEW o \in Operators, BeginMode(o) PROVE TypeInv'
    BY <1>23 DEF BeginMode, Goto, VolatileTypeOK, Labels, WriterJobs
  <1>24. ASSUME NEW o \in Operators, SaveMode(o) PROVE TypeInv'
    <2> DEFINE copy == [context[o] EXCEPT !.id = [name |-> "operator-shell", stamp |-> stamps + 1],
                                         !.mode = job[o].argument]
    <2>1. job[o].argument \in ShellStates
      BY <1>24 DEF SaveMode, WriterJobs, VolatileTypeOK, Jobs
    <2>2. [name |-> "operator-shell", stamp |-> stamps + 1] \in CheckpointIds
      BY DEF CheckpointIds, CheckpointNames
    <2>3. copy \in Checkpoints
      BY <2>1, <2>2, WrittenCheckpoints DEF Checkpoints
    <2> QED
      BY <1>24, <2>3 DEF SaveMode, Goto, VolatileTypeOK, Labels, WriterJobs
  <1>25. ASSUME NEW o \in Operators, MarkMode(o) PROVE TypeInv'
    <2>1. transcript' \in Seq(Events)
      BY <1>25, MarkerType, WrittenCheckpoints, AppendType DEF MarkMode, Checkpoints
    <2>2. AutoJob \in Jobs
      BY DEF AutoJob, Jobs
    <2> QED
      BY <1>25, <2>1, <2>2, FinishType, ContinueType DEF MarkMode
  <1>26. ASSUME NEW o \in Operators, SkipAuto(o) PROVE TypeInv'
    BY <1>26, FinishType DEF SkipAuto
  <1>27. ASSUME NEW o \in Operators, BeginAuto(o) PROVE TypeInv'
    BY <1>27 DEF BeginAuto, Goto, VolatileTypeOK, Labels, WriterJobs, Branches
  <1>28. ASSUME NEW o \in Operators, EvaluateGate(o) PROVE TypeInv'
    <2>1. /\ [slice |-> "resolve", argument |-> "auto-approve"] \in Jobs
          /\ [slice |-> "set_mode", argument |-> "degraded"] \in Jobs
      BY DEF Jobs, ShellStates
    <2> QED
      BY <1>28, <2>1, ContinueType DEF EvaluateGate
  <1>29. ASSUME NEW o \in Operators, Crash(o) PROVE TypeInv'
    BY <1>29, FinishType DEF Crash
  <1>30. ASSUME NEW o \in Operators, CrashMidLine(o) PROVE TypeInv'
    <2>1. TornLine \in Events
      BY EventType DEF TornLine, EventTypes, EventNames, CheckpointNames, Statuses
    <2>2. transcript' \in Seq(Events)
      BY <1>30, <2>1, AppendType DEF CrashMidLine
    <2> QED
      BY <1>30, <2>2, FinishType DEF CrashMidLine
  <1>31. CASE RestartTarget
    BY <1>31 DEF RestartTarget, VolatileTypeOK, WriterJobs, Versions
  <1>32. CASE UNCHANGED vars
    BY <1>32 DEF vars, VolatileTypeOK, WriterJobs
  <1> QED
    BY <1>1, <1>2, <1>3, <1>4, <1>5, <1>6, <1>7, <1>8, <1>9, <1>10, <1>11, <1>12, <1>13, <1>14, <1>15, <1>16, <1>17, <1>18, <1>19, <1>20, <1>21, <1>22, <1>23, <1>24, <1>25, <1>26, <1>27, <1>28, <1>29, <1>30, <1>31, <1>32 DEF Next, Proceed

THEOREM TypeCorrect == Spec => []TypeOK
  <1>1. TypeInv => TypeOK
    BY DEF TypeInv
  <1> QED
    BY InitTypeInv, NextTypeInv, <1>1, PTL DEF Spec

=============================================================================
