# A TLA+ model of the on-call agent

The repository (`src/`) is an incident-response runtime written in Python. An
incident session walks through eight resumable steps, from triage to an
*action stub* that proposes one write: rolling a deployment back. The write waits
for an operator's approval, is executed against a live service, and is verified
by a probe. Everything that survives a process is in two files per session: a
checkpoint that is replaced, and a transcript that is appended to.

This directory models that system from four sides. The **approval boundary** runs
from a session that awaits a decision to a session whose outcome is verified, with
concurrent operators, crashes between any two writes, half-written lines, lost HTTP
answers and a service that restarts. The **slice chain** before it runs from the alert
to the proposal, with every tool and verifier failing in every way, crashes, and a
session id that is used twice. The **decision chain** is the same path seen through its
data: what each tool makes of its input, what each verifier asks of it, and the
auto-safe gate at the end, while the live service changes under the reads. The
**incident memory** is what several sessions of one incident share: the working-memory
file and the handoff that is exported from it.

All paths below are relative to the repository; the Python package is `src/`
inside it (`src/src/...` as named in `PROJECT.json`).

## 1. The system

| Component | Files | State it keeps | Operations | What makes it correct |
|---|---|---|---|---|
| Phase vocabulary | `runtime/phases.py` | none | entry and compatibility sets | a step starts only from the phases it was written for |
| Checkpoint store | `memory/checkpoints.py` | `{session}.json` | write (temp file, fsync, rename), load | a reader sees the old or the new file, never a mixture |
| Transcript store | `transcripts/writer.py`, `models.py` | `{session}.jsonl` | append (one line), read all | append-only; an unparseable line fails the load |
| Session artifacts | `context/session_artifacts.py` | none: derived from the two files | load, reconcile, classify the tail, rebuild each artifact | only the prefix up to the marker of the loaded checkpoint is trusted |
| Slice harness | `runtime/harness.py`, `execution.py` | the loaded context | tool and verifier calls, checkpoint and marker | every call is requested before and recorded after it runs |
| Slice chain | `agent/incident_*.py`, their tools and verifiers | none of its own | triage, follow-up, evidence, hypothesis, recommendation, action stub | each step consumes only a verified artifact of the one before |
| Approval and live surface | `runtime/live_surface.py` | none of its own | start, resolve, verify | a decision is taken once; only an approval leads to the rollback |
| Rollback execution | `agent/deployment_rollback_execution.py`, tool, verifier | none of its own | one bounded rollback | at most one rollback; none without approval |
| Outcome verification | `agent/deployment_outcome_verification.py`, tool, verifier | incident working memory | probe and judge; may be rerun | success only after a verified rollback and a passed probe |
| Demo target | `runtime/demo_target.py` | current version (in memory) | deployment, metrics, health, rollback | switches once |
| Operator shell | `runtime/shell.py` | the current session, the mode on disk | commands, `/mode`, auto-safe gate, `/handoff` | a mode write changes nothing but the mode; auto-safe fails closed |
| Operator console | `runtime/console_api.py`, `console_server.py` | none | the same operations, one thread per request | as the shell |
| Working memory, handoff | `memory/incident_working_memory.py`, `context/handoff*.py` | two files per incident | write, assemble, regenerate | never ahead of the session it describes, never of two sessions at once |
| Permission policy | `permissions/` | none | classify a tool by risk | write-capable tools need approval |
| Views and evaluation | `runtime/assistant_api.py`, `inspect.py`, `cli.py`, `eval_surface.py`, `evals/` | none | read-only rendering, replay | not modelled |

**How they interact.** A command (a shell line, a CLI call or a console request)
runs to its end in one process or thread. It loads the session, checks phase and
approval, runs one to three slices one after the other, each of which loads the
session again, and returns. There is no lock: two shells, or two threads of the
console's `ThreadingHTTPServer`, interleave at every file access and HTTP call.

**What is hard here.** The checkpoint and its `checkpoint_written` marker are two
writes; the checkpoint is read before the transcript; checks are made on a
snapshot and used several writes later; checkpoint ids are reused by every
re-verification; the mode write rewrites the whole checkpoint; a request on disk
says nothing about whether its call was made; sessions of one incident share two files
that are written in place; a live service is read three times for one bundle. `PROJECT.json` lists these hazards
one by one, each at the line where it bites.

## 2. The modules

| Module | What it is |
|---|---|
| `IncidentPhases` | the phases and the sets the code tests them against |
| `SessionArtifacts` | pure operators: events, `CommitPoint`, `TailClass`, `Loadable`, and `VerifiedRecord`, which rebuilds an artifact from the committed prefix |
| `SliceChain` | the state machine from alert to proposal: six slices over the same two files, and the working memory |
| `IncidentPipeline` | the abstract promise of the chain: one stage at a time, one claim, passed on or dropped |
| `ChainProperties` | the chain's properties, and the inductive invariant `ChainConsistent` |
| `ChainProofs` | every safety property of the chain and its refinement, proved |
| `ToolContracts` | pure operators on records: the output of each of the six tools, the verdict of each verifier, the permission policy |
| `AutoSafeGate` | the fifteen conditions of the shell's auto-safe gate, each passed, failed or unknown |
| `DecisionChain` | the state machine of one incident's data: alert, six slices, gate, and a service that changes |
| `DecisionProperties`, `MCDecisionChain` | its properties, and its instance for TLC |
| `DecisionProofs` | every property of the decision chain and its refinement, proved |
| `IncidentMemory` | the state machine of the files that sessions of one incident share |
| `MemoryProperties`, `MCIncidentMemory` | its properties, and its instance for TLC |
| `MemoryProofs` | the inductive invariant `MemoryInv` and four of its properties, proved |
| `HandoffProofs` | the inductive invariant `HandoffInv` and that a handoff backs its phase, proved |
| `ApprovalRuntime` | the state machine: operators, the two files, the service, crashes |
| `ApprovalGate` | the abstract promise: decide once, send at most one rollback, confirm only what was sent |
| `ApprovalProperties` | type invariant, safety, action properties, refinement, progress, documented claims, and the inductive invariant `SessionConsistent` |
| `ApprovalProofs` | type correctness, proved |
| `ApprovalSafetyProofs` | the inductive invariant `HistoryBacked` and what it implies for any number of operators, proved |
| `ApprovalCountProofs` | that requests never outnumber approvals, for any number of operators, proved |
| `ApprovalSessionProofs` | the promises of a session with one operator at a time and its refinement of `ApprovalGate`, proved |
| `MCApprovalRuntime` | the instance TLC checks |

`SliceChain` and `ApprovalRuntime` are the same session one after the other, over the
same operators of `SessionArtifacts`. They are not one state space: `StubLeavesStartState`
shows that the chain leaves one of the states `ApprovalRuntime` starts from, and a session
that is started again while its approval is being decided is not modelled.
`SliceChain` and `DecisionChain` are the same slices twice, once as files with one claim
per artifact, once as data without files. Both are shown to implement `IncidentPipeline`,
which is what one may conclude from the other: that a sound tool passes its input's claim
on and that a verifier recomputes it is assumed in `SliceChain` (`SoundOutputs`,
`OutputVerdict`) and shown in `DecisionChain`. `IncidentMemory` takes a slice as four
steps, whose parts are `SliceChain`'s and `ApprovalRuntime`'s.

### State of the approval boundary

`checkpoint` and `transcript` are the two files. A checkpoint keeps its id (name
and, for mode writes, a time stamp), phase, step, approval status and mode; an
event keeps its type, the tool, verifier or checkpoint it names, its step and its
status. Payloads, reasons and summaries are dropped: a marker's summary is
represented by the phase it tells of. The call id of a tool event is a function
of session and tool in the code, so the tool's name stands for it.

`target` is the version the live service runs and `rollbacksSent` counts the
`POST /rollback` requests, which nothing in the system counts but every property
cares about. `pc`, `job`, `context`, `branch`, `toolResult`, `seen` and `verdict`
are what a command holds in memory; they vanish in a crash.

### Actions of the approval boundary

One action is one durable write or one HTTP exchange. A command is

    StartCommand, ReadCheckpoint, (Reject | Begin...), the slice's own actions, Finish or Continue

where `Continue` is a slice that follows in the same command and loads the session
afresh. Resolving is `RecordDecision`, `SaveDecision`, `MarkDecision`; executing is
`RequestRollback`, `CheckTarget`, `PostRollback`, `ReadBack`, `RecordRollback`;
probing is `RequestProbe`, three times `ProbeEndpoint`, `RecordProbe`; both end in
`RequestVerifier`, `RecordVerdict`, `SaveCheckpoint`, `MarkCheckpoint`. The shell
adds `SkipMode`/`BeginMode`, `SaveMode`, `MarkMode` and the auto-safe gate
`SkipAuto`/`BeginAuto`, `EvaluateGate`. Loading is split in two because the code
reads the checkpoint first and the transcript second.

`Crash` stops a command anywhere. `CrashMidLine` also leaves part of a line, which
makes the transcript unparseable. `RestartTarget` brings the bad release back, as
the demo service keeps its version in memory.

### The slice chain

The slices differ in data more than in control, so what tells them apart is a table,
`Slices`: the artifact and checkpoint id of each, the phases it starts in (`entry`), the
phases in which it may take the artifact of the slice before (`consumes`), and the phase
each outcome ends in. The actions are shared, as the harness is: `Start`, then per slice
`Reject`, `BeginFollowUp` or `BeginSlice` (load and choose a branch), `RequestTool`,
`RunTool`, `RequestVerifier`, `RecordVerdict`, `SaveCheckpoint`, `MarkCheckpoint` and,
after a verified hypothesis or recommendation, `WriteMemory`. The follow-up slice does not
use the harness and lets an exception of its tool or its verifier escape (`EscapeFollowUp`,
`EscapeFollowUpVerifier`).

What an artifact says is one *claim*: triage leaves gaps or is complete, the follow-up
names a target, and evidence, hypothesis, recommendation and stub either support the
deployment regression or are conservative. A sound tool passes the claim of its input on,
and the verifiers of the last three slices recompute it. A faulty tool reports a failure,
raises (or returns what does not parse, which the harness treats alike), or returns
something its verifier should reject; a faulty verifier raises or gives no verdict.
`FaultySlices` and `FaultKinds` say who may go wrong and how, `MaxFaults` how often. The
repository's own tools are pure functions except the evidence reader; the faults of the
others stand for the pluggable tools the steps accept. A chain started by the live surface
always leaves gaps, since it passes no recent deployment; the steps themselves also accept
a complete payload.

`Start` may run again on the files of an earlier run, as the code does when a payload names
its session: steps, call ids and checkpoint ids repeat.

### The decision chain

`ToolContracts` keeps of an output the fields some table looks at; a text is kept as the
one thing asked of it. An output that may be missing is a set of at most one record.
`DecisionChain` runs the slices: `RunTriage`, `SkipFollowUp` or `RunFollowUp`, the evidence
read (`ReadFixture`, or `ReadDeployment` and `ReadHealth`, between which the service may
change), `RunHypothesis`, `RunRecommendation`, `RunActionStub`. Each applies the
repository's tool or, `MaxReplaced` times, any output `Plugged` offers, and then the
verifier; `Refuse` is the permission policy turning down a tool that is not read-only.
`EvaluateGate` asks the auto-safe gate at any end of the chain, with any policy, with or
without an answer of the service, and with whatever working memory another session left
(`OtherSessionRemembers`). `ServiceChanges` is a rollback, a restart or a new release.

### The incident memory

A session writes, slice by slice, what `NextArtifact` says for its phase: `RunSlice`
appends the tool's result and the verdict, `SaveCheckpoint` and `MarkCheckpoint` commit, and
`WriteMemory` replaces the incident's working memory if the phase is worth remembering (a
verified hypothesis or recommendation, a verified recovery). The recovery reads the memory
first (`ReadMemory`), whoever wrote it, and keeps its gaps. `ResolveApproval` is the
operator's decision. An export is `BeginExport` (the checkpoint is read), `LoadForExport`
(the transcript, and the artifact the phase requires), `Assemble` (the memory) and
`WriteHandoff`; sessions go on in between. `CrashMidMemory` and `CrashMidHandoff` leave a
file no reader can parse, which fails every later export, and every recovery's memory
write, until a hypothesis or recommendation replaces the memory.
A memory or handoff keeps whose it is (`source`), the phase, whose hypothesis,
recommendation and outcome it shows, the gaps, and whose note.

### Abstractions, and where they could hide something

* The session starts as the action-stub step leaves it: a verified candidate that
  awaits approval, a verified stub that proposes nothing, or a deferred step.
* The three bookkeeping events (`resume_started`, `model_step`,
  `permission_decision`) are not written: reconciliation skips them and no artifact
  is built from them, so a crash right after one leaves the files as a crash before it.
* In `ApprovalRuntime` the auto-safe gate's policy, allowlist, hypothesis, recommendation
  and working-memory conditions are a free choice; its reading of the live service and of
  the stub is not. `AutoSafeGate` has all fifteen.
* A read-back looks at the deployment only, as the rollback verifier does; the
  health answers of the rollback tool can fail but do not enter the verdict.
* The mode's requested and effective values and its reason are one value: the mode
  asked for, or `degraded`.
* Time stamps of mode checkpoints are a counter, so two mode writes never share an id.
* In the chain, the mode is left out of the checkpoint (it is only carried along), and one
  command runs at a time.
* The rollback verifier raises for a missing output instead of answering "unverified" (it
  does not import `VerifierRetryHint`, `verifiers/implementations/deployment_rollback_execution.py:157`).
  The harness records "unverified" for it and the tool's failure decides the phase, so
  `RollbackVerdict` says "unverified".
* In `DecisionChain` slices other than the evidence read take one step and nothing crashes;
  `GET /metrics` is made between the other two reads and only its failure matters.
* In `IncidentMemory` a session whose verdict fell short of a pass is not followed, except
  that an outcome probe may be repeated: later slices defer, and neither write the memory
  nor have an artifact to export. Triage and follow-up come before anything is shared.
  Evidence references and the wording of notes are left out.
* The live service of `DecisionChain` is healthy exactly when it runs the good release, as
  the demo target is.
* The chain's branch after a failure of a consumed artifact is modelled but never taken:
  `CompatiblePhaseHasArtifact` says why.
* An append that a crash leaves complete but for its newline is not modelled.

## 3. The runs

`chain`, `chain_progress`, `lineage` and `follow_up` check `ChainProperties`, `decision`
`MCDecisionChain`, `memory` `MCIncidentMemory`, the others `MCApprovalRuntime`. Deadlock is
not checked: operators, starts and sessions stop when their budget is used up or their
chain has ended.

| Run | Instance | What it shows |
|---|---|---|
| `session` | 1 operator, 4 commands of 6 kinds, 2 crashes, 1 restart, 3 stub states | the invariants and action properties of a session driven by one operator, the inductive invariant behind them, and the refinement of `ApprovalGate` |
| `race` | 2 operators, one decision each, symmetric | approvals, requests and claims of success stay in order without any lock |
| `progress` | 1 operator, no crashes, fair | every command ends; an approval is followed by the rollback's record |
| `chain` | 2 starts of one session, 2 faults of any kind in any slice, 1 crash | what the chain's record is worth, the inductive invariant behind that, that it ends where `ApprovalRuntime` begins, and the refinement of `IncidentPipeline` |
| `chain_progress` | the same without crashes, fair | no failure strands a chain between follow-up and stub |
| `decision` | 3 alerts, 3 intakes, 3 releases, 2 outputs changed in one field each | the repository's tools meet its verifiers; verified outputs follow the evidence whatever the tools say; torn reads and foreign memories never open the gate; the refinement of `IncidentPipeline` |
| `memory` | 2 symmetric sessions, 1 export, 2 probes per session, 1 crash | the shared memory speaks for one session, settled gaps stay settled, a handoff stands on one committed checkpoint |
| `deny_race`, `stranded`, `mode_race`, `lineage`, `follow_up` | the smallest that shows it | five disagreements, section 6 |

**Bounds.** Four commands suffice for decide, change the mode, and re-verify twice,
so a rerun of a rerun happens. Two crashes cover a crash, a recovery attempt and a
crash of that. One restart puts the bad release back after the rollback, the
situation in which a second rollback would go through. With two operators one
command each already gives every pair of decisions every interleaving of their
writes (over a million states); crashes are left to the single-operator run
because a crash only removes steps of the other operator.

For the chain, two starts give every pair of an old run and a new one, and one crash cuts
the old run (or the new one) at every write; two faults are one in each run, or two in a
row in one (700 thousand states), so a failure in one run meets every remnant of the other.

In `decision` a plugged-in tool changes one field of the repository's output, any field to
any value, in up to two slices: a verifier that overlooks one field is met by the change of
just that field, and the second change is one that could hide the first from the next
verifier. Alerts are with nothing, the deployment alone or all metadata, which reaches every
follow-up target (ownership through a replaced triage). 400 thousand states.

In `memory` two sessions suffice for one to write between another's read and write, and one
export for every order of its four steps and theirs: nobody reads a handoff, so a second
export meets the states the first one could have met. Two probes let an unverified recovery
be followed by a verified one, and the reverse. The recovered reading and the failing verdict were also run, each alone, without a violation;
together they exceed the time of a regular run.
1.6 million states.

**Single-operator properties.** `PhaseMatchesApproval`, `AtMostOneRollback`,
`UnfinishedWriteNotResumable`, `TrustedCheckpointMatchesMarker`, `DecisionStands`,
`AutoApprovalUnderAutoSafe`, `ModeWriteKeepsDecision` and the refinement are
promises of a session with one writer at a time. With two concurrent writers the
code does not keep several of them, since there is no lock and no compare-and-swap;
`deny_race` and `mode_race` show the two cases that a document speaks about.
Of the auto-safe gate and of the mode write this means: with one operator
`AutoApprovalUnderAutoSafe` and `ModeWriteKeepsDecision` say that the guard is asked and the
fields are carried over; with two, a mode written between the gate and the approval is not
looked at again, and a mode write from a copy made before a decision puts the old phase
back. TLC finds both within a dozen steps on the instance of `mode_race` extended by the command
`resume` and by sessions that start in auto-safe mode.
`RequestFollowsApproval`, `RollbackIsRecorded`, `SucceededIsBacked` and
`RequestsNeverOutnumberApprovals` hold for concurrent writers as well.

**Fairness.** `FairSpec` asks weak fairness of `Proceed(o)` for each operator: a
command that has begun keeps running. The code is straight-line with no waiting on
another command, and its HTTP clients have a five-second timeout, which is the
failing disjunct of each exchange. No fairness is asked of `StartCommand`, `Crash` or
`RestartTarget`. The chain's `FairSpec` asks the same of `Run`, every step of a chain that
has been started; its only waits are the evidence reader's HTTP reads with the same timeout.

## 4. What is proved

Every invariant, action property and refinement that a passing run checks is also a theorem
that TLAPS checks, for every value of the constants; progress stays with TLC. Each component
has one set of named assumptions on its constants, the only ones its theorems use, and TLC
evaluates them on every run: those of `ApprovalRuntime` (any set of operators, any subset of
the commands, any bounds), of `SliceChain` (any number of starts, faults and crashes),
of `DecisionChain` (any set of alerts, risks and plugged-in outputs, any number of them) and
of `IncidentMemory` (any number of sessions, exporters, probes, exports and crashes).

| Theorem | Statement |
|---|---|
| `TypeCorrect` | `Spec => []TypeOK` |
| `HistoryIsBacked` | `Spec => [](TypeInv /\ HistoryBacked)` |
| `RequestsFollowApprovals` | `Spec => []RequestFollowsApproval` |
| `RollbacksAreRecorded` | `Spec => []RollbackIsRecorded` |
| `SuccessIsBacked` | `Spec => []SucceededIsBacked` |
| `RequestsAreCounted` | `Spec => []RequestsNeverOutnumberApprovals` |
| `SessionInvariant`, `SessionIsConsistent` | `Solo`: `Spec => []SessionInv`, `Spec => []SessionConsistent` |
| `PhasesMatchApprovals` | `Solo`: `Spec => []PhaseMatchesApproval` |
| `OneRollbackAtMost` | `Solo`: `Spec => []AtMostOneRollback` |
| `UnfinishedWritesBlock` | `Solo`: `Spec => []UnfinishedWriteNotResumable` |
| `TrustedCheckpointsMatch` | `Solo`: `Spec => []TrustedCheckpointMatchesMarker` |
| `DecisionsStand` | `Solo`: `Spec => DecisionStands` |
| `ModeWritesKeepDecisions` | `Solo`: `Spec => ModeWriteKeepsDecision` |
| `AutoApprovalsAreUnderAutoSafe` | `Solo`: `Spec => AutoApprovalUnderAutoSafe` |
| `SessionImplementsGate` | `Solo`: `Spec => ImplementsGate` |
| `ChainIsConsistent` | `Spec => [](TypedChain /\ ChainConsistent)` |
| `ChainTypeCorrect` | `Spec => []ChainTypeOK` |
| `TrustedCheckpointsAreMarked` | `Spec => []TrustedCheckpointIsMarked` |
| `CompatiblePhasesHaveArtifacts` | `Spec => []CompatiblePhaseHasArtifact` |
| `CandidatesAreJustified` | `Spec => []CandidateIsJustified` |
| `MemoriesAreBacked` | `Spec => []MemoryIsBacked` |
| `StubsLeaveStartStates` | `Spec => []StubLeavesStartState` |
| `ChainImplementsPipeline` | `Spec => ImplementsPipeline` |
| `DecisionTypeCorrect` | `Spec => []DecisionTypeOK` |
| `ClaimIsCarried` | `Spec => []ClaimCarried` |
| `StubFollowsEvidence` | `Spec => []VerifiedStubFollowsEvidence` |
| `GateIsSound` | `Spec => []GateOpensOnlyForThisRelease` |
| `OwnToolsPass` | `Spec => []OwnToolsSatisfyVerifiers` |
| `EvidenceIsWhatWasRead`, `TornReadsAreConservative` | `Spec => []EvidenceTellsReads`, `Spec => []TornReadIsConservative` |
| `SlicesComeInOrder`, `DataKeepsThePromise` | `Spec => []ChainShape`, `Spec => DataImplementsPipeline` |
| `MemoryInvariant` | `Spec => []MemoryInv` |
| `MemoryTypes` | `Spec => []MemoryTypeOK` |
| `MemoryIsOneSessions` | `Spec => []MemorySpeaksForOneSession` |
| `ShownGapsAreVerified` | `Spec => []GapsAreVerified` |
| `RecoveryStaysResolved` | `Spec => []ResolvedGapStaysResolved` |
| `HandoffsBackTheirPhase` | `Spec => []HandoffBacksItsPhase` |

**Any number of operators.** `TypeOK` is not inductive by itself: that a mode write stores a
mode, and a resolution a decision, depends on the slice the operator runs when it gets
there. `TypeInv` adds `WriterJobs`, which says so.

The three safety properties are not inductive either. `RequestFollowsApproval`
speaks of the transcript, but the step that appends a request looks at a checkpoint
loaded earlier, perhaps written by someone else and perhaps no longer on disk.
`HistoryBacked` closes the gap with one idea: **the transcript only grows, so
whatever it shows once it shows for ever, and nobody claims anything it does not
show.** Its parts are that a checkpoint, on disk or loaded, says *approved* or
*succeeded* only when the transcript backs it (`ClaimsBacked`); that an operator is
past a point of a slice only after the events that lead there (`OperatorBacked`); and
that requests and successful results follow an approval. A step then has to be
looked at for one operator only (`Confined`, `OthersBacked`), and is of one of three
kinds: it writes nothing (`QuietStep`), saves a checkpoint (`SavingStep`) or appends an
event (`LoggingStep`). `ProbedBranch` says that a probe is chosen only if the committed
prefix holds the rollback's successful result and passed verdict. The `race` run checks
`HistoryBacked` with TLC.

`RequestsNeverOutnumberApprovals` compares two counts at every point of the transcript. Its
invariant adds the operators that have recorded an approval and still may request: each is a
credit, and at every moment requests and credits together are at most the approvals
(`ApprovalsCounted`).

**One operator at a time.** `Solo` says that any two operators are the same. It is needed:
`deny_race` and `mode_race` are runs of two operators in which a denial does not last and a
mode write restores an old approval. It is also what an operator does who uses one
shell. `SessionConsistent` is about the moments between two writes. Of the files it says
that a marker with the checkpoint's id either is this checkpoint's or has an unsafe event
after it (`MarkersMatch`), which is why reusing ids is harmless, and that a decision or a
rollback request the checkpoint does not tell of yet stands after every marker of the
checkpoint (`UntoldComesLast`), which is why a crash there leaves a session that does not
load. Of the command at work it says that the checkpoint it has loaded is the one on disk
until it saves (`LoadedIsCurrent`) and what the files are at each point of each slice. A
session that loads then has nothing untold (`LoadedFiles`), so an execution that gets past
its entry has not sent anything. The four invariants follow at once (`Promises`); the three
action properties and the refinement of `ApprovalGate` are shown of one step from it. The
`session` run checks `SessionConsistent` with TLC.

**The slice chain.** Two things make its invariant long: a session that is started again
writes the same ids, steps and phases into the same transcript, and a crash may leave its old
marker for a new checkpoint file. `ChainConsistent` says that such a checkpoint has an unsafe
event after the marker it would be taken for, or that the marker is its own and its claim is
on record before it, grounded in results and passes of one run (`FilesSound`); and that the
running slice stands where its own events at the end of the transcript say (`EventsFit`).
`ToolsReturnOnce` says that within one run no tool returns twice, so that the latest
result is the one the slices passed on. From there each
property is about a trusted checkpoint only. `CompatiblePhaseHasArtifact` needs to know how
`VerifiedRecord` rebuilds an artifact: the lemmas about it hold for any transcript. The
refinement of `IncidentPipeline` needs one more invariant, `ClaimTaken`: the input a slice
works on is the claim the checkpoint on disk makes. The `chain` run checks `ChainConsistent`
with TLC.

**The decision chain.** Its properties speak of the stub or of the gate, and of the evidence
four slices earlier; no verifier sees both. `ClaimCarried` bridges the distance: a slice whose
verifier has passed holds an output that its verifier's own condition ties to the output
before it, both still being there, and the control point says which slices have passed. The
lemmas on `HypothesisVerdict`, `RecommendationVerdict` and `StubVerdict` say what a pass
implies for any output whatever, so that plugged-in tools need no other treatment.
`GateIsSound` adds that the gate's fifteen conditions together ask for the passed slices and
for the release of the alert at the moment of the answer. `OwnToolsPass` goes the other way,
from each builder's output to a pass of its verifier, for every input that got through the
slice before. `TornReadIsConservative` follows from `EvidenceTellsReads`: what the
repository's reader says of a live service is a function of its two reads. The refinement
needs `ChainShape`, the order in which outputs appear, because the stage reached is read off
the outputs.

**The incident memory.** Its properties speak of two files and the transcripts of all
sessions. `MemoryInv` says what stands behind every value on its way into one of these files:
a phase that only a pass leads to has that pass on record (`Backed`), a slice about to write
the memory has just written its marker, and every gap in the memory, in the memory another
slice has read, in a draft or in the handoff is some session's own (`GapsJustified`). Again
transcripts only grow (`TranscriptsGrow`, `HistoryKept`), so it does not matter who wrote
last. `RecoveryInHand` is what `ResolvedGapStaysResolved` needs of a draft: an export of a
recovery has its verified outcome, so that it takes gaps from nobody but a memory of the
recovery.

`HandoffBacksItsPhase` is about an export that reads the checkpoint, then the transcript, then
the memory, while the session goes on. `HandoffInv` rests on two facts. Every event of a
session is unsafe after a marker, so a transcript that loads ends with the marker it is loaded
at, which is that of the checkpoint on disk *now* (`LoadedAtEnd`): an export whose checkpoint
was overtaken is refused, or its checkpoint was committed before. And a phase that once had
its hypothesis or recommendation keeps it: no later slice writes an event of that artifact
(`CommitsMoveOn`, `RecordFramed`), so what was read is still the session's verified output and
is preferred to whatever another session has put in the memory. `HandoffInv` was checked with
TLC on the `memory` instance before it was proved.

**Only model-checked.** Progress: `CommandsEnd`, `ApprovalSettles` and `FollowUpReachesStub`
are liveness under fairness, which the prover does not reach. That the five documented claims
of section 6 fail is what the runs show.

## 5. Mutants

Every property of a passing run has a mutant: an operator next to the one it
replaces, marked `Mutant:`, that is the code with a plausible bug (a decision saved and
not logged, a lost answer retried, a verdict that lets a skipped probe pass, a mode
write that builds a fresh checkpoint, ...). TLC finds the property violated with it.

## 6. Where documents and code disagree

1. `deny_race`: the smoke checklist (`docs/operator_shell_smoke_checklist.md:98`) says no
   rollback executes after a denial. Two operators can both pass the pending check; the
   denial is then on disk while the approval's rollback is sent.
2. `mode_race`: a `/mode` write that started before another operator's rollback request
   appends its marker after it. The request without a result is then part of the
   committed prefix instead of an unsafe tail (`docs/review/REVIEW_CHECKLIST.md:23`).
3. `stranded`: a crash between the approval's marker and the execution step leaves a
   trusted, approved session that no command carries on (`REVIEW_CHECKLIST.md:19`).
4. `lineage`: a verdict is paired with an output by tool, verifier and step index only. When
   a session id is started again and a slice defers, its passed verdict is paired with the
   output an earlier run produced at that step, and the phase-free readers
   (`latest_verified_*_output`: inspection, handoff, assistant views) show that output as
   verified (`REVIEW_CHECKLIST.md:25-26`). The slices themselves also ask the phase, which is
   why `ImplementsPipeline` holds all the same; its mutant drops that question.

5. `follow_up`: the follow-up's verifier means to answer "unverified" to a missing output but
   builds the answer from a class it does not import, and raises. The follow-up calls it
   without the harness, so the command ends with a verifier request on disk and no outcome
   (`REVIEW_CHECKLIST.md:8-9` ticks that failures caught by verifiers are explicit error
   events).

Met while modelling, without a run of their own:

* `docs/review/DECISIONS.md:14` calls visible tails "non-resumable"; `load` refuses unsafe
  tails only, and `/verify` resumes a session with a visible one. The rerun is harmless for
  the claims checked here: `SucceededIsBacked` holds across it.
* A handoff takes the gaps and the note of a working memory of the same phase without
  asking which session wrote it (`context/handoff.py:312`, `:440`), and an outcome
  verification keeps the gaps of any memory it finds. `GapsAreVerified` and
  `ResolvedGapStaysResolved` bound what this can lead to; that the note is the session's own
  is not promised and not so.
* An export that loads the checkpoint just before, and the transcript just after, a
  re-verification may show the newer attempt's outcome under the older phase: both
  checkpoints have one id. `HandoffBacksItsPhase` promises that outputs are never older than
  the phase, not that they are never newer.

* `README.md:191` says of manual mode "no shell-driven write execution". `/approve` does not
  ask for the mode (`runtime/shell.py:673`), and the approval executes the rollback: the mode
  binds only what the shell drives on its own. No approval action here has the mode in its
  guard, for that reason.

## 7. Plan

Done: the approval boundary, the slice chain, the decision chain and the incident memory,
modelled, checked and proved as above. Left, in this order:

1. `VerifiedRecord` against a reference definition: which event of a transcript of any
   length it takes for the result and for the verdict.
2. Which of the one-operator promises two operators keep when each issues only decisions that
   agree, and which they keep without any mode write.
3. Lemmas now repeated in two modules (an append leaves earlier events, the latest of a set)
   moved next to `SessionArtifacts`.

### Not modelled

* Views: `runtime/assistant_api.py`, `inspect.py`, the console's and the shell's listing,
  timeline and status functions. They read the files modelled here and change nothing; what
  they would be wrong about is wording and layout.
* `runtime/cli.py`, `runtime/console_server.py`: argument parsing and HTTP routing to the
  operations that are modelled.
* `evals/` and `runtime/eval_surface.py`: replay of the chain on fixtures in a temporary
  directory, compared with expectations.
* `runtime/settings.py`: configuration values; the gate's use of them is `enabled` and
  `allowlisted`.
* Session and project memory (`memory/session_memory.py`, `project_memory.py`) and
  `runtime/models.py` are records nothing in the modelled path changes.
