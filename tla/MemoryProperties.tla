--------------------------- MODULE MemoryProperties ---------------------------
(***************************************************************************)
(* What the files the sessions of an incident share may be trusted for.    *)
(***************************************************************************)
EXTENDS IncidentMemory

Owners == Sessions \cup {"none"}
GapNames == {"validation", "causal"}

Memories ==
    [source : Owners \cup {"torn"},
     phase : HYPOTHESIS_COMPATIBLE_PHASES \cup RECOMMENDATION_COMPATIBLE_PHASES
             \cup {"outcome_verification_succeeded", "none"},
     hypothesis : Owners, recommendation : Owners, gaps : SUBSET GapNames]

Handoffs ==
    [source : Owners \cup {"torn"}, phase : EarlyPhases \cup Phases \cup {"none"},
     approval : {"none", "pending", "approved", "denied"},
     hypothesis : Owners, recommendation : Owners, outcome : Owners,
     gaps : SUBSET GapNames, note : Owners]

\* The shared files and the drafts have the form their readers expect: a memory is of
\* a phase that is worth remembering, and a handoff of one there is
\* (IncidentWorkingMemory, IncidentHandoffArtifact).
MemoryTypeOK ==
    /\ \A s \in Sessions : checkpoint[s].phase \in EarlyPhases \cup Phases \cup {"none"}
    /\ memory \in Memories /\ handoff \in Handoffs
    /\ \A s \in Sessions : prior[s] \in Memories
    /\ \A x \in Exporters : draft[x] \in Handoffs

-----------------------------------------------------------------------------
Markers(s) == {i \in 1 .. Len(transcript[s]) : transcript[s][i].type = "checkpoint_written"}

\* A marker repeats the summary of the checkpoint, and so tells its phase.
HasCommitted(s, phase) == \E i \in Markers(s) : transcript[s][i].status = phase

\* The verdict that passed is before some marker of the session.
HasVerified(s, a) ==
    \E j \in 1 .. Len(transcript[s]) :
        /\ transcript[s][j].type = "verifier_result"
        /\ transcript[s][j].name = a.verifier /\ transcript[s][j].status = "pass"
        /\ \E i \in Markers(s) : j < i

\* The memory is never put together from two sessions' decisions, nor written ahead
\* of the transcript: its source has committed the phase it names and has verified
\* both the hypothesis and the recommendation it shows, however the sessions'
\* slices interleave and crash (_write_incident_working_memory of three steps).
MemorySpeaksForOneSession ==
    memory.source \in Sessions =>
        /\ HasCommitted(memory.source, memory.phase)
        /\ memory.hypothesis = memory.source
        /\ HasVerified(memory.source, Hypothesis)
        /\ memory.recommendation # "none" =>
              /\ memory.recommendation = memory.source
              /\ HasVerified(memory.source, Recommendation)

\* Once a session's rollback is verified, its need to be validated is not reported
\* open again: not by the memory of the recovery, and not by a handoff of that
\* session, whichever session wrote the memory last and whether or not the recovery
\* reached the memory at all (_resolved_unresolved_gaps, _unresolved_gaps).
ResolvedGapStaysResolved ==
    /\ memory.phase = "outcome_verification_succeeded" => "validation" \notin memory.gaps
    /\ handoff.phase = "outcome_verification_succeeded" => "validation" \notin handoff.gaps

\* Which outputs a phase says the session has verified.
PromisedBy(phase) ==
    (IF phase \in HYPOTHESIS_COMPATIBLE_PHASES \cup RECOMMENDATION_COMPATIBLE_PHASES
                  \cup Phases THEN {"hypothesis"} ELSE {})
    \cup (IF phase \in RECOMMENDATION_COMPATIBLE_PHASES \cup Phases
          THEN {"recommendation"} ELSE {})
    \cup (IF phase = "outcome_verification_succeeded" THEN {"outcome"} ELSE {})

\* A handoff stands on one committed checkpoint of the session it names: the phase
\* and the approval are of that checkpoint, and every output the phase promises is
\* that session's own and verified, although the files are read one after the other
\* while the session, other sessions and other exports go on (regenerate,
\* IncidentHandoffContextAssembler.assemble).
HandoffBacksItsPhase ==
    handoff.source \in Sessions =>
        /\ HasCommitted(handoff.source, handoff.phase)
        /\ handoff.approval = "approved" => HasCommitted(handoff.source, "action_stub_approved")
        /\ \A kind \in PromisedBy(handoff.phase) : handoff[kind] = handoff.source

\* Nobody invents an open question: a gap that is shown, in the memory or in a
\* handoff, is the gap of a hypothesis some session of the incident has verified
\* (evidence that supports nothing leaves the cause open, a supported regression
\* its validation; incident_hypothesis.py).
GapsAreVerified ==
    \A gap \in memory.gaps \cup handoff.gaps :
        \E s \in Sessions :
            /\ reading[s] = (IF gap = "causal" THEN "conservative" ELSE "supported")
            /\ HasVerified(s, Hypothesis)

=============================================================================
