----------------------------- MODULE ChainProofs -----------------------------
(***************************************************************************)
(* The chain from alert to proposal, for every choice of payloads,         *)
(* readings, faulty slices and bounds: what the files say is on record or  *)
(* is refused by the loader.                                               *)
(***************************************************************************)
EXTENDS ChainProperties, TLAPS

-----------------------------------------------------------------------------
(* The table of slices *)

LEMMA SliceTable ==
    /\ Last = 6 /\ 1 .. Last = {1, 2, 3, 4, 5, 6}
    /\ Slices[1] = TriageSlice /\ Slices[2] = FollowUpSlice
    /\ Slices[3] = EvidenceSlice /\ Slices[4] = HypothesisSlice
    /\ Slices[5] = RecommendationSlice /\ Slices[6] = ActionStubSlice
  BY DEF Last, Slices

LEMMA ToolNames ==
    /\ Tool(1) = "incident_payload_summary" /\ Tool(2) = "investigation_focus_selector"
    /\ Tool(3) = "evidence_bundle_reader" /\ Tool(4) = "incident_hypothesis_builder"
    /\ Tool(5) = "incident_recommendation_builder" /\ Tool(6) = "incident_action_stub_builder"
  BY SliceTable DEF Tool, TriageSlice, FollowUpSlice, EvidenceSlice, HypothesisSlice,
     RecommendationSlice, ActionStubSlice, Artifact, Triage, FollowUp, Evidence, Hypothesis,
     Recommendation, ActionStub

LEMMA VerifierNames ==
    /\ Verifier(1) = "incident_triage_output" /\ Verifier(2) = "incident_follow_up_outcome"
    /\ Verifier(3) = "incident_evidence_read_outcome"
    /\ Verifier(4) = "incident_hypothesis_outcome"
    /\ Verifier(5) = "incident_recommendation_outcome"
    /\ Verifier(6) = "incident_action_stub_outcome"
  BY SliceTable DEF Verifier, TriageSlice, FollowUpSlice, EvidenceSlice, HypothesisSlice,
     RecommendationSlice, ActionStubSlice, Artifact, Triage, FollowUp, Evidence, Hypothesis,
     Recommendation, ActionStub

LEMMA SliceIds ==
    /\ Slices[1].id = "incident-triage" /\ Slices[2].id = "follow-up"
    /\ Slices[3].id = "evidence-read" /\ Slices[4].id = "incident-hypothesis"
    /\ Slices[5].id = "incident-recommendation" /\ Slices[6].id = "incident-action-stub"
  BY SliceTable DEF TriageSlice, FollowUpSlice, EvidenceSlice, HypothesisSlice,
     RecommendationSlice, ActionStubSlice

LEMMA OwnTools == \A j \in 1 .. Last, k \in 1 .. Last : Tool(j) = Tool(k) => j = k
  BY SliceTable, ToolNames

LEMMA OwnVerifiers == \A j \in 1 .. Last, k \in 1 .. Last : Verifier(j) = Verifier(k) => j = k
  BY SliceTable, VerifierNames

LEMMA OwnIds ==
    /\ \A j \in 1 .. Last, k \in 1 .. Last : Slices[j].id = Slices[k].id => j = k
    /\ \A j \in 1 .. Last : Slices[j].id # "none"
  BY SliceTable, SliceIds

-----------------------------------------------------------------------------
(* What a transcript holds *)

ToolNameSet == {Tool(k) : k \in 1 .. Last}
OtherNames == ToolNameSet \cup {Verifier(k) : k \in 1 .. Last}
                 \cup {Slices[k].id : k \in 1 .. Last} \cup {"none"}

ResultEvents ==
    {e \in [type : {"tool_result"}, name : ToolNameSet, step : 0 .. Last,
            status : {"failed", "succeeded"}, stamp : {0}, output : ToolOutputValues] :
        e.status = "failed" <=> e.output \in NoOutput}

OtherEvents ==
    [type : EventTypes \ {"tool_result"}, name : OtherNames, step : 0 .. Last,
     status : {"none", "pass", "fail", "unverified"} \cup EarlyPhases \cup ACTION_STUB_PHASES,
     stamp : {0}]

ChainEvents == ResultEvents \cup OtherEvents

VariablesTyped ==
    /\ context \in ChainCheckpoints
    /\ memory \in [source : {"none", "torn", Slices[4].id, Slices[5].id},
                   phase : HYPOTHESIS_PHASES \cup RECOMMENDATION_PHASES \cup {"none"},
                   claim : Claims \cup {"none"}]
    /\ pc \in ChainLabels /\ at \in 0 .. Last
    /\ branch \in ChainBranches
    /\ input \in {"none", "gaps", "complete", "unsound", "target"} \cup Claims
    /\ output \in ToolOutputValues
    /\ verdict \in {"none", "pass", "fail", "unverified", "raised"}
    /\ faults \in 0 .. MaxFaults /\ starts \in 0 .. MaxStarts /\ crashes \in 0 .. MaxCrashes

TypedChain == VariablesTyped /\ transcript \in Seq(ChainEvents)

\* An append leaves the events before it where they are.
Log1(e, n) ==
    /\ Len(transcript) = n /\ Len(transcript') = n + 1
    /\ \A i \in 1 .. n : transcript'[i] = transcript[i]
    /\ transcript'[n + 1] = e

LEMMA Logged ==
    ASSUME transcript \in Seq(ChainEvents), NEW n \in Nat, n = Len(transcript),
           NEW e \in ChainEvents, Log(e)
    PROVE  Log1(e, n) /\ transcript' \in Seq(ChainEvents)
  BY DEF Log, Log1

\* The events up to n stay as they are, whether or not more follow.
Kept(n) ==
    /\ n <= Len(transcript) /\ n <= Len(transcript')
    /\ \A i \in 1 .. n : transcript'[i] = transcript[i]

LEMMA LoggedKept ==
    ASSUME NEW n \in Nat, NEW e, Log1(e, n)
    PROVE  \A m \in 0 .. n : Kept(m)
  BY DEF Log1, Kept

LEMMA SameKept ==
    ASSUME transcript \in Seq(ChainEvents), UNCHANGED transcript
    PROVE  \A m \in 0 .. Len(transcript) : Kept(m)
  BY DEF Kept

\* Everything the properties say of a prefix.
LEMMA KeptEvents ==
    ASSUME NEW n \in Nat, Kept(n), NEW k
    PROVE  /\ \A i \in 1 .. n : IsRequest(i, k)' <=> IsRequest(i, k)
           /\ \A i \in 1 .. n : IsPass(i, k)' <=> IsPass(i, k)
           /\ \A i \in 1 .. n : IsResult(i, k)' <=> IsResult(i, k)
           /\ \A i \in 1 .. n : \A claim : Returns(i, k, claim)' <=> Returns(i, k, claim)
  BY DEF Kept, IsRequest, IsPass, IsResult, Returns, Tool, Verifier

LEMMA KeptRun ==
    ASSUME NEW n \in Nat, Kept(n), NEW m \in 0 .. n
    PROVE  RunOf(m)' = RunOf(m) /\ RunOf(m) \subseteq 1 .. m
  <1>1. \A i \in 1 .. m : IsRequest(i, 1)' <=> IsRequest(i, 1)
    BY KeptEvents
  <1> QED
    BY <1>1 DEF RunOf, LatestOf

LEMMA KeptEstablished ==
    ASSUME NEW n \in Nat, Kept(n), NEW k, NEW m \in 0 .. n, NEW begin \in 1 .. n
    PROVE  /\ Established(k, begin, m)' <=> Established(k, begin, m)
           /\ Leads(k, begin, m)' <=> Leads(k, begin, m)
  <1>1. \A j : \A l \in 0 .. m : Established(j, begin, l)' <=> Established(j, begin, l)
    <2>1. \A j : /\ \A i \in 1 .. n : IsPass(i, j)' <=> IsPass(i, j)
                 /\ \A i \in 1 .. n : Returns(i, j, "supported")' <=> Returns(i, j, "supported")
      BY KeptEvents
    <2> QED
      BY <2>1 DEF Established
  <1>2. Leads(k, begin, m)' <=> Leads(k, begin, m)
    <2>1. \A j : \A i \in 1 .. n : Returns(i, j, "supported")' <=> Returns(i, j, "supported")
      BY KeptEvents
    <2>2. \A j \in 4 .. k : \A r \in begin .. m :
              r \in 1 .. n /\ (Established(j - 1, begin, r)' <=> Established(j - 1, begin, r))
      BY <1>1
    <2> QED
      BY <2>1, <2>2 DEF Leads
  <1> QED
    BY <1>1, <1>2

LEMMA KeptGrounded ==
    ASSUME NEW n \in Nat, Kept(n), NEW k, NEW m \in 0 .. n
    PROVE  Grounded(k, m)' <=> Grounded(k, m)
  <1>1. \A begin \in RunOf(m) : /\ begin \in 1 .. n
                                /\ Established(k, begin, m)' <=> Established(k, begin, m)
                                /\ Leads(k, begin, m)' <=> Leads(k, begin, m)
    BY KeptRun, KeptEstablished
  <1> QED
    BY <1>1, KeptRun DEF Grounded

LEMMA KeptProduced ==
    ASSUME NEW n \in Nat, Kept(n), NEW k, NEW claim, NEW m \in 1 .. n, Produced(m, k, claim)
    PROVE  Produced(m, k, claim)'
  <1>1. m - 4 \in 1 .. n /\ m - 3 \in 1 .. n /\ m - 2 \in 1 .. n /\ m - 1 \in 1 .. n
    BY DEF Produced, Asked, Positions, Kept
  <1> QED
    BY <1>1 DEF Produced, Asked, Answered, AskedVerifier, Judged, Positions, Kept,
       IsRequest, Returns, Tool, Verifier

LEMMA KeptStub ==
    ASSUME NEW n \in Nat, Kept(n), NEW m \in 1 .. n
    PROVE  StubSound(m)' <=> StubSound(m)
  <1>1. RunOf(m)' = RunOf(m) /\ RunOf(m) \subseteq 1 .. m
    BY KeptRun
  <1>2. \A begin \in RunOf(m) : \A i \in begin .. m : i \in 1 .. n
    BY <1>1
  <1>3. \A begin \in RunOf(m) : \A i \in begin .. m : \A r \in begin .. i : r \in 1 .. n
    BY <1>1
  <1>4. \A r \in 1 .. n : \A claim : Returns(r, Last - 1, claim)' <=> Returns(r, Last - 1, claim)
    BY KeptEvents
  <1>5. \A i \in 1 .. n : transcript'[i] = transcript[i]
    BY DEF Kept
  <1> QED
    BY <1>1, <1>2, <1>3, <1>4, <1>5 DEF StubSound, Tool, Verifier

LEMMA KeptSpeech ==
    ASSUME NEW n \in Nat, Kept(n), NEW m \in 1 .. n, SpeaksFor(m), UNCHANGED checkpoint
    PROVE  SpeaksFor(m)'
  <1>1. Marks(m, checkpoint)'
    BY DEF SpeaksFor, Marks, Positions, Kept
  <1>2. ASSUME NEW k \in 2 .. Last, checkpoint.phase \in ClaimPhases(k)
        PROVE  \E claim \in ConsumableClaims(k) :
             /\ Produced(m, k, claim)' /\ checkpoint.phase = Slices[k].phases[claim]
             /\ claim = "supported" => Grounded(k, m)'
    BY <1>2, KeptProduced, KeptGrounded DEF SpeaksFor
  <1>3. checkpoint.step = Last /\ StubSound(m)' => StubStarts
    BY KeptStub DEF SpeaksFor
  <1> QED
    BY <1>1, <1>2, <1>3 DEF SpeaksFor, StubStarts, ClaimPhases, ConsumableClaims

-----------------------------------------------------------------------------
(* What a step does to the files *)

LEMMA CommittedPositions ==
    ASSUME transcript \in Seq(ChainEvents)
    PROVE  \A m \in Committed : m \in 1 .. Len(transcript) /\ m \in Nat
  BY DEF Committed, CommitPoint, LatestOf

LEMMA KeptMemory ==
    ASSUME transcript \in Seq(ChainEvents), transcript' \in Seq(ChainEvents), MemoryIsBacked,
           UNCHANGED memory, NEW n \in Nat, n = Len(transcript), Kept(n)
    PROVE  MemoryIsBacked'
  <1> SUFFICES ASSUME memory \notin {NoMemory, TornMemory} PROVE MemoryIsBacked'
    BY DEF MemoryIsBacked
  <1>1. PICK k \in {4, 5}, m \in Positions :
            /\ transcript[m].type = "checkpoint_written"
            /\ transcript[m].name = memory.source /\ memory.source = Slices[k].id
            /\ transcript[m].status = memory.phase
            /\ \E p \in 1 .. m :
                  /\ IsPass(p, k)
                  /\ \E r \in 1 .. p :
                        /\ Returns(r, k, memory.claim)
                        /\ \A i \in r .. m - 1 : transcript[i].type # "checkpoint_written"
    BY DEF MemoryIsBacked
  <1>0. m \in 1 .. n
    BY DEF Positions
  <1>p. PICK p \in 1 .. m :
            /\ IsPass(p, k)
            /\ \E r \in 1 .. p :
                  /\ Returns(r, k, memory.claim)
                  /\ \A i \in r .. m - 1 : transcript[i].type # "checkpoint_written"
    BY <1>1
  <1>2. PICK r \in 1 .. p :
            /\ IsPass(p, k) /\ Returns(r, k, memory.claim)
            /\ \A i \in r .. m - 1 : transcript[i].type # "checkpoint_written"
    BY <1>p
  <1>3. /\ \A i \in 1 .. n : transcript'[i] = transcript[i]
        /\ m \in 1 .. Len(transcript') /\ p \in 1 .. n /\ r \in 1 .. n
    BY <1>0 DEF Kept
  <1>4. IsPass(p, k)' /\ Returns(r, k, memory.claim)'
    BY <1>2, <1>3, KeptEvents
  <1>5. \A i \in r .. m - 1 : transcript'[i].type # "checkpoint_written"
    <2>1. \A i \in r .. m - 1 : i \in 1 .. n
      BY <1>0
    <2> QED
      BY <1>2, <1>3, <2>1
  <1>6. /\ transcript'[m].type = "checkpoint_written"
        /\ transcript'[m].name = memory'.source /\ memory'.source = Slices[k].id
        /\ transcript'[m].status = memory'.phase
    BY <1>0, <1>1, <1>3
  <1> QED
    BY <1>2, <1>3, <1>4, <1>5, <1>6 DEF MemoryIsBacked, Positions

LEMMA SameRecord ==
    ASSUME TypedChain, FilesSound, UNCHANGED <<checkpoint, transcript>>, MemoryIsBacked'
    PROVE  FilesSound'
  <1>1. PICK n \in Nat : n = Len(transcript)
    BY DEF TypedChain
  <1>2. Kept(n)
    BY <1>1, SameKept DEF TypedChain
  <1>4. \A m \in Committed : m \in 1 .. n /\ (SpeaksFor(m) => SpeaksFor(m)')
    BY <1>1, <1>2, CommittedPositions, KeptSpeech DEF TypedChain
  <1>5. Committed' = Committed
    BY DEF Committed
  <1>6. \A i \in Positions : IsResult(i, 3)' <=> IsResult(i, 3)
    BY DEF IsResult, Tool
  <1> QED
    BY <1>4, <1>5, <1>6 DEF FilesSound, Fits, Positions, End

LEMMA SameFiles ==
    ASSUME TypedChain, FilesSound, UNCHANGED files
    PROVE  FilesSound'
  <1>1. PICK n \in Nat : n = Len(transcript)
    BY DEF TypedChain
  <1>2. Kept(n)
    BY <1>1, SameKept DEF TypedChain, files
  <1>3. MemoryIsBacked'
    BY <1>1, <1>2, KeptMemory DEF TypedChain, FilesSound, files
  <1> QED
    BY <1>3, SameRecord DEF files

LEMMA LoggedFiles ==
    ASSUME TypedChain, FilesSound, NEW n \in Nat, n = Len(transcript),
           NEW e \in ChainEvents, Log(e), UNCHANGED <<checkpoint, memory>>,
           e.type # "checkpoint_written",
           e.type = "tool_result" /\ e.name = Tool(3) =>
               checkpoint.phase # "evidence_reading_completed"
    PROVE  FilesSound'
  <1>1. Log1(e, n) /\ transcript' \in Seq(ChainEvents)
    BY Logged DEF TypedChain
  <1>2. Kept(n)
    BY <1>1, LoggedKept
  <1>3. MemoryIsBacked'
    BY <1>1, <1>2, KeptMemory DEF TypedChain, FilesSound
  <1>4. Committed' = Committed
    BY <1>1 DEF Committed, CommitPoint, LatestOf, Log1
  <1>5. \A m \in Committed : m \in 1 .. n /\ (SpeaksFor(m) => SpeaksFor(m)')
    BY <1>2, CommittedPositions, KeptSpeech DEF TypedChain
  <1>6. \A m \in Committed :
            (\E i \in m + 1 .. n : UnsafeEvent(transcript[i])) =>
            (\E i \in m + 1 .. n + 1 : UnsafeEvent(transcript'[i]))
    BY <1>1, CommittedPositions DEF Log1, TypedChain
  <1>7. ASSUME checkpoint.phase = "evidence_reading_completed"
        PROVE  \E i \in LatestOf({j \in Positions' : IsResult(j, 3)'}) :
                  transcript'[i].output \in Claims
    <2>1. \A i \in 1 .. n : IsResult(i, 3)' <=> IsResult(i, 3)
      BY <1>2, KeptEvents
    <2>2. ~IsResult(n + 1, 3)'
      BY <1>1, <1>7 DEF IsResult, Log1, Tool
    <2>3. Positions' = (1 .. n) \cup {n + 1} /\ Positions = 1 .. n
      BY <1>1 DEF Positions, Log1
    <2>4. {j \in Positions' : IsResult(j, 3)'} = {j \in Positions : IsResult(j, 3)}
      BY <2>1, <2>2, <2>3
    <2>5. PICK i \in LatestOf({j \in Positions : IsResult(j, 3)}) : transcript[i].output \in Claims
      BY <1>7 DEF FilesSound
    <2>6. transcript'[i] = transcript[i]
      BY <1>1, <2>3, <2>5 DEF LatestOf, Log1
    <2> QED
      BY <2>4, <2>5, <2>6
  <1>8. End = n /\ End' = n + 1
    BY <1>1 DEF End, Log1
  <1> QED
    BY <1>3, <1>4, <1>5, <1>6, <1>7, <1>8 DEF FilesSound, Fits

\* A marker of the checkpoint on disk is the one it is taken for from then on.
LEMMA MarkedFiles ==
    ASSUME TypedChain, FilesSound, NEW n \in Nat, n = Len(transcript), NEW step,
           Log(Marker(checkpoint, step)), Marker(checkpoint, step) \in ChainEvents,
           UNCHANGED <<checkpoint, memory>>, SpeaksFor(n + 1)'
    PROVE  FilesSound'
  <1> DEFINE e == Marker(checkpoint, step)
  <1>1. Log1(e, n) /\ transcript' \in Seq(ChainEvents)
    BY Logged DEF TypedChain
  <1>2. Kept(n)
    BY <1>1, LoggedKept
  <1>3. MemoryIsBacked'
    BY <1>1, <1>2, KeptMemory DEF TypedChain, FilesSound
  <1>4. Committed' = {n + 1}
    <2>1. /\ transcript'[n + 1].type = "checkpoint_written"
          /\ transcript'[n + 1].name = checkpoint'.id.name
          /\ transcript'[n + 1].stamp = checkpoint'.id.stamp
      BY <1>1 DEF Log1, Marker
    <2>2. Len(transcript') = n + 1
      BY <1>1 DEF Log1
    <2> QED
      BY <2>1, <2>2 DEF Committed, CommitPoint, LatestOf
  <1>7. ASSUME checkpoint.phase = "evidence_reading_completed"
        PROVE  \E i \in LatestOf({j \in Positions' : IsResult(j, 3)'}) :
                  transcript'[i].output \in Claims
    <2>1. \A i \in 1 .. n : IsResult(i, 3)' <=> IsResult(i, 3)
      BY <1>2, KeptEvents
    <2>2. ~IsResult(n + 1, 3)'
      BY <1>1 DEF IsResult, Log1, Marker
    <2>3. Positions' = (1 .. n) \cup {n + 1} /\ Positions = 1 .. n
      BY <1>1 DEF Positions, Log1
    <2>4. {j \in Positions' : IsResult(j, 3)'} = {j \in Positions : IsResult(j, 3)}
      BY <2>1, <2>2, <2>3
    <2>5. PICK i \in LatestOf({j \in Positions : IsResult(j, 3)}) : transcript[i].output \in Claims
      BY <1>7 DEF FilesSound
    <2>6. transcript'[i] = transcript[i]
      BY <1>1, <2>3, <2>5 DEF LatestOf, Log1
    <2> QED
      BY <2>4, <2>5, <2>6
  <1> QED
    BY <1>3, <1>4, <1>7 DEF FilesSound, Fits

\* A new checkpoint is refused until its marker comes: a verdict ends the transcript.
LEMMA SavedFiles ==
    ASSUME TypedChain, FilesSound, UNCHANGED <<transcript, memory>>, Fits(checkpoint'),
           End \in Positions, transcript[End].type = "verifier_result",
           checkpoint'.phase = "evidence_reading_completed" =>
               \E i \in LatestOf({j \in Positions : IsResult(j, 3)}) :
                  transcript[i].output \in Claims
    PROVE  FilesSound'
  <1>1. PICK n \in Nat : n = Len(transcript)
    BY DEF TypedChain
  <1>2. Kept(n)
    BY <1>1, SameKept DEF TypedChain
  <1>3. MemoryIsBacked'
    BY <1>1, <1>2, KeptMemory DEF TypedChain, FilesSound
  <1>4. \A m \in Committed' : m \in 1 .. n /\ transcript[m].type = "checkpoint_written"
    BY <1>1 DEF Committed, CommitPoint, LatestOf
  <1>5. \A m \in Committed' : n \in m + 1 .. n /\ UnsafeEvent(transcript[n])
    BY <1>1, <1>4 DEF UnsafeEvent, End
  <1>6. \A i \in Positions : IsResult(i, 3)' <=> IsResult(i, 3)
    BY DEF IsResult, Tool
  <1>7. Fits(checkpoint)'
    BY DEF Fits
  <1> QED
    BY <1>1, <1>3, <1>5, <1>6, <1>7 DEF FilesSound, Positions, End

-----------------------------------------------------------------------------
(* What a step does to the run *)

TriageRequest(e) == e.type = "tool_request" /\ e.name = Tool(1)

LEMMA RunGoesOn ==
    ASSUME NEW n \in Nat, NEW e, Log1(e, n), ~TriageRequest(e)
    PROVE  /\ RunOf(n + 1)' = RunOf(n)
           /\ RunOf(n) \subseteq 1 .. n
           /\ End = n /\ End' = n + 1 /\ Positions = 1 .. n /\ Positions' = (1 .. n) \cup {n + 1}
           /\ \A i \in 1 .. n : InThisRun(i)' <=> InThisRun(i)
  <1>1. Kept(n)
    BY LoggedKept
  <1>2. \A i \in 1 .. n : IsRequest(i, 1)' <=> IsRequest(i, 1)
    BY <1>1, KeptEvents
  <1>3. ~IsRequest(n + 1, 1)'
    BY DEF IsRequest, Log1, TriageRequest, Tool
  <1>4. 1 .. (n + 1) = (1 .. n) \cup {n + 1}
    OBVIOUS
  <1>5. {i \in 1 .. (n + 1) : IsRequest(i, 1)'} = {i \in 1 .. n : IsRequest(i, 1)}
    BY <1>2, <1>3, <1>4
  <1>6. RunOf(n + 1)' = RunOf(n) /\ RunOf(n) \subseteq 1 .. n
    BY <1>5 DEF RunOf, LatestOf
  <1>7. End = n /\ End' = n + 1 /\ Positions = 1 .. n /\ Positions' = (1 .. n) \cup {n + 1}
    BY <1>4 DEF End, Positions, Log1
  <1>8. ASSUME NEW i \in 1 .. n PROVE InThisRun(i)' <=> InThisRun(i)
    <2>1. \A q \in i + 1 .. n + 1 : q \in i + 1 .. n \/ q = n + 1
      OBVIOUS
    <2>2. \A q \in i + 1 .. n : q \in 1 .. n /\ q \in i + 1 .. n + 1
      OBVIOUS
    <2> QED
      BY <1>2, <1>3, <1>7, <2>1, <2>2 DEF InThisRun
  <1> QED
    BY <1>6, <1>7, <1>8

\* What is established stays so while the transcript grows.
LEMMA StaysEstablished ==
    ASSUME NEW n \in Nat, NEW e, Log1(e, n), NEW begin \in 1 .. n, NEW k
    PROVE  /\ Established(k, begin, n) => Established(k, begin, n + 1)'
           /\ Leads(k, begin, n) => Leads(k, begin, n + 1)'
  <1>1. Kept(n)
    BY LoggedKept
  <1>2. ASSUME Established(k, begin, n) PROVE Established(k, begin, n + 1)'
    <2>1. Established(k, begin, n)'
      BY <1>1, <1>2, KeptEstablished
    <2>2. \A r \in begin .. n : r \in begin .. n + 1 /\ \A p \in r .. n : p \in r .. n + 1
      OBVIOUS
    <2> QED
      BY <2>1, <2>2 DEF Established
  <1>3. ASSUME Leads(k, begin, n) PROVE Leads(k, begin, n + 1)'
    <2>1. Leads(k, begin, n)'
      BY <1>1, <1>3, KeptEstablished
    <2>2. \A r \in begin .. n : r \in begin .. n + 1
      OBVIOUS
    <2> QED
      BY <2>1, <2>2 DEF Leads
  <1> QED
    BY <1>2, <1>3

LEMMA StaysGrounded ==
    ASSUME NEW n \in Nat, NEW e, Log1(e, n), ~TriageRequest(e), NEW k
    PROVE  /\ Grounded(k, n) => Grounded(k, n + 1)'
           /\ (\E begin \in RunOf(n) : Leads(k, begin, n)) =>
                 (\E begin \in RunOf(n + 1)' : Leads(k, begin, n + 1)')
  BY RunGoesOn, StaysEstablished DEF Grounded

\* A result that repeats a grounded claim leads on ...
LEMMA ResultLeads ==
    ASSUME NEW n \in Nat, NEW e, Log1(e, n), NEW k \in 4 .. Last, Grounded(k - 1, n),
           e.type = "tool_result", e.name = Tool(k), e.output = "supported"
    PROVE  \E begin \in RunOf(n + 1)' : Leads(k, begin, n + 1)'
  <1>0. ~TriageRequest(e) /\ k \in Nat
    BY SliceTable DEF TriageRequest
  <1>1. PICK begin \in RunOf(n) : Leads(k - 1, begin, n) /\ Established(k - 1, begin, n)
    BY DEF Grounded
  <1>2. begin \in 1 .. n /\ begin \in RunOf(n + 1)'
    BY <1>0, <1>1, RunGoesOn
  <1>3. Leads(k - 1, begin, n + 1)' /\ Established(k - 1, begin, n + 1)'
    BY <1>1, <1>2, StaysEstablished
  <1>4. Returns(n + 1, k, "supported")' /\ n + 1 \in begin .. n + 1
    BY <1>2 DEF Returns, Log1, Tool
  <1>5. \A j \in 4 .. k : j \in 4 .. k - 1 \/ j = k
    BY <1>0
  <1> QED
    BY <1>2, <1>3, <1>4, <1>5 DEF Leads

\* ... and the marker after its verdict makes it grounded.
LEMMA MarkerGrounds ==
    ASSUME NEW n \in Nat, NEW e, Log1(e, n), ~TriageRequest(e), NEW k \in 3 .. Last,
           NEW begin \in RunOf(n), Leads(k, begin, n),
           n - 3 \in 1 .. n, IsRequest(n - 3, k),
           Returns(n - 2, k, "supported"), transcript[n - 1].type = "verifier_request",
           IsPass(n, k)
    PROVE  Grounded(k, n + 1)'
  <1>1. begin \in 1 .. n /\ begin \in RunOf(n + 1)'
    BY RunGoesOn
  <1>2. begin \in 1 .. n - 2
    <2>1. IsRequest(begin, 1)
      BY DEF RunOf, LatestOf
    <2>2. ~IsRequest(n - 1, 1) /\ ~IsRequest(n, 1)
      BY DEF IsRequest, IsPass
    <2> QED
      BY <1>1, <2>1, <2>2
  <1>3. Established(k, begin, n)
    <2>1. n - 2 \in begin .. n /\ n \in n - 2 .. n
      BY <1>2
    <2> QED
      BY <2>1 DEF Established
  <1> QED
    BY <1>1, <1>3, StaysEstablished DEF Grounded

-----------------------------------------------------------------------------
(* What a slice logs, returns and decides *)

LEMMA FitsTyped == \A chk : Fits(chk) => chk \in ChainCheckpoints
  <1> SUFFICES ASSUME NEW chk, Fits(chk) PROVE chk \in ChainCheckpoints
    OBVIOUS
  <1>1. CASE chk = NoCheckpoint
    BY <1>1, SliceTable DEF NoCheckpoint, ChainCheckpoints
  <1>2. ASSUME NEW k \in 1 .. Last, NEW approval \in {"none", "pending"},
               NEW outcome \in DOMAIN Slices[k].phases,
               chk = [id |-> [name |-> Slices[k].id, stamp |-> 0],
                      phase |-> Slices[k].phases[outcome], step |-> k, approval |-> approval]
        PROVE  chk \in ChainCheckpoints
    <2>1. Slices[k].phases[outcome] \in EarlyPhases \cup ACTION_STUB_PHASES
      BY <1>2, SliceTable DEF TriageSlice, FollowUpSlice, EvidenceSlice, HypothesisSlice,
         RecommendationSlice, ActionStubSlice, EarlyPhases, TRIAGE_PHASES, FOLLOW_UP_PHASES,
         EVIDENCE_READING_PHASES, HYPOTHESIS_PHASES, RECOMMENDATION_PHASES, ACTION_STUB_PHASES
    <2> QED
      BY <1>2, <2>1, SliceTable DEF ChainCheckpoints
  <1> QED
    BY <1>1, <1>2 DEF Fits

LEMMA SliceEvents ==
    ASSUME ContextFits
    PROVE  /\ NextStep = at /\ at \in 1 .. 6
           /\ Event("tool_request", Tool(at), NextStep, "none") \in ChainEvents
           /\ Event("verifier_request", Verifier(at), NextStep, "none") \in ChainEvents
           /\ \A v \in {"pass", "fail", "unverified"} :
                 Event("verifier_result", Verifier(at), NextStep, v) \in ChainEvents
           /\ \A result \in ToolOutputValues : ToolResult(result) \in ChainEvents
           /\ TornLine \in ChainEvents
  <1>1. NextStep = at /\ at \in 1 .. 6 /\ at \in 1 .. Last /\ NextStep \in 0 .. Last
    BY SliceTable DEF ContextFits, NextStep
  <1>2. Tool(at) \in ToolNameSet /\ Tool(at) \in OtherNames /\ Verifier(at) \in OtherNames
        /\ "none" \in OtherNames
    BY <1>1 DEF ToolNameSet, OtherNames
  <1>3. \A result \in ToolOutputValues : ToolResult(result) \in ResultEvents
    BY <1>1, <1>2 DEF ToolResult, ResultEvents
  <1>4. ASSUME NEW type \in EventTypes \ {"tool_result"}, NEW name \in OtherNames,
               NEW step \in 0 .. Last, NEW status \in {"none", "pass", "fail", "unverified"}
        PROVE  Event(type, name, step, status) \in OtherEvents
    BY <1>4 DEF Event, OtherEvents
  <1>5. TornLine \in OtherEvents
    BY <1>2, <1>4, SliceTable DEF TornLine, EventTypes
  <1> QED
    BY <1>1, <1>2, <1>3, <1>4, <1>5 DEF ChainEvents, EventTypes

LEMMA OutputTyped == \A k : OutputsOf(k) \subseteq ToolOutputValues
  BY DEF OutputsOf, ToolOutputValues, NoOutput, Claims

\* What a tool may return.
LEMMA ToolReturns ==
    ASSUME ContextFits, branch = "act",
           NEW result \in ToolOutputs \ (IF at = 2 THEN {"raised"} ELSE {})
    PROVE  result \in OutputsOf(at)
  <1>1. at \in {1, 2, 3, 4, 5, 6}
    BY SliceTable DEF ContextFits
  <1>2. at > 3 => input \in Claims
    BY DEF ContextFits
  <1>3. CASE at = 1
    BY <1>3, PayloadsAssumption
    DEF ToolOutputs, SoundOutputs, WrongOutputs, OutputsOf, Claims
  <1>4. CASE at = 2
    BY <1>4 DEF ToolOutputs, SoundOutputs, WrongOutputs, OutputsOf, Claims
  <1>5. CASE at = 3
    BY <1>5, ReadingsAssumption
    DEF ToolOutputs, SoundOutputs, WrongOutputs, OutputsOf, Claims
  <1>6. CASE at \in {4, 5, 6}
    BY <1>2, <1>6 DEF ToolOutputs, SoundOutputs, WrongOutputs, OutputsOf, Claims
  <1> QED
    BY <1>1, <1>3, <1>4, <1>5, <1>6

\* What a verifier may say of it.
LEMMA VerifierSays ==
    ASSUME ContextFits, OutputFits, pc = "record_verdict",
           NEW v \in Verdicts \ (IF at = 2 THEN {"raised"} ELSE {})
    PROVE  /\ v \in {"pass", "fail", "unverified", "raised"}
           /\ v = "pass" /\ branch = "act" =>
                 output \notin NoOutput \cup {"unsound"} /\ (at > 3 => output = input)
           /\ v = "fail" =>
                 branch = "act" /\ output \notin NoOutput
                 /\ (output = "unsound" \/ (at > 3 /\ output # input))
           /\ v = "unverified" => branch = "act" /\ output \in NoOutput /\ at # 2
           /\ v = "raised" => at # 2
  <1>1. v = "raised" \/ v = Verdict
    BY DEF Verdicts
  <1>2. CASE v = "raised"
    BY <1>2
  <1>3. CASE v = Verdict /\ branch # "act"
    <2>1. Verdict = "pass"
      BY <1>3 DEF Verdict, DeferralVerdict, ContextFits
    <2> QED
      BY <1>3, <2>1
  <1>4. CASE v = Verdict /\ branch = "act"
    <2>1. Verdict = VerdictOnAct
      BY <1>4 DEF Verdict
    <2>2. CASE output \in NoOutput
      BY <1>4, <2>1, <2>2 DEF VerdictOnAct
    <2>3. CASE output \notin NoOutput
      BY <1>4, <2>1, <2>3 DEF VerdictOnAct, OutputVerdict
    <2> QED
      BY <2>2, <2>3
  <1> QED
    BY <1>1, <1>2, <1>3, <1>4

\* An outcome that claims something was passed ...
LEMMA OutcomeClaims ==
    ASSUME ContextFits, OutputFits, VerdictFits, Deciding
    PROVE  /\ Outcome \in DOMAIN This.phases
           /\ Outcome \in {"supported", "conservative", "target"} =>
                 branch = "act" /\ verdict = "pass" /\ output = Outcome
  <1>1. at \in {1, 2, 3, 4, 5, 6}
    BY SliceTable DEF ContextFits
  <1>2. /\ verdict \in {"pass", "fail", "unverified", "raised"}
        /\ branch \in {"act", "no_op", "insufficient_state"}
        /\ branch = "act" => output \in OutputsOf(at)
    BY DEF VerdictFits, ContextFits, OutputFits, Deciding, BeforeTool
  <1>3. CASE ArtifactFailure
    <2>1. Outcome = "failed_artifacts" /\ at \in {3, 4, 5, 6}
      BY <1>1, <1>3 DEF Outcome, ArtifactFailure
    <2> QED
      BY <2>1, SliceTable DEF This, EvidenceSlice, HypothesisSlice, RecommendationSlice,
         ActionStubSlice
  <1>4. CASE ~ArtifactFailure /\ verdict \in {"unverified", "raised"}
    <2>1. Outcome = "unverified"
      BY <1>4 DEF Outcome
    <2> QED
      BY <1>1, <2>1, SliceTable DEF This, TriageSlice, FollowUpSlice, EvidenceSlice,
         HypothesisSlice, RecommendationSlice, ActionStubSlice
  <1>5. CASE ~ArtifactFailure /\ verdict = "fail"
    <2>1. Outcome = "failed_verification"
      BY <1>5 DEF Outcome
    <2> QED
      BY <1>1, <2>1, SliceTable DEF This, TriageSlice, FollowUpSlice, EvidenceSlice,
         HypothesisSlice, RecommendationSlice, ActionStubSlice
  <1>6. CASE ~ArtifactFailure /\ verdict = "pass" /\ branch = "act"
    <2>1. Outcome = output
      BY <1>6 DEF Outcome
    <2>2. output \notin NoOutput \cup {"unsound"}
      BY <1>6 DEF VerdictFits, Deciding
    <2>3. CASE at = 1
      BY <1>2, <1>6, <2>1, <2>2, <2>3, SliceTable DEF OutputsOf, NoOutput, This, TriageSlice
    <2>4. CASE at = 2
      BY <1>2, <1>6, <2>1, <2>2, <2>4, SliceTable DEF OutputsOf, NoOutput, This, FollowUpSlice
    <2>5. CASE at \in {3, 4, 5, 6}
      <3>1. output \in {"supported", "conservative"}
        BY <1>2, <1>6, <2>2, <2>5 DEF OutputsOf, NoOutput, Claims
      <3> QED
        BY <1>6, <2>1, <2>5, <3>1, SliceTable DEF This, EvidenceSlice, HypothesisSlice,
           RecommendationSlice, ActionStubSlice
    <2> QED
      BY <1>1, <2>3, <2>4, <2>5
  <1>7. CASE ~ArtifactFailure /\ verdict = "pass" /\ branch # "act"
    <2>1. Outcome = IF context.phase = "follow_up_complete_no_action"
                    THEN "not_applicable" ELSE "deferred"
      BY <1>7 DEF Outcome
    <2>2. at \in {2, 3, 4, 5, 6}
      BY <1>1, <1>2, <1>7 DEF ContextFits
    <2>3. ASSUME context.phase = "follow_up_complete_no_action" PROVE at = 3
      <3>1. PICK k \in 1 .. Last, outcome \in UNION {DOMAIN Slices[j].phases : j \in 1 .. Last} :
                /\ outcome \in DOMAIN Slices[k].phases
                /\ context.phase = Slices[k].phases[outcome] /\ context.step = k
        BY <2>3 DEF ContextFits, Fits, NoCheckpoint
      <3>2. k = 2
        BY <2>3, <3>1, SliceTable DEF TriageSlice, FollowUpSlice, EvidenceSlice, HypothesisSlice,
           RecommendationSlice, ActionStubSlice
      <3> QED
        BY <1>1, <3>1, <3>2 DEF ContextFits
    <2> QED
      BY <2>1, <2>2, <2>3, SliceTable DEF This, FollowUpSlice, EvidenceSlice,
         HypothesisSlice, RecommendationSlice, ActionStubSlice
  <1> QED
    BY <1>2, <1>3, <1>4, <1>5, <1>6, <1>7

\* ... and a phase that lets the next slice act comes of no other outcome.
LEMMA PhaseClaims ==
    ASSUME NEW k \in 1 .. Last, NEW outcome \in DOMAIN Slices[k].phases, NEW j \in 2 .. Last,
           Slices[k].phases[outcome] \in ClaimPhases(j)
    PROVE  j = k /\ outcome \in ConsumableClaims(k)
  <1>1. /\ ClaimPhases(2) = {"follow_up_investigation_selected"}
        /\ ClaimPhases(3) = {"evidence_reading_completed"}
        /\ ClaimPhases(4) = {"hypothesis_supported", "hypothesis_insufficient_evidence"}
        /\ ClaimPhases(5) = {"recommendation_supported", "recommendation_conservative"}
        /\ ClaimPhases(6) = {"action_stub_pending_approval", "action_stub_not_actionable"}
    BY SliceTable DEF ClaimPhases, ConsumableClaims, Claims, FollowUpSlice, EvidenceSlice,
       HypothesisSlice, RecommendationSlice, ActionStubSlice
  <1>2. j \in {2, 3, 4, 5, 6} /\ k \in {1, 2, 3, 4, 5, 6}
    BY SliceTable
  <1>3. CASE k = 1
    BY <1>1, <1>2, <1>3, SliceTable DEF TriageSlice
  <1>4. CASE k = 2
    BY <1>1, <1>2, <1>4, SliceTable DEF FollowUpSlice, ConsumableClaims
  <1>5. CASE k = 3
    BY <1>1, <1>2, <1>5, SliceTable DEF EvidenceSlice, ConsumableClaims, Claims
  <1>6. CASE k = 4
    BY <1>1, <1>2, <1>6, SliceTable DEF HypothesisSlice, ConsumableClaims, Claims
  <1>7. CASE k = 5
    BY <1>1, <1>2, <1>7, SliceTable DEF RecommendationSlice, ConsumableClaims, Claims
  <1>8. CASE k = 6
    BY <1>1, <1>2, <1>8, SliceTable DEF ActionStubSlice, ConsumableClaims, Claims
  <1> QED
    BY <1>2, <1>3, <1>4, <1>5, <1>6, <1>7, <1>8

LEMMA OutcomeFits ==
    ASSUME ContextFits, OutputFits, VerdictFits, Deciding
    PROVE  /\ Fits(SliceCheckpoint)
           /\ \A j \in 2 .. Last : SliceCheckpoint.phase \in ClaimPhases(j) =>
                 /\ j = at /\ branch = "act" /\ verdict = "pass"
                 /\ output \in ConsumableClaims(at)
                 /\ SliceCheckpoint.phase = Slices[at].phases[output]
  <1>1. at \in 1 .. Last /\ Outcome \in DOMAIN Slices[at].phases
    BY OutcomeClaims DEF ContextFits, This
  <1>2. SliceCheckpoint = [id |-> [name |-> Slices[at].id, stamp |-> 0],
                           phase |-> Slices[at].phases[Outcome], step |-> at,
                           approval |-> ApprovalAfter]
    BY SliceEvents DEF SliceCheckpoint, This
  <1>3. ApprovalAfter \in {"none", "pending"}
    BY DEF ApprovalAfter
  <1>4. ASSUME NEW j \in 2 .. Last, SliceCheckpoint.phase \in ClaimPhases(j)
        PROVE  /\ j = at /\ branch = "act" /\ verdict = "pass"
               /\ output \in ConsumableClaims(at)
               /\ SliceCheckpoint.phase = Slices[at].phases[output]
    <2>1. j = at /\ Outcome \in ConsumableClaims(at)
      BY <1>1, <1>2, <1>4, PhaseClaims
    <2>2. Outcome \in {"supported", "conservative", "target"}
      BY <2>1 DEF ConsumableClaims, Claims
    <2> QED
      BY <1>2, <2>1, <2>2, OutcomeClaims
  <1> QED
    BY <1>1, <1>2, <1>3, <1>4 DEF Fits

-----------------------------------------------------------------------------
(* What the next slice makes of the record *)

LEMMA LatestIs ==
    ASSUME NEW S \in SUBSET Int, NEW m \in S, \A j \in S : j <= m
    PROVE  LatestOf(S) = {m}
  <1>1. \A i \in S : (\A j \in S : j <= i) <=> i = m
    OBVIOUS
  <1>2. {i \in S : \A j \in S : j <= i} = {m}
    BY <1>1
  <1> QED
    BY <1>2 DEF LatestOf

\* The loader rebuilds the artifact of a slice that was passed, from its own events.
LEMMA ProducedRecord ==
    ASSUME transcript \in Seq(ChainEvents), NEW n \in Positions, NEW k \in 2 .. Last,
           NEW claim \in ConsumableClaims(k), Produced(n, k, claim)
    PROVE  /\ VerifiedRecord(transcript, n, Slices[k].artifact) = "artifact"
           /\ MatchingResult(transcript, n, Slices[k].artifact) = {n - 3}
           /\ transcript[n - 3].output = claim
  <1> DEFINE a == Slices[k].artifact
  <1>1. n \in Nat /\ n - 4 \in 1 .. n /\ n - 3 \in 1 .. n /\ n - 2 \in 1 .. n /\ n - 1 \in 1 .. n
    BY DEF Produced, Asked, Positions
  <1>2. a.tool = Tool(k) /\ a.verifier = Verifier(k)
    BY DEF Tool, Verifier
  <1>3. /\ transcript[n - 4].type = "tool_request" /\ transcript[n - 4].name = a.tool
        /\ transcript[n - 3].type = "tool_result" /\ transcript[n - 3].name = a.tool
        /\ transcript[n - 3].output = claim
        /\ transcript[n - 2].type = "verifier_request" /\ transcript[n - 2].name = a.verifier
        /\ transcript[n - 1].type = "verifier_result" /\ transcript[n - 1].name = a.verifier
        /\ transcript[n - 1].status = "pass" /\ transcript[n].type = "checkpoint_written"
        /\ transcript[n - 4].step = k /\ transcript[n - 3].step = k /\ transcript[n - 1].step = k
    BY <1>2 DEF Produced, Asked, Answered, AskedVerifier, Judged, IsRequest, Returns
  <1>4. transcript[n - 3].status = "succeeded"
    <2>1. claim \notin NoOutput
      BY DEF ConsumableClaims, Claims, NoOutput
    <2> QED
      BY <2>1 DEF Produced, Answered
  <1> HIDE DEF a
  <1>5. \A i \in 1 .. n : i \in 1 .. n - 5 \/ i \in {n - 4, n - 3, n - 2, n - 1, n}
    BY <1>1
  <1>6. AttemptStep(transcript, n, a) = {k}
    <2> DEFINE S == {j \in 1 .. n :
              \/ transcript[j].type \in {"tool_request", "tool_result"}
                 /\ transcript[j].name = a.tool
              \/ transcript[j].type \in {"verifier_request", "verifier_result"}
                 /\ transcript[j].name = a.verifier}
    <2>1. n - 1 \in S /\ S \in SUBSET Int
      BY <1>1, <1>3
    <2>2. \A j \in S : j <= n - 1
      BY <1>1, <1>3
    <2>3. LatestOf(S) = {n - 1}
      <3> HIDE DEF S
      <3> QED
        BY <2>1, <2>2, LatestIs
    <2> QED
      BY <1>3, <2>3 DEF AttemptStep
  <1>7. MatchingRequest(transcript, n, a) = {n - 4}
    <2> DEFINE S == AtAttempt(transcript, n, a, "tool_request", a.tool)
    <2>1. n - 4 \in S /\ S \in SUBSET Int
      BY <1>1, <1>3, <1>6 DEF AtAttempt
    <2>2. \A j \in S : j <= n - 4
      <3>1. \A j \in S : j \in 1 .. n /\ transcript[j].type = "tool_request"
        BY DEF AtAttempt
      <3>2. n - 3 \notin S /\ n - 2 \notin S /\ n - 1 \notin S /\ n \notin S
        BY <1>3, <3>1
      <3> HIDE DEF S
      <3> QED
        BY <1>1, <3>1, <3>2
    <2>3. LatestOf(S) = {n - 4}
      <3> HIDE DEF S
      <3> QED
        BY <2>1, <2>2, LatestIs
    <2> QED
      BY <2>3 DEF MatchingRequest
  <1>8. MatchingVerdict(transcript, n, a) = {n - 1}
    BY <1>1, <1>3, <1>5, <1>6 DEF MatchingVerdict, AtAttempt, LatestOf
  <1>9. MatchingResult(transcript, n, a) = {n - 3}
    <2>1. n - 3 \in AtAttempt(transcript, n, a, "tool_result", a.tool)
      BY <1>1, <1>3, <1>6 DEF AtAttempt
    <2>2. \A i \in AtAttempt(transcript, n, a, "tool_result", a.tool) :
              i \in 1 .. n /\ (n - 4 < i => n - 3 <= i)
      BY <1>1 DEF AtAttempt
    <2>3. FirstOf({i \in AtAttempt(transcript, n, a, "tool_result", a.tool) :
                      \A q \in {n - 4} : q < i}) = {n - 3}
      BY <1>1, <2>1, <2>2 DEF FirstOf
    <2> QED
      BY <1>7, <2>3 DEF MatchingResult
  <1>10. VerifiedRecord(transcript, n, a) = "artifact"
    BY <1>3, <1>4, <1>8, <1>9 DEF VerifiedRecord
  <1> QED
    BY <1>3, <1>9, <1>10 DEF a

\* The slice is reached through the marker of the checkpoint it loads.
LEMMA LoadedAtMarker ==
    ASSUME TypedChain, FilesSound, Marks(End, checkpoint)
    PROVE  Committed = {End} /\ SpeaksFor(End)
  <1>1. Committed = {End}
    BY DEF Committed, CommitPoint, LatestOf, Marks, Positions, End, TypedChain
  <1>2. End + 1 .. End = {}
    BY DEF End, TypedChain
  <1> QED
    BY <1>1, <1>2 DEF FilesSound

\* What a slice after the follow-up takes in is what the slice before it returned.
LEMMA ConsumedAtMarker ==
    ASSUME TypedChain, FilesSound, LoadFits, pc = "load", at > 2
    PROVE  /\ This.consumes = ClaimPhases(at - 1) /\ at - 1 \in 2 .. Last /\ at \in 3 .. Last
           /\ checkpoint.phase \notin This.consumes => Resolution = "insufficient"
           /\ checkpoint.phase \in This.consumes =>
                 /\ Resolution = "artifact"
                 /\ ConsumedClaim = transcript[End - 3].output
                 /\ \E claim \in ConsumableClaims(at - 1) :
                       /\ ConsumedClaim = claim
                       /\ checkpoint.phase = Slices[at - 1].phases[claim]
                       /\ claim = "supported" => Grounded(at - 1, End)
  <1>1. at \in {3, 4, 5, 6} /\ at - 1 \in 2 .. Last /\ at \in 3 .. Last
    BY SliceTable DEF LoadFits
  <1>2. Committed = {End} /\ SpeaksFor(End) /\ End \in Positions
    BY LoadedAtMarker DEF LoadFits, Marks
  <1>3. This.consumes = ClaimPhases(at - 1)
    BY <1>1, SliceTable DEF This, ClaimPhases, ConsumableClaims, Claims, EvidenceSlice,
       FollowUpSlice, HypothesisSlice, RecommendationSlice, ActionStubSlice, FOLLOW_UP_TARGET_COMPATIBLE_PHASES,
       EVIDENCE_COMPATIBLE_PHASES, HYPOTHESIS_COMPATIBLE_PHASES, RECOMMENDATION_COMPATIBLE_PHASES
  <1>4. checkpoint.phase \notin This.consumes => Resolution = "insufficient"
    BY DEF Resolution
  <1>5. ASSUME checkpoint.phase \in This.consumes
        PROVE  /\ Resolution = "artifact" /\ ConsumedClaim = transcript[End - 3].output
               /\ \E claim \in ConsumableClaims(at - 1) :
                     /\ ConsumedClaim = claim
                     /\ checkpoint.phase = Slices[at - 1].phases[claim]
                     /\ claim = "supported" => Grounded(at - 1, End)
    <2>1. PICK claim \in ConsumableClaims(at - 1) :
              /\ Produced(End, at - 1, claim) /\ checkpoint.phase = Slices[at - 1].phases[claim]
              /\ claim = "supported" => Grounded(at - 1, End)
      BY <1>1, <1>2, <1>3, <1>5 DEF SpeaksFor
    <2>2. /\ VerifiedRecord(transcript, End, Slices[at - 1].artifact) = "artifact"
          /\ MatchingResult(transcript, End, Slices[at - 1].artifact) = {End - 3}
          /\ transcript[End - 3].output = claim
      BY <1>1, <1>2, <2>1, ProducedRecord DEF TypedChain
    <2>3. Resolution = "artifact"
      <3>1. {VerifiedRecord(transcript, n, Slices[at - 1].artifact) : n \in Committed}
               = {"artifact"}
        BY <1>2, <2>2
      <3> QED
        BY <1>5, <3>1 DEF Resolution
    <2>4. ConsumedClaim = claim
      <3>1. ConsumedResult(at) = {End - 3}
        BY <1>2, <2>2 DEF ConsumedResult
      <3>2. {transcript[i].output : i \in ConsumedResult(at)} = {claim}
        BY <2>2, <3>1
      <3> QED
        BY <3>2 DEF ConsumedClaim
    <2> QED
      BY <2>1, <2>2, <2>3, <2>4
  <1> QED
    BY <1>1, <1>3, <1>4, <1>5

\* A follow-up takes in what triage returned, verified or not.
LEMMA TriageConsumed ==
    ASSUME TypedChain, at = 2, TriageAvailable
    PROVE  ConsumedClaim \in ToolOutputValues \ NoOutput
  <1>1. PICK i \in ConsumedResult(2) : transcript[i].status = "succeeded"
    BY DEF TriageAvailable
  <1>2. ASSUME NEW m \in Committed, NEW n \in Committed PROVE m = n
    BY DEF Committed, CommitPoint, LatestOf, TypedChain
  <1>3. \A n \in Committed : \A j \in MatchingResult(transcript, n, Slices[1].artifact) :
            \A l \in MatchingResult(transcript, n, Slices[1].artifact) : j = l
    BY DEF MatchingResult, LatestOf, FirstOf, AtAttempt, Committed, CommitPoint, TypedChain
  <1>4. ConsumedResult(2) = {i}
    <2>1. Slices[2 - 1] = Slices[1]
      OBVIOUS
    <2> QED
      BY <1>1, <1>2, <1>3, <2>1 DEF ConsumedResult
  <1>5. i \in Positions /\ transcript[i].type = "tool_result"
    BY <1>1 DEF ConsumedResult, MatchingResult, LatestOf, FirstOf, AtAttempt, Committed,
       CommitPoint, Positions, TypedChain
  <1>6. transcript[i] \in ResultEvents
    BY <1>5 DEF TypedChain, ChainEvents, OtherEvents, Positions
  <1>7. transcript[i].output \in ToolOutputValues \ NoOutput
    BY <1>1, <1>6 DEF ResultEvents
  <1>8. ConsumedClaim = transcript[i].output
    <2>1. {transcript[j].output : j \in ConsumedResult(2)} = {transcript[i].output}
      BY <1>4
    <2> QED
      BY <2>1 DEF ConsumedClaim
  <1> QED
    BY <1>7, <1>8

-----------------------------------------------------------------------------
(* Types *)

LEMMA CheckpointTyped == TypedChain /\ FilesSound => ChainTypeOK
  <1> SUFFICES ASSUME TypedChain, FilesSound PROVE ChainTypeOK
    OBVIOUS
  <1>1. checkpoint \in ChainCheckpoints
    BY FitsTyped DEF FilesSound
  <1>2. \A i \in 1 .. Len(transcript) :
          /\ transcript[i].type \in EventTypes
          /\ transcript[i].step \in 0 .. Last
          /\ transcript[i].type = "tool_result" => transcript[i].output \in ToolOutputValues
    <2> SUFFICES ASSUME NEW i \in 1 .. Len(transcript)
                 PROVE  /\ transcript[i].type \in EventTypes
                        /\ transcript[i].step \in 0 .. Last
                        /\ transcript[i].type = "tool_result" =>
                              transcript[i].output \in ToolOutputValues
      OBVIOUS
    <2>1. transcript[i] \in ResultEvents \/ transcript[i] \in OtherEvents
      BY DEF TypedChain, ChainEvents
    <2> QED
      BY <2>1 DEF ResultEvents, OtherEvents, EventTypes
  <1> QED
    BY <1>1, <1>2 DEF TypedChain, VariablesTyped, ChainTypeOK

LEMMA EmptyTyped ==
    /\ NoCheckpoint \in ChainCheckpoints
    /\ "none" \in ToolOutputValues /\ "raised" \in ToolOutputValues
    /\ "none" \in ChainBranches /\ "act" \in ChainBranches
    /\ NoMemory \in [source : {"none", "torn", Slices[4].id, Slices[5].id},
                     phase : HYPOTHESIS_PHASES \cup RECOMMENDATION_PHASES \cup {"none"},
                     claim : Claims \cup {"none"}]
    /\ TornMemory \in [source : {"none", "torn", Slices[4].id, Slices[5].id},
                     phase : HYPOTHESIS_PHASES \cup RECOMMENDATION_PHASES \cup {"none"},
                     claim : Claims \cup {"none"}]
  BY FitsTyped DEF Fits, ToolOutputValues, NoOutput, ChainBranches, NoMemory, TornMemory

\* A command that ends, for whatever reason, leaves nothing in memory.
LEMMA FinishTyped ==
    ASSUME TypedChain, Finish, transcript' \in Seq(ChainEvents),
           UNCHANGED memory \/ memory' = TornMemory,
           faults' \in 0 .. MaxFaults, UNCHANGED starts, crashes' \in 0 .. MaxCrashes
    PROVE  TypedChain'
  BY EmptyTyped, SliceTable DEF Finish, Enter, TypedChain, VariablesTyped, ChainLabels

LEMMA FaultsTyped ==
    ASSUME TypedChain, NEW sound \in BOOLEAN, ~sound => MayFail, CountFault(sound)
    PROVE  faults' \in 0 .. MaxFaults
  BY ChainBoundsAssumption DEF TypedChain, VariablesTyped, MayFail, CountFault

\* The running slice, when there is one, has loaded its session.
LEMMA Standing ==
    ASSUME ChainConsistent, pc \notin {"idle", "load"}
    PROVE  ContextFits /\ OutputFits /\ VerdictFits /\ EventsFit
  BY DEF ChainConsistent

LEMMA MarkerTyped ==
    ASSUME ContextFits, OutputFits, VerdictFits, Deciding
    PROVE  Marker(SliceCheckpoint, NextStep) \in ChainEvents
  <1>1. SliceCheckpoint \in ChainCheckpoints
    BY OutcomeFits, FitsTyped
  <1>2. NextStep \in 0 .. Last
    BY SliceEvents, SliceTable
  <1>3. SliceCheckpoint.id.stamp = 0
    BY DEF SliceCheckpoint
  <1>4. /\ SliceCheckpoint.id.name \in OtherNames
        /\ SliceCheckpoint.phase \in EarlyPhases \cup ACTION_STUB_PHASES \cup {"none"}
    BY <1>1 DEF ChainCheckpoints, OtherNames
  <1>5. "checkpoint_written" \in EventTypes \ {"tool_result"}
    BY DEF EventTypes
  <1> QED
    BY <1>2, <1>3, <1>4, <1>5 DEF Marker, ChainEvents, OtherEvents

LEMMA NextTyped == TypedChain /\ ChainConsistent /\ [Next]_chainVars => TypedChain'
  <1> SUFFICES ASSUME TypedChain, ChainConsistent, [Next]_chainVars PROVE TypedChain'
    OBVIOUS
  <1>0. FilesSound
    BY DEF ChainConsistent
  <1> USE <1>0
  <1>1. CASE Start
    BY <1>1, EmptyTyped, SliceTable, ChainBoundsAssumption
    DEF Start, Enter, TypedChain, VariablesTyped, ChainLabels, files
  <1>2. CASE Reject
    BY <1>2, FinishTyped DEF Reject, files, bounds, TypedChain, VariablesTyped
  <1>3. CASE BeginFollowUp
    <2>1. ConsumedClaim \in ToolOutputValues \ NoOutput
      BY <1>3, TriageConsumed DEF BeginFollowUp
    <2>2. checkpoint \in ChainCheckpoints
      BY FitsTyped DEF FilesSound
    <2>3. ConsumedClaim \in {"none", "gaps", "complete", "unsound", "target"} \cup Claims
      BY <2>1 DEF ToolOutputValues
    <2> QED
      BY <1>3, <2>2, <2>3, EmptyTyped, SliceTable
      DEF BeginFollowUp, Enter, TypedChain, VariablesTyped, ChainLabels, ChainBranches, files,
          bounds
  <1>4. CASE BeginSlice
    <2>1. LoadFits /\ pc = "load" /\ at > 2 /\ at \in 0 .. Last
      BY <1>4 DEF BeginSlice, ChainConsistent, TypedChain, VariablesTyped
    <2>2. Resolution \in {"insufficient", "artifact"}
      BY <2>1, ConsumedAtMarker
    <2>3. Resolution = "artifact" => ConsumedClaim \in {"target"} \cup Claims
      BY <2>1, ConsumedAtMarker DEF ConsumableClaims
    <2>4. checkpoint \in ChainCheckpoints
      BY FitsTyped DEF FilesSound
    <2> QED
      BY <1>4, <2>1, <2>2, <2>3, <2>4, EmptyTyped
      DEF BeginSlice, Enter, TypedChain, VariablesTyped, ChainLabels, ChainBranches, files, bounds
  <1>5. CASE RequestTool
    <2>1. ContextFits
      BY <1>5, Standing DEF RequestTool
    <2>2. transcript' \in Seq(ChainEvents)
      BY <1>5, <2>1, SliceEvents, Logged DEF RequestTool, TypedChain
    <2> QED
      BY <1>5, <2>2 DEF RequestTool, TypedChain, VariablesTyped, ChainLabels, slice, bounds
  <1>6. CASE RunTool
    <2>1. ContextFits /\ branch = "act"
      BY <1>6, Standing DEF RunTool, OutputFits, BeforeTool
    <2>2. PICK result \in ToolOutputs \ (IF at = 2 THEN {"raised"} ELSE {}) :
              output' = result /\ Log(ToolResult(result)) /\ CountFault(result \in SoundOutputs)
      BY <1>6 DEF RunTool
    <2>3. result \in ToolOutputValues
      BY <2>1, <2>2, ToolReturns, OutputTyped
    <2>4. transcript' \in Seq(ChainEvents)
      BY <2>1, <2>2, <2>3, SliceEvents, Logged DEF TypedChain
    <2>5. faults' \in 0 .. MaxFaults
      <3>1. result \notin SoundOutputs => MayFail
        BY <2>2 DEF ToolOutputs
      <3>2. faults' = faults + (IF result \in SoundOutputs THEN 0 ELSE 1)
        BY <2>2 DEF CountFault
      <3> QED
        BY <3>1, <3>2, ChainBoundsAssumption DEF MayFail, TypedChain, VariablesTyped
    <2> QED
      BY <1>6, <2>2, <2>3, <2>4, <2>5 DEF RunTool, TypedChain, VariablesTyped, ChainLabels
  <1>7. CASE EscapeFollowUp
    <2>1. ContextFits
      BY <1>7, Standing DEF EscapeFollowUp
    <2>2. transcript' \in Seq(ChainEvents)
      BY <1>7, <2>1, SliceEvents, Logged, EmptyTyped DEF EscapeFollowUp, TypedChain
    <2>3. MayFail
      BY <1>7 DEF EscapeFollowUp, ToolOutputs, SoundOutputs
    <2>4. faults' \in 0 .. MaxFaults
      <3>1. CountFault(FALSE)
        BY <1>7 DEF EscapeFollowUp
      <3>2. faults' = faults + 1
        BY <3>1 DEF CountFault
      <3>3. faults < MaxFaults /\ faults \in 0 .. MaxFaults
        BY <2>3 DEF MayFail, TypedChain, VariablesTyped
      <3> QED
        BY <3>2, <3>3, ChainBoundsAssumption
    <2> QED
      BY <1>7, <2>2, <2>4, FinishTyped DEF EscapeFollowUp, TypedChain, VariablesTyped
  <1>8. CASE RequestVerifier
    <2>1. ContextFits
      BY <1>8, Standing DEF RequestVerifier
    <2>2. transcript' \in Seq(ChainEvents)
      BY <1>8, <2>1, SliceEvents, Logged DEF RequestVerifier, TypedChain
    <2> QED
      BY <1>8, <2>2 DEF RequestVerifier, TypedChain, VariablesTyped, ChainLabels, slice, bounds
  <1>9. CASE RecordVerdict
    <2>1. ContextFits /\ OutputFits /\ pc = "record_verdict"
      BY <1>9, Standing DEF RecordVerdict
    <2>2. PICK v \in Verdicts \ (IF at = 2 THEN {"raised"} ELSE {}) :
              /\ verdict' = v
              /\ Log(Event("verifier_result", Verifier(at), NextStep,
                           IF v = "raised" THEN "unverified" ELSE v))
              /\ CountFault(v = Verdict)
      BY <1>9 DEF RecordVerdict
    <2>3. v \in {"pass", "fail", "unverified", "raised"}
      BY <2>1, <2>2, VerifierSays
    <2>4. transcript' \in Seq(ChainEvents)
      BY <2>1, <2>2, <2>3, SliceEvents, Logged DEF TypedChain
    <2>5. faults' \in 0 .. MaxFaults
      BY <2>2, FaultsTyped DEF Verdicts
    <2> QED
      BY <1>9, <2>2, <2>3, <2>4, <2>5 DEF RecordVerdict, TypedChain, VariablesTyped, ChainLabels
  <1>10. CASE EscapeFollowUpVerifier
    <2>1. faults' \in 0 .. MaxFaults
      BY <1>10, FaultsTyped DEF EscapeFollowUpVerifier, Verdicts
    <2> QED
      BY <1>10, <2>1, FinishTyped DEF EscapeFollowUpVerifier, files, TypedChain, VariablesTyped
  <1>11. CASE SaveCheckpoint
    BY <1>11 DEF SaveCheckpoint, TypedChain, VariablesTyped, ChainLabels, slice, bounds
  <1>12. CASE MarkCheckpoint
    <2>1. ContextFits /\ OutputFits /\ VerdictFits /\ Deciding
      BY <1>12, Standing DEF MarkCheckpoint, Deciding
    <2>2. transcript' \in Seq(ChainEvents)
      BY <1>12, <2>1, MarkerTyped, Logged DEF MarkCheckpoint, TypedChain
    <2>3. CASE MemoryDue
      BY <1>12, <2>2, <2>3
      DEF MarkCheckpoint, TypedChain, VariablesTyped, ChainLabels, slice, bounds
    <2>4. CASE ~MemoryDue
      BY <1>12, <2>1, <2>2, <2>4, EmptyTyped, SliceTable
      DEF MarkCheckpoint, Proceed, Finish, Enter, ContextFits, TypedChain, VariablesTyped,
          ChainLabels, bounds
    <2> QED
      BY <2>3, <2>4
  <1>13. CASE WriteMemory
    <2>1. ContextFits /\ OutputFits /\ VerdictFits /\ Deciding /\ MemoryDue
      BY <1>13, Standing DEF WriteMemory, Deciding, EventsFit
    <2>2. at \in {4, 5} /\ branch = "act" /\ output \in Claims /\ verdict = "pass"
      <3>1. at \in {4, 5} /\ branch = "act" /\ output \in OutputsOf(at) /\ verdict = "pass"
            /\ output \notin NoOutput
        BY <2>1 DEF MemoryDue, OutputFits, NoOutput
      <3> QED
        BY <3>1 DEF OutputsOf, NoOutput
    <2>3. SliceCheckpoint.phase \in HYPOTHESIS_PHASES \cup RECOMMENDATION_PHASES
      <3>1. /\ SliceCheckpoint.phase = Slices[at].phases[Outcome]
            /\ Outcome \in DOMAIN Slices[at].phases
        BY <2>1, OutcomeClaims DEF SliceCheckpoint, This
      <3> QED
        BY <2>2, <3>1, SliceTable DEF HypothesisSlice, RecommendationSlice, HYPOTHESIS_PHASES,
           RECOMMENDATION_PHASES
    <2>4. memory' \in [source : {"none", "torn", Slices[4].id, Slices[5].id},
                   phase : HYPOTHESIS_PHASES \cup RECOMMENDATION_PHASES \cup {"none"},
                   claim : Claims \cup {"none"}]
      BY <1>13, <2>2, <2>3 DEF WriteMemory, This
    <2> QED
      BY <1>13, <2>2, <2>4, EmptyTyped, SliceTable
      DEF WriteMemory, Proceed, Finish, Enter, TypedChain, VariablesTyped, ChainLabels, bounds
  <1>14. CASE Crash
    BY <1>14, FinishTyped, ChainBoundsAssumption DEF Crash, files, TypedChain, VariablesTyped
  <1>15. CASE CrashMidLine
    <2>1. ContextFits
      BY <1>15, Standing DEF CrashMidLine, Appending
    <2>2. transcript' \in Seq(ChainEvents)
      BY <1>15, <2>1, SliceEvents, Logged DEF CrashMidLine, TypedChain
    <2> QED
      BY <1>15, <2>2, FinishTyped, ChainBoundsAssumption
      DEF CrashMidLine, TypedChain, VariablesTyped
  <1>16. CASE CrashMidMemory
    BY <1>16, FinishTyped, ChainBoundsAssumption DEF CrashMidMemory, TypedChain, VariablesTyped
  <1>17. CASE UNCHANGED chainVars
    BY <1>17 DEF chainVars, files, slice, bounds, TypedChain, VariablesTyped
  <1> QED
    BY <1>1, <1>2, <1>3, <1>4, <1>5, <1>6, <1>7, <1>8, <1>9, <1>10, <1>11, <1>12, <1>13, <1>14,
       <1>15, <1>16, <1>17 DEF Next, Run

-----------------------------------------------------------------------------
(* Each step keeps the invariant *)

\* A command that ends leaves the files to speak for themselves.
LEMMA EndedChain ==
    ASSUME FilesSound', Finish
    PROVE  ChainConsistent'
  BY DEF Finish, Enter, ChainConsistent, ToolsReturnOnce, LoadFits, Waiting

\* Steps that append no result and begin no run.
LEMMA QuietReturns ==
    ASSUME TypedChain, ToolsReturnOnce, ~Waiting, NEW n \in Nat, n = Len(transcript),
           NEW e, Log1(e, n), ~TriageRequest(e), e.type # "tool_result",
           UNCHANGED <<at, branch, input, output>>, ~BeforeTool => ~BeforeTool',
           pc' # "load"
    PROVE  ToolsReturnOnce'
  <1>1. /\ RunOf(n + 1)' = RunOf(n) /\ End = n /\ End' = n + 1
        /\ Positions = 1 .. n /\ Positions' = (1 .. n) \cup {n + 1}
        /\ \A i \in 1 .. n : InThisRun(i)' <=> InThisRun(i)
    BY RunGoesOn
  <1>2. RunOf(End)' # {}
    BY <1>1 DEF ToolsReturnOnce
  <1>3. ASSUME NEW i \in Positions', NEW k \in 1 .. Last, IsResult(i, k)', InThisRun(i)'
        PROVE  /\ k < at \/ (k = at /\ ~BeforeTool' /\ transcript'[i].output = output)
               /\ k = at - 1 /\ branch = "act" /\ at > 3 => transcript'[i].output = input
    <2>1. i # n + 1
      BY <1>3 DEF IsResult, Log1
    <2>2. i \in 1 .. n /\ transcript'[i] = transcript[i]
      BY <1>1, <2>1 DEF Log1
    <2>3. IsResult(i, k) /\ InThisRun(i)
      BY <1>1, <1>3, <2>2 DEF IsResult, Tool
    <2> QED
      BY <1>1, <2>2, <2>3 DEF ToolsReturnOnce
  <1> QED
    BY <1>2, <1>3 DEF ToolsReturnOnce

LEMMA RequestToolStep ==
    ASSUME TypedChain, ChainConsistent, RequestTool
    PROVE  ChainConsistent'
  <1>1. /\ ContextFits /\ OutputFits /\ VerdictFits /\ pc = "request_tool" /\ pc' = "run_tool"
        /\ UNCHANGED <<checkpoint, memory, slice>>
    BY Standing DEF RequestTool
  <1>2. PICK n \in Nat : n = Len(transcript)
    BY DEF TypedChain
  <1>3. PICK k \in 1 .. 6 : k = at
    BY <1>1, SliceEvents
  <1> DEFINE e == Event("tool_request", Tool(k), k, "none")
  <1>4. e \in ChainEvents /\ Log(e)
    BY <1>1, <1>3, SliceEvents DEF RequestTool
  <1>5. /\ e.type = "tool_request" /\ e.name = Tool(k) /\ e.step = k
    BY DEF Event
  <1> HIDE DEF e
  <1>6. Log1(e, n)
    BY <1>2, <1>4, Logged DEF TypedChain
  <1>7. FilesSound'
    BY <1>1, <1>2, <1>4, <1>5, LoggedFiles DEF ChainConsistent
  <1>8. ToolsReturnOnce'
    <2>1. CASE k = 1
      <3>1. IsRequest(n + 1, 1)' /\ End' = n + 1 /\ Positions' = 1 .. n + 1
        BY <1>5, <1>6, <2>1 DEF IsRequest, Log1, End, Positions, Tool
      <3>2. n + 1 \in RunOf(n + 1)'
        BY <3>1 DEF RunOf, LatestOf
      <3>3. \A i \in 1 .. n : ~InThisRun(i)'
        BY <3>1 DEF InThisRun
      <3>4. \A j : ~IsResult(n + 1, j)'
        BY <1>5, <1>6 DEF IsResult, Log1
      <3>5. \A i \in 1 .. n + 1 : i \in 1 .. n \/ i = n + 1
        OBVIOUS
      <3> QED
        BY <3>1, <3>2, <3>3, <3>4, <3>5 DEF ToolsReturnOnce
    <2>2. CASE k # 1
      <3>1. ~TriageRequest(e)
        BY <1>5, <2>2, OwnTools, SliceTable DEF TriageRequest
      <3> QED
        BY <1>1, <1>2, <1>3, <1>5, <1>6, <2>2, <3>1, QuietReturns
        DEF ChainConsistent, Waiting, slice, BeforeTool
    <2> QED
      BY <2>1, <2>2
  <1>9. ContextFits'
    BY <1>1 DEF ContextFits, Fits, slice, This
  <1>10. OutputFits'
    <2>1. /\ output' = "none" /\ branch' = "act" /\ BeforeTool'
      BY <1>1 DEF OutputFits, BeforeTool, slice
    <2>2. ASSUME at > 3, input = "supported" PROVE Grounded(k - 1, n + 1)'
      <3>1. Grounded(k - 1, n)
        BY <1>1, <1>2, <1>3, <2>2 DEF OutputFits, BeforeTool, End
      <3>2. ~TriageRequest(e)
        BY <1>3, <1>5, <2>2, OwnTools, SliceTable DEF TriageRequest
      <3> QED
        BY <1>6, <3>1, <3>2, StaysGrounded
    <2>3. at' = k /\ input' = input /\ End' = n + 1
      BY <1>1, <1>3, <1>6 DEF slice, End, Log1
    <2> QED
      BY <1>3, <2>1, <2>2, <2>3 DEF OutputFits
  <1>11. VerdictFits' /\ LoadFits'
    BY <1>1 DEF VerdictFits, LoadFits, Deciding, slice
  <1>12. EventsFit'
    <2>1. Asked(n + 1, k)'
      BY <1>5, <1>6 DEF Asked, IsRequest, Log1, Positions, Tool
    <2>2. End' = n + 1 /\ at' = k
      BY <1>1, <1>3, <1>6 DEF slice, End, Log1
    <2> QED
      BY <1>1, <2>1, <2>2 DEF EventsFit
  <1> QED
    BY <1>7, <1>8, <1>9, <1>10, <1>11, <1>12 DEF ChainConsistent

LEMMA SameRun ==
    ASSUME UNCHANGED transcript
    PROVE  /\ RunOf(End)' = RunOf(End) /\ End' = End /\ Positions' = Positions
           /\ \A i : InThisRun(i)' <=> InThisRun(i)
           /\ \A i : \A k : IsResult(i, k)' <=> IsResult(i, k)
  <1>1. \A i : IsRequest(i, 1)' <=> IsRequest(i, 1)
    BY DEF IsRequest, Tool
  <1>2. End' = End /\ Positions' = Positions
    BY DEF End, Positions
  <1>3. {i \in 1 .. End' : IsRequest(i, 1)'} = {i \in 1 .. End : IsRequest(i, 1)}
    BY <1>1, <1>2
  <1>4. RunOf(End)' = RunOf(End)
    BY <1>3 DEF RunOf, LatestOf
  <1>5. \A i : InThisRun(i)' <=> InThisRun(i)
    BY <1>1, <1>2 DEF InThisRun
  <1>6. \A i : \A k : IsResult(i, k)' <=> IsResult(i, k)
    BY DEF IsResult, Tool
  <1> QED
    BY <1>2, <1>4, <1>5, <1>6

LEMMA SameGrounded ==
    ASSUME transcript \in Seq(ChainEvents), UNCHANGED transcript, NEW n \in Nat,
           n = Len(transcript), NEW k
    PROVE  /\ Grounded(k, n) <=> Grounded(k, n)'
           /\ (\E begin \in RunOf(n) : Leads(k, begin, n)) =>
                 (\E begin \in RunOf(n)' : Leads(k, begin, n)')
  <1>1. Kept(n)
    BY SameKept
  <1>2. n \in 0 .. n
    OBVIOUS
  <1>3. RunOf(n)' = RunOf(n) /\ RunOf(n) \subseteq 1 .. n
    BY <1>1, <1>2, KeptRun
  <1> QED
    BY <1>1, <1>2, <1>3, KeptGrounded, KeptEstablished

LEMMA BeginFollowUpStep ==
    ASSUME TypedChain, ChainConsistent, BeginFollowUp
    PROVE  ChainConsistent'
  <1>1. /\ pc = "load" /\ at = 2 /\ at' = 2 /\ UNCHANGED files /\ context' = checkpoint
        /\ output' = "none" /\ verdict' = "none"
        /\ \/ pc' = "request_verifier" /\ branch' = "no_op"
           \/ pc' = "request_tool" /\ branch' = "act"
    BY DEF BeginFollowUp, Enter
  <1>2. FilesSound' /\ FilesSound
    BY <1>1, SameFiles DEF ChainConsistent
  <1>3. ToolsReturnOnce'
    <2>1. /\ RunOf(End) # {}
          /\ \A i \in Positions, k \in 1 .. Last : IsResult(i, k) /\ InThisRun(i) => k < at
      BY <1>1 DEF ChainConsistent, ToolsReturnOnce, Waiting, BeforeTool
    <2>2. UNCHANGED transcript
      BY <1>1 DEF files
    <2> QED
      BY <1>1, <2>1, <2>2, SameRun DEF ToolsReturnOnce
  <1>4. ContextFits'
    <2>1. Fits(checkpoint) /\ checkpoint.step = 1 /\ UNCHANGED checkpoint
      BY <1>1, <1>2 DEF FilesSound, ChainConsistent, LoadFits, files
    <2> QED
      BY <1>1, <2>1, SliceTable DEF ContextFits, Fits
  <1>5. OutputFits' /\ VerdictFits' /\ EventsFit' /\ LoadFits'
    BY <1>1 DEF OutputFits, BeforeTool, VerdictFits, Deciding, EventsFit, LoadFits
  <1> QED
    BY <1>2, <1>3, <1>4, <1>5 DEF ChainConsistent

LEMMA BeginSliceStep ==
    ASSUME TypedChain, ChainConsistent, BeginSlice
    PROVE  ChainConsistent'
  <1>0. /\ pc = "load" /\ at > 2 /\ LoadFits /\ FilesSound /\ UNCHANGED files
    BY DEF BeginSlice, ChainConsistent
  <1>1. PICK n \in Nat : n = Len(transcript)
    BY DEF TypedChain
  <1>2. PICK k \in 3 .. 6 : k = at
    BY <1>0, ConsumedAtMarker, SliceTable
  <1>3. /\ checkpoint.phase \notin This.consumes => Resolution = "insufficient"
        /\ checkpoint.phase \in This.consumes =>
              /\ Resolution = "artifact"
              /\ ConsumedClaim = transcript[End - 3].output
              /\ \E claim \in ConsumableClaims(at - 1) :
                    /\ ConsumedClaim = claim
                    /\ checkpoint.phase = Slices[at - 1].phases[claim]
                    /\ claim = "supported" => Grounded(at - 1, End)
    BY <1>0, ConsumedAtMarker
  <1>4. /\ at' = at /\ context' = checkpoint /\ output' = "none" /\ verdict' = "none"
        /\ \/ /\ pc' = "request_verifier" /\ branch' = "insufficient_state"
              /\ checkpoint.phase \notin This.consumes
           \/ /\ pc' = "request_tool" /\ branch' = "act" /\ input' = ConsumedClaim
              /\ checkpoint.phase \in This.consumes
    BY <1>3 DEF BeginSlice, Enter
  <1>5. FilesSound' /\ UNCHANGED <<transcript, checkpoint>>
    BY <1>0, SameFiles DEF files
  <1>6. ToolsReturnOnce'
    <2>1. /\ RunOf(End) # {}
          /\ \A i \in Positions, j \in 1 .. Last : IsResult(i, j) /\ InThisRun(i) =>
                /\ j < at
                /\ j = at - 1 /\ checkpoint.phase \in This.consumes =>
                      transcript[i].output = transcript[End - 3].output
      BY <1>0 DEF ChainConsistent, ToolsReturnOnce, Waiting, BeforeTool
    <2>2. RunOf(End)' # {}
      BY <1>5, <2>1, SameRun
    <2>3. ASSUME NEW i \in Positions', NEW j \in 1 .. Last, IsResult(i, j)', InThisRun(i)'
          PROVE  j < at /\ (j = at - 1 /\ branch' = "act" => transcript'[i].output = input')
      <3>1. i \in Positions /\ IsResult(i, j) /\ InThisRun(i)
        BY <1>5, <2>3, SameRun
      <3> QED
        BY <1>3, <1>4, <1>5, <2>1, <3>1
    <2> QED
      BY <1>4, <2>2, <2>3 DEF ToolsReturnOnce
  <1>7. ContextFits'
    <2>1. Fits(checkpoint) /\ checkpoint.step = at - 1
      BY <1>0 DEF FilesSound, LoadFits
    <2>2. branch' = "act" /\ at > 3 =>
             input' \in Claims /\ checkpoint.phase = Slices[at - 1].phases[input']
      BY <1>2, <1>3, <1>4 DEF ConsumableClaims
    <2>3. This' = This
      BY <1>4 DEF This
    <2> QED
      BY <1>0, <1>2, <1>4, <1>5, <2>1, <2>2, <2>3, SliceTable DEF ContextFits, Fits
  <1>8. OutputFits'
    <2>1. ASSUME branch' = "act", input' = "supported" PROVE Grounded(k - 1, n)'
      <3>1. Grounded(k - 1, n)
        BY <1>1, <1>2, <1>3, <1>4, <2>1 DEF End
      <3> QED
        BY <1>1, <1>5, <3>1, SameGrounded DEF TypedChain
    <2>2. End' = n /\ at' = k
      BY <1>1, <1>2, <1>4, <1>5 DEF End
    <2> QED
      BY <1>4, <2>1, <2>2 DEF OutputFits, BeforeTool
  <1>9. VerdictFits' /\ EventsFit' /\ LoadFits'
    BY <1>4 DEF VerdictFits, Deciding, EventsFit, LoadFits
  <1> QED
    BY <1>5, <1>6, <1>7, <1>8, <1>9 DEF ChainConsistent

LEMMA RunToolStep ==
    ASSUME TypedChain, ChainConsistent, RunTool
    PROVE  ChainConsistent'
  <1>1. /\ ContextFits /\ OutputFits /\ VerdictFits /\ EventsFit
        /\ pc = "run_tool" /\ pc' = "request_verifier" /\ branch = "act"
        /\ UNCHANGED <<checkpoint, memory, at, context, branch, input, verdict>>
    BY Standing DEF RunTool, OutputFits, BeforeTool
  <1>2. PICK n \in Nat : n = Len(transcript)
    BY DEF TypedChain
  <1>3. PICK k \in 1 .. 6 : k = at
    BY <1>1, SliceEvents
  <1>4. PICK result \in ToolOutputs \ (IF at = 2 THEN {"raised"} ELSE {}) :
            output' = result /\ Log(ToolResult(result))
    BY DEF RunTool
  <1>5. result \in OutputsOf(k) /\ result \in ToolOutputValues
    BY <1>1, <1>3, <1>4, ToolReturns, OutputTyped
  <1>e. PICK e \in ChainEvents : e = ToolResult(result)
    BY <1>1, <1>5, SliceEvents
  <1>6. /\ e.type = "tool_result" /\ e.name = Tool(k) /\ e.step = k /\ e.output = result
        /\ e.status = IF result \in NoOutput THEN "failed" ELSE "succeeded"
    BY <1>1, <1>3, <1>e, SliceEvents DEF ToolResult
  <1>7. Log1(e, n)
    BY <1>2, <1>4, <1>e, Logged DEF TypedChain
  <1>8. FilesSound'
    <2>1. k = 3 => checkpoint.phase # "evidence_reading_completed"
      <3> SUFFICES ASSUME k = 3 PROVE checkpoint.phase # "evidence_reading_completed"
        OBVIOUS
      <3>1. checkpoint = context /\ Fits(context) /\ context.step = 2
        BY <1>1, <1>3 DEF ContextFits
      <3>2. \E outcome \in DOMAIN Slices[2].phases : context.phase = Slices[2].phases[outcome]
        BY <3>1, SliceTable DEF Fits, NoCheckpoint
      <3> QED
        BY <3>1, <3>2, SliceTable DEF FollowUpSlice
    <2>2. e.name = Tool(3) => k = 3
      BY <1>6, OwnTools, SliceTable
    <2> QED
      BY <1>1, <1>2, <1>4, <1>e, <1>6, <2>1, <2>2, LoggedFiles DEF ChainConsistent
  <1>9. ~TriageRequest(e)
    BY <1>6 DEF TriageRequest
  <1>10. ToolsReturnOnce'
    <2>1. /\ RunOf(End) # {} /\ End = n
          /\ \A i \in Positions, j \in 1 .. Last : IsResult(i, j) /\ InThisRun(i) =>
                j < at /\ (j = at - 1 /\ at > 3 => transcript[i].output = input)
      BY <1>1, <1>2 DEF ChainConsistent, ToolsReturnOnce, Waiting, BeforeTool, End
    <2>2. /\ RunOf(n + 1)' = RunOf(n) /\ End' = n + 1
          /\ Positions = 1 .. n /\ Positions' = (1 .. n) \cup {n + 1}
          /\ \A i \in 1 .. n : InThisRun(i)' <=> InThisRun(i)
      BY <1>7, <1>9, RunGoesOn
    <2>3. RunOf(End)' # {}
      BY <2>1, <2>2
    <2>4. ASSUME NEW i \in Positions', NEW j \in 1 .. Last, IsResult(i, j)', InThisRun(i)'
          PROVE  /\ j < at \/ (j = at /\ transcript'[i].output = output')
                 /\ j = at - 1 /\ at > 3 => transcript'[i].output = input
      <3>1. CASE i = n + 1
        <4>1. j = k
          BY <1>6, <1>7, <2>4, <3>1, OwnTools, SliceTable DEF IsResult, Log1, Tool
        <4> QED
          BY <1>3, <1>4, <1>6, <1>7, <3>1, <4>1 DEF Log1
      <3>2. CASE i # n + 1
        <4>1. i \in 1 .. n /\ transcript'[i] = transcript[i]
          BY <1>7, <2>2, <3>2 DEF Log1
        <4>2. IsResult(i, j) /\ InThisRun(i)
          BY <2>2, <2>4, <4>1 DEF IsResult, Tool
        <4> QED
          BY <2>1, <2>2, <4>1, <4>2
      <3> QED
        BY <3>1, <3>2
    <2> QED
      BY <1>1, <2>3, <2>4 DEF ToolsReturnOnce, BeforeTool
  <1>11. ContextFits'
    BY <1>1 DEF ContextFits, Fits, This
  <1>12. OutputFits'
    <2>1. ASSUME k > 3, result = "supported", input = "supported"
          PROVE  \E begin \in RunOf(n + 1)' : Leads(k, begin, n + 1)'
      <3>1. Grounded(k - 1, n)
        BY <1>1, <1>2, <1>3, <2>1 DEF OutputFits, BeforeTool, End
      <3> QED
        BY <1>6, <1>7, <2>1, <3>1, ResultLeads, SliceTable
    <2>2. End' = n + 1 /\ at' = k
      BY <1>1, <1>3, <1>7 DEF End, Log1
    <2> QED
      BY <1>1, <1>4, <1>5, <2>1, <2>2 DEF OutputFits, BeforeTool
  <1>13. VerdictFits' /\ LoadFits'
    BY <1>1 DEF VerdictFits, LoadFits, Deciding
  <1>14. EventsFit'
    <2>1. Answered(n + 1, k, result)'
      BY <1>6, <1>7 DEF Answered, Returns, Log1, Positions, Tool
    <2>2. Asked(n, k)'
      BY <1>1, <1>2, <1>3, <1>7 DEF EventsFit, Asked, IsRequest, Log1, Positions, Tool, End
    <2>3. End' = n + 1 /\ at' = k /\ End' - 1 = n
      BY <1>1, <1>3, <1>7 DEF End, Log1
    <2> QED
      BY <1>1, <1>4, <2>1, <2>2, <2>3 DEF EventsFit
  <1> QED
    BY <1>8, <1>10, <1>11, <1>12, <1>13, <1>14 DEF ChainConsistent

LEMMA StartStep ==
    ASSUME TypedChain, ChainConsistent, Start
    PROVE  ChainConsistent'
  <1>1. /\ at' = 1 /\ pc' = "request_tool" /\ context' = NoCheckpoint /\ branch' = "act"
        /\ output' = "none" /\ verdict' = "none" /\ UNCHANGED files
    BY DEF Start, Enter
  <1>2. FilesSound'
    BY <1>1, SameFiles DEF ChainConsistent
  <1>3. ToolsReturnOnce' /\ LoadFits'
    BY <1>1 DEF ToolsReturnOnce, Waiting, LoadFits
  <1>4. ContextFits'
    BY <1>1, SliceTable DEF ContextFits, Fits, NoCheckpoint
  <1>5. OutputFits' /\ VerdictFits' /\ EventsFit'
    BY <1>1 DEF OutputFits, BeforeTool, VerdictFits, Deciding, EventsFit
  <1> QED
    BY <1>2, <1>3, <1>4, <1>5 DEF ChainConsistent

\* Steps that end the command, with no event or a last one.
LEMMA EndingSteps ==
    ASSUME TypedChain, ChainConsistent,
           Reject \/ EscapeFollowUp \/ EscapeFollowUpVerifier
             \/ Crash \/ CrashMidLine \/ CrashMidMemory
    PROVE  ChainConsistent'
  <1>0. PICK n \in Nat : n = Len(transcript)
    BY DEF TypedChain
  <1>f. TypedChain /\ FilesSound
    BY DEF ChainConsistent
  <1>1. CASE UNCHANGED files /\ Finish
    BY <1>1, <1>f, SameFiles, EndedChain
  <1>2. CASE EscapeFollowUp /\ ~UNCHANGED transcript
    <2>1. /\ ContextFits /\ Log(ToolResult("raised")) /\ UNCHANGED <<checkpoint, memory>>
          /\ at = 2 /\ Finish
      BY <1>2, Standing DEF EscapeFollowUp
    <2>2. PICK e \in ChainEvents : e = ToolResult("raised")
      BY <2>1, SliceEvents, EmptyTyped
    <2>3. e.type = "tool_result" /\ e.name # Tool(3)
      BY <2>1, <2>2, OwnTools, SliceTable DEF ToolResult
    <2>4. FilesSound'
      BY <1>0, <1>f, <2>1, <2>2, <2>3, LoggedFiles
    <2> QED
      BY <2>1, <2>4, EndedChain
  <1>3. CASE EscapeFollowUp /\ UNCHANGED transcript
    BY <1>1, <1>3 DEF EscapeFollowUp, files
  <1>4. CASE CrashMidLine
    <2>1. /\ ContextFits /\ Log(TornLine) /\ UNCHANGED <<checkpoint, memory>> /\ Finish
      BY <1>4, Standing DEF CrashMidLine, Appending
    <2>2. PICK e \in ChainEvents : e = TornLine
      BY <2>1, SliceEvents
    <2>3. e.type = "torn"
      BY <2>2 DEF TornLine, Event
    <2>4. FilesSound'
      BY <1>0, <1>f, <2>1, <2>2, <2>3, LoggedFiles
    <2> QED
      BY <2>1, <2>4, EndedChain
  <1>5. CASE CrashMidMemory
    <2>1. memory' = TornMemory /\ UNCHANGED <<checkpoint, transcript>> /\ Finish
      BY <1>5 DEF CrashMidMemory
    <2>2. MemoryIsBacked'
      BY <2>1 DEF MemoryIsBacked
    <2> QED
      BY <1>f, <2>1, <2>2, SameRecord, EndedChain
  <1> QED
    BY <1>1, <1>2, <1>3, <1>4, <1>5 DEF Reject, EscapeFollowUpVerifier, Crash

\* The events of the running slice stay where they are.
LEMMA StaysLogged ==
    ASSUME NEW n \in Nat, NEW e, Log1(e, n), NEW i \in 1 .. n, NEW k, NEW x
    PROVE  /\ Asked(i, k) => Asked(i, k)'
           /\ Answered(i, k, x) => Answered(i, k, x)'
           /\ AskedVerifier(i, k) => AskedVerifier(i, k)'
           /\ Judged(i, k, x) => Judged(i, k, x)'
  BY DEF Log1, Asked, Answered, AskedVerifier, Judged, IsRequest, Returns, Positions, Tool, Verifier

LEMMA RequestVerifierStep ==
    ASSUME TypedChain, ChainConsistent, RequestVerifier
    PROVE  ChainConsistent'
  <1>1. /\ ContextFits /\ OutputFits /\ VerdictFits /\ EventsFit
        /\ pc = "request_verifier" /\ pc' = "record_verdict"
        /\ UNCHANGED <<checkpoint, memory, slice>>
    BY Standing DEF RequestVerifier
  <1>2. PICK n \in Nat : n = Len(transcript)
    BY DEF TypedChain
  <1>3. PICK k \in 1 .. 6 : k = at
    BY <1>1, SliceEvents
  <1>x. PICK x : x = output
    OBVIOUS
  <1> DEFINE e == Event("verifier_request", Verifier(k), k, "none")
  <1>4. e \in ChainEvents /\ Log(e)
    BY <1>1, <1>3, SliceEvents DEF RequestVerifier
  <1>5. e.type = "verifier_request" /\ e.name = Verifier(k) /\ e.step = k
    BY DEF Event
  <1> HIDE DEF e
  <1>6. Log1(e, n) /\ ~TriageRequest(e)
    BY <1>2, <1>4, <1>5, Logged DEF TypedChain, TriageRequest
  <1>7. FilesSound'
    BY <1>1, <1>2, <1>4, <1>5, LoggedFiles DEF ChainConsistent
  <1>8. ToolsReturnOnce'
    BY <1>1, <1>2, <1>5, <1>6, QuietReturns DEF ChainConsistent, Waiting, slice, BeforeTool
  <1>9. ContextFits'
    BY <1>1 DEF ContextFits, Fits, slice, This
  <1>e. End = n /\ End' = n + 1 /\ at' = k /\ branch' = branch /\ output' = x /\ input' = input
    BY <1>1, <1>2, <1>3, <1>x, <1>6 DEF slice, End, Log1
  <1>10. OutputFits'
    <2>1. (\E begin \in RunOf(n) : Leads(k, begin, n)) =>
             (\E begin \in RunOf(n + 1)' : Leads(k, begin, n + 1)')
      BY <1>6, StaysGrounded
    <2>2. IF branch # "act" THEN x = "none"
          ELSE /\ x \in OutputsOf(k)
               /\ k > 3 /\ x = "supported" /\ input = "supported" =>
                     \E begin \in RunOf(n) : Leads(k, begin, n)
      BY <1>1, <1>3, <1>x, <1>e DEF OutputFits, BeforeTool
    <2>3. pc' = "record_verdict"
      BY <1>1
    <2> QED
      BY <1>e, <2>1, <2>2, <2>3 DEF OutputFits, BeforeTool
  <1>11. VerdictFits' /\ LoadFits'
    BY <1>1 DEF VerdictFits, LoadFits, Deciding, slice
  <1>12. EventsFit'
    <2>1. AskedVerifier(n + 1, k)'
      BY <1>5, <1>6 DEF AskedVerifier, Log1, Positions, Verifier
    <2>2. branch = "act" => Asked(n - 1, k) /\ Answered(n, k, x) /\ n - 1 \in 1 .. n /\ n \in 1 .. n
      BY <1>1, <1>3, <1>x, <1>e DEF EventsFit, Asked, Answered, Positions, End
    <2>3. branch = "act" => Asked(n - 1, k)' /\ Answered(n, k, x)'
      BY <1>6, <2>2, StaysLogged
    <2>4. End' - 2 = n - 1 /\ End' - 1 = n
      BY <1>e
    <2> QED
      BY <1>1, <1>e, <2>1, <2>3, <2>4 DEF EventsFit
  <1> QED
    BY <1>7, <1>8, <1>9, <1>10, <1>11, <1>12 DEF ChainConsistent

LEMMA RecordVerdictStep ==
    ASSUME TypedChain, ChainConsistent, RecordVerdict
    PROVE  ChainConsistent'
  <1>1. /\ ContextFits /\ OutputFits /\ VerdictFits /\ EventsFit
        /\ pc = "record_verdict" /\ pc' = "save_checkpoint"
        /\ UNCHANGED <<checkpoint, memory, at, context, branch, input, output>>
    BY Standing DEF RecordVerdict
  <1>2. PICK n \in Nat : n = Len(transcript)
    BY DEF TypedChain
  <1>3. PICK k \in 1 .. 6 : k = at
    BY <1>1, SliceEvents
  <1>x. PICK x : x = output
    OBVIOUS
  <1>v. PICK v \in Verdicts \ (IF at = 2 THEN {"raised"} ELSE {}) :
            /\ verdict' = v
            /\ Log(Event("verifier_result", Verifier(at), NextStep,
                         IF v = "raised" THEN "unverified" ELSE v))
    BY DEF RecordVerdict
  <1>w. /\ v \in {"pass", "fail", "unverified", "raised"}
        /\ v = "pass" /\ branch = "act" =>
              output \notin NoOutput \cup {"unsound"} /\ (at > 3 => output = input)
        /\ v = "fail" =>
              branch = "act" /\ output \notin NoOutput
              /\ (output = "unsound" \/ (at > 3 /\ output # input))
        /\ v = "unverified" => branch = "act" /\ output \in NoOutput /\ at # 2
        /\ v = "raised" => at # 2
    BY <1>1, VerifierSays
  <1>s. PICK status \in {"pass", "fail", "unverified"} :
            status = IF v = "raised" THEN "unverified" ELSE v
    BY <1>w
  <1> DEFINE e == Event("verifier_result", Verifier(k), k, status)
  <1>4. e \in ChainEvents /\ Log(e)
    BY <1>1, <1>3, <1>v, <1>s, SliceEvents
  <1>5. e.type = "verifier_result" /\ e.name = Verifier(k) /\ e.step = k /\ e.status = status
    BY DEF Event
  <1> HIDE DEF e
  <1>6. Log1(e, n) /\ ~TriageRequest(e)
    BY <1>2, <1>4, <1>5, Logged DEF TypedChain, TriageRequest
  <1>7. FilesSound'
    BY <1>1, <1>2, <1>4, <1>5, LoggedFiles DEF ChainConsistent
  <1>8. ToolsReturnOnce'
    BY <1>1, <1>2, <1>5, <1>6, QuietReturns DEF ChainConsistent, Waiting, BeforeTool
  <1>9. ContextFits'
    BY <1>1 DEF ContextFits, Fits, This
  <1>e. End = n /\ End' = n + 1 /\ at' = k /\ branch' = branch /\ output' = x /\ input' = input
    BY <1>1, <1>2, <1>3, <1>x, <1>6 DEF End, Log1
  <1>10. OutputFits'
    <2>1. (\E begin \in RunOf(n) : Leads(k, begin, n)) =>
             (\E begin \in RunOf(n + 1)' : Leads(k, begin, n + 1)')
      BY <1>6, StaysGrounded
    <2>2. IF branch # "act" THEN x = "none"
          ELSE /\ x \in OutputsOf(k)
               /\ k > 3 /\ x = "supported" /\ input = "supported" =>
                     \E begin \in RunOf(n) : Leads(k, begin, n)
      BY <1>1, <1>3, <1>x, <1>e DEF OutputFits, BeforeTool
    <2>3. pc' = "save_checkpoint"
      BY <1>1
    <2> QED
      BY <1>e, <2>1, <2>2, <2>3 DEF OutputFits, BeforeTool
  <1>11. VerdictFits' /\ LoadFits'
    BY <1>1, <1>v, <1>w DEF VerdictFits, LoadFits, Deciding
  <1>12. EventsFit'
    <2>1. Judged(n + 1, k, status)'
      BY <1>5, <1>6 DEF Judged, Log1, Positions, Verifier
    <2>2. /\ AskedVerifier(n, k) /\ n \in 1 .. n
          /\ branch = "act" =>
                Asked(n - 2, k) /\ Answered(n - 1, k, x) /\ n - 2 \in 1 .. n /\ n - 1 \in 1 .. n
      BY <1>1, <1>2, <1>3, <1>x, <1>e DEF EventsFit, Asked, Answered, AskedVerifier, Positions, End
    <2>3. /\ AskedVerifier(n, k)'
          /\ branch = "act" => Asked(n - 2, k)' /\ Answered(n - 1, k, x)'
      BY <1>6, <2>2, StaysLogged
    <2>4. End' - 3 = n - 2 /\ End' - 2 = n - 1 /\ End' - 1 = n
      BY <1>e
    <2>5. Status' = status
      BY <1>v, <1>s DEF Status
    <2> QED
      BY <1>1, <1>e, <2>1, <2>3, <2>4, <2>5 DEF EventsFit
  <1> QED
    BY <1>7, <1>8, <1>9, <1>10, <1>11, <1>12 DEF ChainConsistent

LEMMA SaveCheckpointStep ==
    ASSUME TypedChain, ChainConsistent, SaveCheckpoint
    PROVE  ChainConsistent'
  <1>1. /\ ContextFits /\ OutputFits /\ VerdictFits /\ EventsFit /\ Deciding
        /\ pc = "save_checkpoint" /\ pc' = "mark_checkpoint" /\ checkpoint' = SliceCheckpoint
        /\ UNCHANGED <<transcript, memory, slice>>
    BY Standing DEF SaveCheckpoint, Deciding
  <1>2. PICK n \in Nat : n = Len(transcript)
    BY DEF TypedChain
  <1>3. PICK k \in 1 .. 6 : k = at
    BY <1>1, SliceEvents
  <1>4. FilesSound'
    <2>1. Fits(SliceCheckpoint)
      BY <1>1, OutcomeFits
    <2>2. End \in Positions /\ transcript[End].type = "verifier_result"
      BY <1>1 DEF EventsFit, Judged
    <2>3. ASSUME SliceCheckpoint.phase = "evidence_reading_completed"
          PROVE  \E i \in LatestOf({j \in Positions : IsResult(j, 3)}) :
                    transcript[i].output \in Claims
      <3>1. 3 \in 2 .. Last /\ SliceCheckpoint.phase \in ClaimPhases(3)
        BY <2>3, SliceTable DEF ClaimPhases, ConsumableClaims, Claims, EvidenceSlice
      <3>2. at = 3 /\ branch = "act" /\ output \in Claims
        BY <1>1, <3>1, OutcomeFits DEF ConsumableClaims
      <3>3. /\ Answered(n - 2, 3, output) /\ AskedVerifier(n - 1, 3)
            /\ transcript[n].type = "verifier_result" /\ n - 2 \in 1 .. n
        BY <1>1, <1>2, <2>2, <3>2 DEF EventsFit, End, Answered, Positions
      <3>4. IsResult(n - 2, 3) /\ ~IsResult(n - 1, 3) /\ ~IsResult(n, 3)
        BY <3>3 DEF Answered, Returns, AskedVerifier, IsResult
      <3> DEFINE S == {j \in Positions : IsResult(j, 3)}
      <3>5. n - 2 \in S /\ S \in SUBSET Int /\ \A j \in S : j <= n - 2
        <4>1. \A j \in S : j \in 1 .. n /\ j # n - 1 /\ j # n
          BY <1>2, <3>4 DEF Positions
        <4> QED
          BY <1>2, <3>3, <3>4, <4>1 DEF Positions
      <3>6. LatestOf(S) = {n - 2}
        <4> HIDE DEF S
        <4> QED
          BY <3>5, LatestIs
      <3> QED
        BY <3>2, <3>3, <3>6 DEF Answered, Returns
    <2> QED
      BY <1>1, <2>1, <2>2, <2>3, SavedFiles DEF ChainConsistent
  <1>5. /\ RunOf(End)' = RunOf(End) /\ End' = End /\ Positions' = Positions
        /\ \A i : InThisRun(i)' <=> InThisRun(i)
        /\ \A i : \A j : IsResult(i, j)' <=> IsResult(i, j)
    BY <1>1, SameRun
  <1>6. ToolsReturnOnce'
    BY <1>1, <1>5 DEF ToolsReturnOnce, ChainConsistent, Waiting, BeforeTool, slice
  <1>7. SliceCheckpoint' = SliceCheckpoint
    BY <1>1 DEF SliceCheckpoint, slice, This, NextStep, Outcome, ArtifactFailure, ApprovalAfter
  <1>8. ContextFits'
    BY <1>1, <1>7 DEF ContextFits, Fits, slice, This
  <1>9. OutputFits'
    <2>1. (\E begin \in RunOf(n) : Leads(k, begin, n)) =>
                 (\E begin \in RunOf(n)' : Leads(k, begin, n)')
      BY <1>1, <1>2, SameGrounded DEF TypedChain
    <2>2. branch = "act" =>
             /\ output \in OutputsOf(k)
             /\ k > 3 /\ output = "supported" /\ input = "supported" =>
                   \E begin \in RunOf(n) : Leads(k, begin, n)
      BY <1>1, <1>2, <1>3 DEF OutputFits, BeforeTool, End
    <2>3. End' = n /\ at' = k /\ pc' = "mark_checkpoint" /\ branch' = branch /\ output' = output
          /\ input' = input /\ (branch # "act" => output = "none")
      BY <1>1, <1>2, <1>3 DEF End, slice, OutputFits
    <2> QED
      BY <2>1, <2>2, <2>3 DEF OutputFits, BeforeTool
  <1>10. VerdictFits' /\ LoadFits'
    BY <1>1 DEF VerdictFits, LoadFits, Deciding, slice
  <1>11. EventsFit'
    BY <1>1 DEF EventsFit, slice, Asked, Answered, AskedVerifier, Judged, Status, End, Positions,
       IsRequest, Returns, Tool, Verifier
  <1> QED
    BY <1>4, <1>6, <1>8, <1>9, <1>10, <1>11 DEF ChainConsistent

\* Once its marker is written a slice hands over to the next one.
LEMMA ProceedStep ==
    ASSUME TypedChain, ContextFits, OutputFits, VerdictFits, Deciding, FilesSound', Proceed,
           transcript' \in Seq(ChainEvents), checkpoint = SliceCheckpoint, UNCHANGED checkpoint,
           NEW n \in Nat, n = Len(transcript'), Marks(n, checkpoint)',
           NEW k \in 1 .. 6, k = at, NEW x, x = output,
           branch = "act" => Answered(n - 3, k, x)',
           RunOf(n)' # {},
           \A i \in 1 .. n, j \in 1 .. Last : IsResult(i, j)' /\ InThisRun(i)' =>
               j < k \/ (j = k /\ transcript'[i].output = x)
    PROVE  ChainConsistent'
  <1>1. CASE at = Last
    BY <1>1, EndedChain DEF Proceed
  <1>2. CASE at # Last
    <2>1. /\ at' = k + 1 /\ k \in 1 .. 5 /\ pc' = "load" /\ branch' = "none" 
          /\ End' = n /\ Positions' = 1 .. n
      BY <1>2, SliceTable DEF Proceed, Enter, End, Positions
    <2>2. LoadFits'
      <3>1. checkpoint.step = k
        BY SliceEvents DEF SliceCheckpoint
      <3> QED
        BY <2>1, <3>1, SliceTable DEF LoadFits
    <2>3. checkpoint.phase \in Slices[k + 1].consumes => branch = "act"
      <3>1. CASE k = 1
        BY <3>1 DEF ContextFits
      <3>2. CASE k # 1
        <4>1. k \in 2 .. Last /\ Slices[k + 1].consumes = ClaimPhases(k)
          BY <2>1, <3>2, SliceTable DEF ClaimPhases, ConsumableClaims, Claims, EvidenceSlice,
             FollowUpSlice, HypothesisSlice, RecommendationSlice, ActionStubSlice,
             FOLLOW_UP_TARGET_COMPATIBLE_PHASES, EVIDENCE_COMPATIBLE_PHASES,
             HYPOTHESIS_COMPATIBLE_PHASES, RECOMMENDATION_COMPATIBLE_PHASES
        <4> QED
          BY <4>1, OutcomeFits
      <3> QED
        BY <3>1, <3>2
    <2>4. ToolsReturnOnce'
      <3>1. ASSUME NEW i \in 1 .. n, NEW j \in 1 .. Last, IsResult(i, j)', InThisRun(i)'
            PROVE  /\ j < k + 1
                   /\ j = k /\ checkpoint'.phase \in Slices[k + 1].consumes =>
                         transcript'[i].output = transcript'[n - 3].output
        <4>1. j < k \/ (j = k /\ transcript'[i].output = x)
          BY <3>1
        <4>2. branch = "act" => transcript'[n - 3].output = x
          BY DEF Answered, Returns
        <4>3. j \in Nat
          BY SliceTable
        <4> QED
          BY <2>3, <4>1, <4>2, <4>3
      <3>2. k + 1 - 1 = k
        OBVIOUS
      <3>3. This' = Slices[k + 1]
        BY <2>1 DEF This
      <3> QED
        BY <2>1, <3>1, <3>2, <3>3 DEF ToolsReturnOnce
    <2> QED
      BY <2>1, <2>2, <2>4 DEF ChainConsistent
  <1> QED
    BY <1>1, <1>2

\* A stub whose builder kept to its recommendation leaves a start state.
LEMMA StubMarker ==
    ASSUME TypedChain, ToolsReturnOnce, ContextFits, OutputFits, VerdictFits, EventsFit,
           pc = "mark_checkpoint", at = 6, NEW n \in Nat, n = Len(transcript),
           NEW e, Log1(e, n), ~TriageRequest(e), StubSound(n + 1)'
    PROVE  StubStarts
  <1>0. Deciding /\ checkpoint = SliceCheckpoint /\ at > 3 /\ Last = 6 /\ ~Waiting /\ ~BeforeTool
    BY SliceTable DEF Deciding, ContextFits, Waiting, BeforeTool
  <1>1. PICK begin \in RunOf(n) : begin \in 1 .. n /\ begin \in RunOf(n + 1)'
                                  /\ \A q \in 1 .. n : IsRequest(q, 1) => q <= begin
    <2>1. RunOf(n) # {} /\ RunOf(n + 1)' = RunOf(n) /\ RunOf(n) \subseteq 1 .. n
      BY <1>0, RunGoesOn DEF ToolsReturnOnce, End
    <2> QED
      BY <2>1 DEF RunOf, LatestOf
  <1>2. IsRequest(begin, 1)
    BY <1>1 DEF RunOf, LatestOf
  <1>3. Judged(n, 6, Status) /\ n \in 1 .. n
    BY <1>0 DEF EventsFit, End, Judged, Positions
  <1>4. \A i \in 1 .. n : transcript'[i] = transcript[i]
    BY DEF Log1
  <1>5. /\ \A i \in begin .. n + 1 :
              transcript'[i].type = "tool_result" /\ transcript'[i].name = Tool(6) =>
                 \E r \in begin .. i : Returns(r, 5, transcript[i].output)'
        /\ \A i \in begin .. n + 1 :
              transcript'[i].type = "verifier_result" /\ transcript'[i].name = Verifier(6) =>
                 transcript'[i].status # "unverified"
    BY <1>0, <1>1 DEF StubSound, Tool, Verifier
  <1>6. Status # "unverified"
    <2>1. n \in begin .. n + 1
      BY <1>1
    <2> QED
      BY <1>3, <1>4, <1>5, <2>1 DEF Judged
  <1>7. verdict \in {"pass", "fail"} /\ (branch # "act" => verdict = "pass")
    BY <1>0, <1>6 DEF VerdictFits, Status
  <1>8. branch = "act" => output = input /\ output \in Claims
    <2> SUFFICES ASSUME branch = "act" PROVE output = input /\ output \in Claims
      OBVIOUS
    <2>1. Answered(n - 2, 6, output) /\ n - 2 \in 1 .. n /\ ~IsRequest(n - 1, 1) /\ ~IsRequest(n, 1)
      BY <1>0, <1>3 DEF EventsFit, End, Answered, AskedVerifier, Judged, Positions, IsRequest
    <2>2. ~IsRequest(n - 2, 1)
      BY <2>1 DEF Answered, Returns, IsRequest
    <2>3. n - 2 \in begin .. n + 1
      BY <1>1, <1>2, <2>1, <2>2
    <2>4. PICK r \in begin .. n - 2 : Returns(r, 5, transcript[n - 2].output)'
      BY <1>4, <1>5, <2>1, <2>3 DEF Answered, Returns
    <2>5. /\ r \in 1 .. n /\ IsResult(r, 5) /\ transcript[r].output = output
      BY <1>1, <1>4, <2>1, <2>4 DEF Answered, Returns, IsResult, Tool
    <2>6. InThisRun(r)
      <3>1. \A q \in r + 1 .. n : q \in 1 .. n /\ ~(q <= begin)
        BY <1>1, <2>4, <2>5
      <3> QED
        BY <1>1, <3>1 DEF InThisRun, End
    <2>7. output = input
      <3>1. 5 = at - 1 /\ 5 \in 1 .. Last /\ r \in Positions
        BY <1>0, <2>5 DEF Positions
      <3> QED
        BY <1>0, <2>5, <2>6, <3>1 DEF ToolsReturnOnce
    <2> QED
      BY <1>0, <2>7 DEF ContextFits
  <1>9. ~ArtifactFailure
    BY <1>0, <1>7, <1>8 DEF ArtifactFailure, ContextFits, OutputFits, Claims
  <1>10. verdict = "pass"
    BY <1>0, <1>7, <1>8 DEF VerdictFits, Claims
  <1>11. CASE branch = "act"
    <2>1. Outcome = output
      BY <1>9, <1>10, <1>11 DEF Outcome
    <2>2. SliceCheckpoint.phase = IF output = "supported" THEN "action_stub_pending_approval"
                                                          ELSE "action_stub_not_actionable"
      BY <1>8, <1>11, <2>1, SliceTable DEF SliceCheckpoint, This, ActionStubSlice, Claims
    <2>3. SliceCheckpoint.approval = IF output = "supported" THEN "pending" ELSE "none"
      BY <1>0, <1>8, <1>9, <1>11 DEF SliceCheckpoint, ApprovalAfter, NoOutput, Claims
    <2> QED
      BY <1>0, <2>2, <2>3 DEF StubStarts
  <1>12. CASE branch # "act"
    <2>1. Outcome \in {"not_applicable", "deferred"} /\ Outcome \in DOMAIN ActionStubSlice.phases
      BY <1>0, <1>9, <1>10, <1>12, OutcomeClaims, SliceTable DEF Outcome, This
    <2>2. Outcome = "deferred"
      BY <2>1 DEF ActionStubSlice
    <2>3. SliceCheckpoint.phase = "action_stub_deferred"
      BY <2>2, SliceTable DEF SliceCheckpoint, This, ActionStubSlice
    <2>4. SliceCheckpoint.approval = "none"
      BY <1>0, <1>12 DEF SliceCheckpoint, ApprovalAfter, OutputFits
    <2> QED
      BY <1>0, <2>3, <2>4 DEF StubStarts
  <1> QED
    BY <1>11, <1>12

\* The marker of the running slice tells of its checkpoint.
LEMMA MarkerSpeaks ==
    ASSUME TypedChain, ToolsReturnOnce, ContextFits, OutputFits, VerdictFits, EventsFit,
           pc = "mark_checkpoint", UNCHANGED checkpoint, NEW n \in Nat, n = Len(transcript),
           NEW e, Log1(e, n), e = Marker(SliceCheckpoint, NextStep)
    PROVE  SpeaksFor(n + 1)'
  <1>0. Deciding /\ checkpoint = SliceCheckpoint /\ ~Waiting /\ ~BeforeTool
    BY DEF Deciding, ContextFits, Waiting, BeforeTool
  <1>1. PICK k \in 1 .. 6 : k = at
    BY SliceEvents
  <1>x. PICK x : x = output
    OBVIOUS
  <1>2. /\ e.type = "checkpoint_written" /\ e.name = SliceCheckpoint.id.name
        /\ e.stamp = SliceCheckpoint.id.stamp /\ e.step = k /\ e.status = SliceCheckpoint.phase
        /\ SliceCheckpoint.step = k
    BY <1>1, SliceEvents DEF Marker, SliceCheckpoint
  <1>3. ~TriageRequest(e)
    BY <1>2 DEF TriageRequest
  <1>4. Marks(n + 1, checkpoint)'
    BY <1>0, <1>2 DEF Marks, Log1, Positions
  <1>5. ASSUME NEW j \in 2 .. Last, checkpoint.phase \in ClaimPhases(j)
        PROVE  /\ j = k /\ x \in ConsumableClaims(k) /\ Produced(n + 1, k, x)'
               /\ checkpoint.phase = Slices[k].phases[x]
               /\ x = "supported" => Grounded(k, n + 1)'
    <2>1. /\ j = k /\ branch = "act" /\ verdict = "pass" /\ x \in ConsumableClaims(k)
          /\ checkpoint.phase = Slices[k].phases[x]
      BY <1>0, <1>1, <1>x, <1>5, OutcomeFits
    <2>2. /\ Asked(n - 3, k) /\ Answered(n - 2, k, x) /\ AskedVerifier(n - 1, k)
          /\ Judged(n, k, "pass")
      BY <1>1, <1>x, <2>1 DEF EventsFit, End, Status
    <2>3. n - 3 \in 1 .. n /\ n - 2 \in 1 .. n /\ n - 1 \in 1 .. n /\ n \in 1 .. n
      BY <2>2 DEF Asked, Positions
    <2>4. Produced(n + 1, k, x)'
      <3>1. /\ Asked(n - 3, k)' /\ Answered(n - 2, k, x)' /\ AskedVerifier(n - 1, k)'
            /\ Judged(n, k, "pass")'
        BY <2>2, <2>3, StaysLogged
      <3>2. /\ (n + 1) - 4 = n - 3 /\ (n + 1) - 3 = n - 2 /\ (n + 1) - 2 = n - 1
            /\ (n + 1) - 1 = n
        OBVIOUS
      <3>3. transcript'[n + 1].type = "checkpoint_written"
        BY <1>2 DEF Log1
      <3> QED
        BY <3>1, <3>2, <3>3 DEF Produced
    <2>5. ASSUME x = "supported" PROVE Grounded(k, n + 1)'
      <3>1. k \in 3 .. Last
        BY <1>5, <2>1, <2>5, SliceTable DEF ConsumableClaims
      <3>2. \E begin \in RunOf(n) : Leads(k, begin, n)
        <4>1. CASE k = 3
          <5>1. RunOf(n) # {}
            BY <1>0 DEF ToolsReturnOnce, End
          <5> QED
            BY <4>1, <5>1 DEF Leads
        <4>2. CASE k # 3
          BY <1>0, <1>1, <1>x, <2>1, <2>5, <3>1, <4>2 DEF VerdictFits, OutputFits, End
        <4> QED
          BY <4>1, <4>2
      <3>3. /\ IsRequest(n - 3, k) /\ Returns(n - 2, k, "supported")
            /\ transcript[n - 1].type = "verifier_request" /\ IsPass(n, k)
        BY <2>2, <2>5 DEF Asked, Answered, AskedVerifier, Judged, IsPass
      <3> QED
        BY <1>3, <2>3, <3>1, <3>2, <3>3, MarkerGrounds
    <2> QED
      BY <2>1, <2>4, <2>5
  <1>6. checkpoint.step = Last /\ StubSound(n + 1)' => StubStarts
    BY <1>0, <1>1, <1>2, <1>3, SliceTable, StubMarker
  <1> QED
    BY <1>4, <1>5, <1>6 DEF SpeaksFor, StubStarts, ClaimPhases, ConsumableClaims

LEMMA MarkCheckpointStep ==
    ASSUME TypedChain, ChainConsistent, MarkCheckpoint
    PROVE  ChainConsistent'
  <1>1. /\ ContextFits /\ OutputFits /\ VerdictFits /\ EventsFit /\ ToolsReturnOnce /\ FilesSound
        /\ pc = "mark_checkpoint" /\ Deciding /\ ~Waiting /\ ~BeforeTool
        /\ checkpoint = SliceCheckpoint /\ UNCHANGED <<checkpoint, memory>>
    BY Standing
    DEF MarkCheckpoint, ChainConsistent, Deciding, Waiting, BeforeTool, ContextFits
  <1>2. PICK n \in Nat : n = Len(transcript)
    BY DEF TypedChain
  <1>3. PICK k \in 1 .. 6 : k = at
    BY <1>1, SliceEvents
  <1>x. PICK x : x = output
    OBVIOUS
  <1>4. PICK e \in ChainEvents : e = Marker(SliceCheckpoint, NextStep) /\ Log(e)
    BY <1>1, MarkerTyped DEF MarkCheckpoint
  <1>5. Log1(e, n) /\ transcript' \in Seq(ChainEvents) /\ e.type = "checkpoint_written"
        /\ ~TriageRequest(e)
    BY <1>2, <1>4, Logged DEF TypedChain, TriageRequest, Marker
  <1>6. SpeaksFor(n + 1)'
    BY <1>1, <1>2, <1>4, <1>5, MarkerSpeaks
  <1>7. FilesSound'
    BY <1>1, <1>2, <1>4, <1>6, MarkedFiles
  <1>8. Marks(n + 1, checkpoint)'
    BY <1>6 DEF SpeaksFor
  <1>9. /\ Judged(n, k, Status)
        /\ branch = "act" =>
              /\ Asked(n - 3, k) /\ Answered(n - 2, k, x) /\ AskedVerifier(n - 1, k)
              /\ n - 3 \in 1 .. n /\ n - 2 \in 1 .. n /\ n - 1 \in 1 .. n
        /\ n \in 1 .. n
    BY <1>1, <1>2, <1>3, <1>x DEF EventsFit, End, Asked, Answered, AskedVerifier, Judged, Positions
  <1>s. PICK status : status = Status
    OBVIOUS
  <1>10. /\ Judged(n, k, status)'
         /\ branch = "act" => Asked(n - 3, k)' /\ Answered(n - 2, k, x)' /\ AskedVerifier(n - 1, k)'
    BY <1>5, <1>9, <1>s, StaysLogged
  <1>11. CASE MemoryDue
    <2>1. pc' = "write_memory" /\ UNCHANGED slice /\ branch = "act"
      BY <1>1, <1>11 DEF MarkCheckpoint, MemoryDue, OutputFits, NoOutput
    <2>2. ToolsReturnOnce'
      BY <1>1, <1>2, <1>5, <2>1, QuietReturns DEF slice, BeforeTool
    <2>3. SliceCheckpoint' = SliceCheckpoint
      BY <2>1 DEF SliceCheckpoint, slice, This, NextStep, Outcome, ArtifactFailure, ApprovalAfter
    <2>4. ContextFits'
      BY <1>1, <2>1, <2>3 DEF ContextFits, Fits, slice, This
    <2>5. End = n /\ End' = n + 1 /\ at' = k /\ branch' = branch /\ output' = x /\ input' = input
      BY <1>2, <1>3, <1>x, <1>5, <2>1 DEF slice, End, Log1
    <2>6. OutputFits'
      <3>1. (\E begin \in RunOf(n) : Leads(k, begin, n)) =>
               (\E begin \in RunOf(n + 1)' : Leads(k, begin, n + 1)')
        BY <1>5, StaysGrounded
      <3>2. /\ x \in OutputsOf(k)
            /\ k > 3 /\ x = "supported" /\ input = "supported" =>
                  \E begin \in RunOf(n) : Leads(k, begin, n)
        BY <1>1, <1>3, <1>x, <2>1, <2>5 DEF OutputFits
      <3> QED
        BY <2>1, <2>5, <3>1, <3>2 DEF OutputFits, BeforeTool
    <2>7. VerdictFits' /\ LoadFits'
      BY <1>1, <2>1 DEF VerdictFits, LoadFits, Deciding, slice
    <2>8. EventsFit'
      <3>1. /\ End' - 4 = n - 3 /\ End' - 3 = n - 2 /\ End' - 2 = n - 1 /\ End' - 1 = n
        BY <2>5
      <3>2. Status' = status /\ MemoryDue' /\ pc' = "write_memory"
        BY <1>s, <1>11, <2>1 DEF Status, MemoryDue, slice
      <3>3. Marks(End, SliceCheckpoint)'
        BY <1>1, <1>8, <2>3, <2>5
      <3> QED
        BY <1>10, <2>1, <2>5, <3>1, <3>2, <3>3 DEF EventsFit
    <2> QED
      BY <1>7, <2>2, <2>4, <2>6, <2>7, <2>8 DEF ChainConsistent
  <1>12. CASE ~MemoryDue
    <2>1. Proceed
      BY <1>12 DEF MarkCheckpoint
    <2>2. /\ RunOf(n + 1)' = RunOf(n) /\ End = n
          /\ Positions = 1 .. n /\ \A i \in 1 .. n : InThisRun(i)' <=> InThisRun(i)
      BY <1>5, RunGoesOn
    <2>3. RunOf(n + 1)' # {}
      BY <1>1, <2>2 DEF ToolsReturnOnce
    <2>4. ASSUME NEW i \in 1 .. n + 1, NEW j \in 1 .. Last, IsResult(i, j)', InThisRun(i)'
          PROVE  j < k \/ (j = k /\ transcript'[i].output = x)
      <3>1. i # n + 1
        BY <1>5, <2>4 DEF IsResult, Log1
      <3>2. i \in 1 .. n /\ transcript'[i] = transcript[i]
        BY <1>5, <3>1 DEF Log1
      <3>3. IsResult(i, j) /\ InThisRun(i)
        BY <2>2, <2>4, <3>2 DEF IsResult, Tool
      <3> QED
        BY <1>1, <1>3, <1>x, <2>2, <3>2, <3>3 DEF ToolsReturnOnce
    <2>5. (n + 1) - 3 = n - 2 /\ n + 1 \in Nat /\ n + 1 = Len(transcript')
      BY <1>5 DEF Log1
    <2> QED
      BY <1>1, <1>3, <1>x, <1>5, <1>7, <1>8, <1>10, <2>1, <2>3, <2>4, <2>5, ProceedStep
  <1> QED
    BY <1>11, <1>12

LEMMA WriteMemoryStep ==
    ASSUME TypedChain, ChainConsistent, WriteMemory
    PROVE  ChainConsistent'
  <1>1. /\ ContextFits /\ OutputFits /\ VerdictFits /\ EventsFit /\ ToolsReturnOnce /\ FilesSound
        /\ pc = "write_memory" /\ Deciding /\ ~Waiting /\ ~BeforeTool /\ MemoryDue
        /\ checkpoint = SliceCheckpoint /\ UNCHANGED <<checkpoint, transcript>> /\ Proceed
    BY Standing
    DEF WriteMemory, ChainConsistent, Deciding, Waiting, BeforeTool, ContextFits, EventsFit
  <1>2. PICK n \in Nat : n = Len(transcript)
    BY DEF TypedChain
  <1>3. PICK k \in {4, 5} : k = at
    BY <1>1 DEF MemoryDue
  <1>x. PICK x : x = output
    OBVIOUS
  <1>4. branch = "act" /\ verdict = "pass"
    BY <1>1 DEF MemoryDue, OutputFits, NoOutput
  <1>5. /\ Asked(n - 4, k) /\ Answered(n - 3, k, x) /\ AskedVerifier(n - 2, k)
        /\ Judged(n - 1, k, "pass") /\ Marks(n, SliceCheckpoint)
    BY <1>1, <1>2, <1>3, <1>4, <1>x DEF EventsFit, End, Status
  <1>6. n - 4 \in 1 .. n /\ n - 3 \in 1 .. n /\ n - 2 \in 1 .. n /\ n - 1 \in 1 .. n /\ n \in 1 .. n
    BY <1>5 DEF Asked, Positions
  <1>7. MemoryIsBacked'
    <2>1. /\ transcript'[n].type = "checkpoint_written"
          /\ transcript'[n].name = memory'.source /\ memory'.source = Slices[k].id
          /\ transcript'[n].status = memory'.phase /\ memory'.claim = x
      BY <1>1, <1>3, <1>x, <1>5 DEF WriteMemory, Marks, SliceCheckpoint, This
    <2>2. IsPass(n - 1, k)' /\ Returns(n - 3, k, x)'
      BY <1>1, <1>5 DEF Judged, Answered, Returns, IsPass, Tool, Verifier
    <2>3. \A i \in n - 3 .. n - 1 : transcript'[i].type # "checkpoint_written"
      <3>1. \A i \in n - 3 .. n - 1 : i \in {n - 3, n - 2, n - 1}
        OBVIOUS
      <3> QED
        BY <1>1, <1>5, <3>1 DEF Judged, Answered, AskedVerifier, Returns
    <2>4. n \in Positions' /\ n - 1 \in 1 .. n /\ n - 3 \in 1 .. n - 1
      BY <1>1, <1>2, <1>6 DEF Positions
    <2> QED
      BY <2>1, <2>2, <2>3, <2>4 DEF MemoryIsBacked
  <1>8. FilesSound'
    BY <1>1, <1>7, SameRecord
  <1>9. Marks(n, checkpoint)' /\ Answered(n - 3, k, x)'
    BY <1>1, <1>5 DEF Marks, Answered, Returns, Positions, Tool
  <1>10. /\ RunOf(End)' = RunOf(End) /\ End' = End /\ Positions' = Positions
         /\ \A i : InThisRun(i)' <=> InThisRun(i)
         /\ \A i : \A j : IsResult(i, j)' <=> IsResult(i, j)
    BY <1>1, SameRun
  <1>11. RunOf(n)' # {}
    <2>1. RunOf(End)' # {} /\ End' = n
      BY <1>1, <1>2, <1>10 DEF ToolsReturnOnce, End
    <2> QED
      BY <2>1
  <1>12. ASSUME NEW i \in 1 .. n, NEW j \in 1 .. Last, IsResult(i, j)', InThisRun(i)'
         PROVE  j < k \/ (j = k /\ transcript'[i].output = x)
    BY <1>1, <1>2, <1>3, <1>x, <1>10, <1>12 DEF ToolsReturnOnce, Positions
  <1>13. n = Len(transcript') /\ transcript' \in Seq(ChainEvents) /\ k \in 1 .. 6
    BY <1>1, <1>2 DEF TypedChain
  <1> QED
    BY <1>1, <1>3, <1>x, <1>8, <1>9, <1>11, <1>12, <1>13, ProceedStep

LEMMA IdleStep ==
    ASSUME TypedChain, ChainConsistent, UNCHANGED chainVars
    PROVE  ChainConsistent'
  <1>1. UNCHANGED <<checkpoint, transcript, memory, pc, at,
                     context, branch, input, output, verdict>>
    BY DEF chainVars, files, slice
  <1>2. FilesSound'
    BY <1>1, SameFiles DEF ChainConsistent, files
  <1>3. /\ RunOf(End)' = RunOf(End) /\ End' = End /\ Positions' = Positions
        /\ \A i : InThisRun(i)' <=> InThisRun(i)
        /\ \A i : \A j : IsResult(i, j)' <=> IsResult(i, j)
    BY <1>1, SameRun
  <1>4. ToolsReturnOnce' /\ LoadFits'
    BY <1>1, <1>3 DEF ChainConsistent, ToolsReturnOnce, Waiting, BeforeTool, This, LoadFits, Marks
  <1>5. ASSUME pc \notin {"idle", "load"}
        PROVE  ContextFits' /\ OutputFits' /\ VerdictFits' /\ EventsFit'
    <2>1. ContextFits /\ OutputFits /\ VerdictFits /\ EventsFit
      BY <1>5, Standing
    <2>2. PICK n \in Nat : n = Len(transcript)
      BY DEF TypedChain
    <2>3. PICK k \in 1 .. 6 : k = at
      BY <2>1, SliceEvents
    <2>4. SliceCheckpoint' = SliceCheckpoint
      BY <1>1 DEF SliceCheckpoint, This, NextStep, Outcome, ArtifactFailure, ApprovalAfter
    <2>5. ContextFits' /\ VerdictFits'
      BY <1>1, <2>1, <2>4 DEF ContextFits, Fits, This, VerdictFits, Deciding
    <2>6. OutputFits'
      <3>1. /\ Grounded(k - 1, n) <=> Grounded(k - 1, n)'
            /\ (\E begin \in RunOf(n) : Leads(k, begin, n)) =>
                  (\E begin \in RunOf(n)' : Leads(k, begin, n)')
        BY <1>1, <2>2, SameGrounded DEF TypedChain
      <3>2. IF BeforeTool \/ branch # "act"
            THEN /\ output = "none"
                 /\ BeforeTool => branch = "act"
                 /\ BeforeTool /\ k > 3 /\ input = "supported" => Grounded(k - 1, n)
            ELSE /\ output \in OutputsOf(k)
                 /\ k > 3 /\ output = "supported" /\ input = "supported" =>
                       \E begin \in RunOf(n) : Leads(k, begin, n)
        BY <2>1, <2>2, <2>3 DEF OutputFits, End
      <3>3. End' = n /\ at' = k /\ (BeforeTool' <=> BeforeTool)
        BY <1>1, <2>2, <2>3 DEF End, BeforeTool
      <3> QED
        BY <1>1, <3>1, <3>2, <3>3 DEF OutputFits
    <2>7. EventsFit'
      BY <1>1, <2>1, <2>4 DEF EventsFit, Asked, Answered, AskedVerifier, Judged, Marks, Status, End,
         Positions, IsRequest, Returns, Tool, Verifier, MemoryDue
    <2> QED
      BY <2>5, <2>6, <2>7
  <1> QED
    BY <1>1, <1>2, <1>4, <1>5 DEF ChainConsistent

-----------------------------------------------------------------------------
(* The theorems *)

LEMMA InitChain == Init => TypedChain /\ ChainConsistent
  <1> SUFFICES ASSUME Init PROVE TypedChain /\ ChainConsistent
    OBVIOUS
  <1>1. TypedChain
    BY EmptyTyped, SliceTable, ChainBoundsAssumption
    DEF Init, TypedChain, VariablesTyped, ChainLabels
  <1>2. Fits(checkpoint) /\ MemoryIsBacked
    BY DEF Init, Fits, MemoryIsBacked
  <1>3. Committed = {} /\ checkpoint.phase # "evidence_reading_completed"
    BY DEF Init, Committed, CommitPoint, LatestOf, NoCheckpoint
  <1>4. FilesSound
    BY <1>2, <1>3 DEF FilesSound
  <1>5. ToolsReturnOnce /\ LoadFits
    BY DEF Init, ToolsReturnOnce, Waiting, LoadFits
  <1> QED
    BY <1>1, <1>4, <1>5 DEF Init, ChainConsistent

LEMMA NextConsistent == TypedChain /\ ChainConsistent /\ [Next]_chainVars => ChainConsistent'
  BY StartStep, EndingSteps, BeginFollowUpStep, BeginSliceStep, RequestToolStep, RunToolStep,
     RequestVerifierStep, RecordVerdictStep, SaveCheckpointStep, MarkCheckpointStep,
     WriteMemoryStep, IdleStep
  DEF Next, Run

\* The files and the running slice stay consistent, for every choice of payloads,
\* readings, faulty slices, faults and crashes: a checkpoint the loader would trust has
\* its claim on record, and the slice stands where its events say
\* (SessionArtifactContext.load, IncidentTriageStep to IncidentActionStubStep).
THEOREM ChainIsConsistent == Spec => [](TypedChain /\ ChainConsistent)
  <1>1. Init => TypedChain /\ ChainConsistent
    BY InitChain
  <1>2. TypedChain /\ ChainConsistent /\ [Next]_chainVars => (TypedChain /\ ChainConsistent)'
    BY NextTyped, NextConsistent
  <1> QED
    BY <1>1, <1>2, PTL DEF Spec

\* The variables and files keep their types: every outcome a slice can end in has a
\* phase, whatever its tool and its verifier do (_current_phase of the six slices).
THEOREM ChainTypeCorrect == Spec => []ChainTypeOK
  <1>1. TypedChain /\ ChainConsistent => ChainTypeOK
    BY CheckpointTyped DEF ChainConsistent
  <1> QED
    BY <1>1, ChainIsConsistent, PTL

\* What the loader trusts is what a marker says of this very checkpoint.
LEMMA TrustedSpeaks ==
    ASSUME TypedChain, FilesSound, Loadable(checkpoint, transcript)
    PROVE  \A n \in Committed : n \in Positions /\ n \in Nat /\ SpeaksFor(n)
  <1> SUFFICES ASSUME NEW n \in Committed PROVE n \in Positions /\ n \in Nat /\ SpeaksFor(n)
    OBVIOUS
  <1>1. n \in Positions /\ n \in Nat
    BY CommittedPositions DEF TypedChain, Positions
  <1>2. PICK m \in CommitPoint(checkpoint, transcript) : TailClass(transcript, m) # "unsafe"
    BY DEF Loadable
  <1>3. m = n
    BY <1>1, CommittedPositions DEF Committed, CommitPoint, LatestOf, TypedChain
  <1>4. \A i \in n + 1 .. End : ~UnsafeEvent(transcript[i])
    BY <1>2, <1>3 DEF TailClass, End
  <1> QED
    BY <1>1, <1>4 DEF FilesSound

\* A checkpoint the loader trusts is the one its marker describes, although every run
\* of a session reuses the ids and a crash may leave an old marker for a new file
\* (_reconcile_transcript, _classify_tail).
THEOREM TrustedCheckpointsAreMarked == Spec => []TrustedCheckpointIsMarked
  <1>1. TypedChain /\ ChainConsistent => TrustedCheckpointIsMarked
    BY TrustedSpeaks DEF ChainConsistent, SpeaksFor, Marks, TrustedCheckpointIsMarked
  <1> QED
    BY <1>1, ChainIsConsistent, PTL

\* A trusted checkpoint in a phase the next slice consumes has a whole and verified
\* artifact in its committed prefix, so that the failure branch of
\* _require_verified_record is never met.
THEOREM CompatiblePhasesHaveArtifacts == Spec => []CompatiblePhaseHasArtifact
  <1>1. ASSUME TypedChain, ChainConsistent PROVE CompatiblePhaseHasArtifact
    <2> SUFFICES ASSUME Loadable(checkpoint, transcript), NEW k \in 3 .. Last, NEW n \in Committed,
                        checkpoint.phase \in Slices[k].consumes
                 PROVE  VerifiedRecord(transcript, n, Slices[k - 1].artifact) = "artifact"
      BY DEF CompatiblePhaseHasArtifact
    <2>1. n \in Positions /\ SpeaksFor(n)
      BY <1>1, TrustedSpeaks DEF ChainConsistent
    <2>2. k - 1 \in 2 .. Last /\ k \in {3, 4, 5, 6}
      BY SliceTable
    <2>3. Slices[k].consumes = ClaimPhases(k - 1)
      BY <2>2, SliceTable DEF ClaimPhases, ConsumableClaims, Claims, EvidenceSlice,
         FollowUpSlice, HypothesisSlice, RecommendationSlice, ActionStubSlice,
         FOLLOW_UP_TARGET_COMPATIBLE_PHASES, EVIDENCE_COMPATIBLE_PHASES,
         HYPOTHESIS_COMPATIBLE_PHASES, RECOMMENDATION_COMPATIBLE_PHASES
    <2>4. PICK claim \in ConsumableClaims(k - 1) : Produced(n, k - 1, claim)
      BY <2>1, <2>2, <2>3 DEF SpeaksFor
    <2> QED
      BY <1>1, <2>1, <2>2, <2>4, ProducedRecord DEF TypedChain
  <1>2. TypedChain /\ ChainConsistent => CompatiblePhaseHasArtifact
    BY <1>1
  <1> QED
    BY <1>2, ChainIsConsistent, PTL

\* A rollback is offered for approval only when the evidence read, the hypothesis, the
\* recommendation and the stub of one run each said so and were passed in that order
\* (IncidentEvidenceStep to IncidentActionStubStep).
THEOREM CandidatesAreJustified == Spec => []CandidateIsJustified
  <1>1. ASSUME TypedChain, ChainConsistent PROVE CandidateIsJustified
    <2> SUFFICES ASSUME Loadable(checkpoint, transcript),
                        checkpoint.phase = "action_stub_pending_approval", NEW n \in Committed
                 PROVE  \E begin \in RunOf(n) :
                           /\ Established(3, begin, n) /\ Established(Last, begin, n)
                           /\ \A k \in 4 .. Last : \E r \in begin .. n :
                                 Returns(r, k, "supported") /\ Established(k - 1, begin, r)
      BY DEF CandidateIsJustified
    <2>1. n \in Nat /\ SpeaksFor(n)
      BY <1>1, TrustedSpeaks DEF ChainConsistent
    <2>2. 6 \in 2 .. Last /\ 4 \in 4 .. 6 /\ Last = 6 /\ checkpoint.phase \in ClaimPhases(6)
      BY SliceTable DEF ClaimPhases, ConsumableClaims, Claims, ActionStubSlice
    <2>3. PICK claim \in ConsumableClaims(6) :
              /\ checkpoint.phase = Slices[6].phases[claim]
              /\ claim = "supported" => Grounded(6, n)
      BY <2>1, <2>2 DEF SpeaksFor
    <2>4. claim = "supported"
      BY <2>3, SliceTable DEF ConsumableClaims, Claims, ActionStubSlice
    <2>5. PICK begin \in RunOf(n) : Leads(6, begin, n) /\ Established(6, begin, n)
      BY <2>3, <2>4 DEF Grounded
    <2>6. begin \in 1 .. n
      BY DEF RunOf, LatestOf
    <2>7. Established(3, begin, n)
      <3>1. PICK r \in begin .. n : Established(4 - 1, begin, r)
        BY <2>2, <2>5 DEF Leads
      <3>2. Established(3, begin, r)
        BY <3>1
      <3>3. \A q \in begin .. r : q \in begin .. n /\ \A p \in q .. r : p \in q .. n
        BY <2>1, <2>6
      <3> QED
        BY <3>2, <3>3 DEF Established
    <2> QED
      BY <2>2, <2>5, <2>7 DEF Leads
  <1>2. TypedChain /\ ChainConsistent => CandidateIsJustified
    BY <1>1
  <1> QED
    BY <1>2, ChainIsConsistent, PTL

\* The working memory claims nothing that no run has passed and committed, although it
\* is written after the marker and a crash may cut it off
\* (_write_incident_working_memory of the hypothesis and recommendation slices).
THEOREM MemoriesAreBacked == Spec => []MemoryIsBacked
  <1>1. ChainConsistent => MemoryIsBacked
    BY DEF ChainConsistent, FilesSound
  <1> QED
    BY <1>1, ChainIsConsistent, PTL

\* Unless the stub's own tool or verifier misbehaves, a run that reaches the stub leaves
\* a state the approval boundary starts from, and waits for an approval exactly when it
\* offers a rollback (IncidentActionStubStep._current_phase and _approval_state).
THEOREM StubsLeaveStartStates == Spec => []StubLeavesStartState
  <1>1. TypedChain /\ ChainConsistent => StubLeavesStartState
    BY TrustedSpeaks DEF ChainConsistent, SpeaksFor, StubStarts, StubLeavesStartState
  <1> QED
    BY <1>1, ChainIsConsistent, PTL

-----------------------------------------------------------------------------
(* The chain implements the pipeline *)

\* What the running slice has taken in is what the checkpoint on disk claims.
ClaimTaken ==
    pc \notin {"idle", "load", "mark_checkpoint", "write_memory"} /\ branch = "act" /\ at > 3 =>
        input = ClaimOnDisk

Readings3 == {j \in 1 .. Len(transcript) : transcript[j].type = "tool_result"
                                           /\ transcript[j].name = Tool(3)}

LEMMA ClaimUnfolded ==
    ClaimOnDisk =
      CASE checkpoint.phase = "evidence_reading_completed" ->
             transcript[CHOOSE i \in LatestOf(Readings3) : TRUE].output
        [] checkpoint.phase \in {"hypothesis_supported", "recommendation_supported",
                                 "action_stub_pending_approval"} -> "supported"
        [] checkpoint.phase \in {"hypothesis_insufficient_evidence",
                                 "recommendation_conservative",
                                 "action_stub_not_actionable"} -> "conservative"
        [] OTHER -> "none"
  BY DEF ClaimOnDisk, Readings3

LEMMA SameReadings == Readings3 = {j \in Positions : IsResult(j, 3)}
  BY DEF Readings3, Positions, IsResult

\* A checkpoint that says nothing of evidence claims by its phase alone.
LEMMA ClaimByPhase ==
    checkpoint.phase # "evidence_reading_completed" =>
      ClaimOnDisk =
        CASE checkpoint.phase \in {"hypothesis_supported", "recommendation_supported",
                                   "action_stub_pending_approval"} -> "supported"
          [] checkpoint.phase \in {"hypothesis_insufficient_evidence",
                                   "recommendation_conservative",
                                   "action_stub_not_actionable"} -> "conservative"
          [] OTHER -> "none"
  BY DEF ClaimOnDisk

\* The evidence read is not done before its slice has saved its checkpoint.
LEMMA ReadingNotDone ==
    ASSUME ContextFits, at = 3, pc \notin {"mark_checkpoint", "write_memory"}
    PROVE  checkpoint.phase # "evidence_reading_completed"
  <1>1. checkpoint = context /\ Fits(context) /\ context.step = 2
    BY DEF ContextFits
  <1>2. \E outcome \in DOMAIN Slices[2].phases : context.phase = Slices[2].phases[outcome]
    BY <1>1, SliceTable DEF Fits, NoCheckpoint
  <1> QED
    BY <1>1, <1>2, SliceTable DEF FollowUpSlice

\* Every step but a save leaves the checkpoint, and no step replaces the reading it
\* rests on.
LEMMA OnlySavesMove ==
    ASSUME TypedChain, ChainConsistent, [Next]_chainVars, ~SaveCheckpoint
    PROVE  /\ UNCHANGED checkpoint
           /\ \/ UNCHANGED transcript
              \/ \E e \in ChainEvents :
                    /\ Log(e)
                    /\ e.type = "tool_result" /\ e.name = Tool(3) =>
                          checkpoint.phase # "evidence_reading_completed"
  <1>1. CASE RequestTool
    <2>1. ContextFits
      BY <1>1, Standing DEF RequestTool
    <2> QED
      BY <1>1, <2>1, SliceEvents DEF RequestTool, Event
  <1>2. CASE RunTool
    <2>1. ContextFits /\ branch = "act" /\ pc = "run_tool"
      BY <1>2, Standing DEF RunTool, OutputFits, BeforeTool
    <2>2. PICK result \in ToolOutputs \ (IF at = 2 THEN {"raised"} ELSE {}) :
              Log(ToolResult(result))
      BY <1>2 DEF RunTool
    <2>3. result \in ToolOutputValues
      BY <2>1, <2>2, ToolReturns, OutputTyped
    <2>4. ToolResult(result) \in ChainEvents /\ ToolResult(result).name = Tool(at) /\ at \in 1 .. 6
      BY <2>1, <2>3, SliceEvents DEF ToolResult
    <2>5. Tool(at) = Tool(3) => checkpoint.phase # "evidence_reading_completed"
      BY <2>1, <2>4, OwnTools, SliceTable, ReadingNotDone
    <2> QED
      BY <1>2, <2>2, <2>4, <2>5 DEF RunTool
  <1>3. CASE EscapeFollowUp
    <2>1. ContextFits /\ at = 2 /\ "raised" \in ToolOutputValues
      BY <1>3, Standing, EmptyTyped DEF EscapeFollowUp
    <2>2. ToolResult("raised") \in ChainEvents /\ ToolResult("raised").name # Tool(3)
      BY <2>1, SliceEvents, OwnTools, SliceTable DEF ToolResult
    <2> QED
      BY <1>3, <2>2 DEF EscapeFollowUp
  <1>4. CASE RequestVerifier
    <2>1. ContextFits
      BY <1>4, Standing DEF RequestVerifier
    <2> QED
      BY <1>4, <2>1, SliceEvents DEF RequestVerifier, Event
  <1>5. CASE RecordVerdict
    <2>1. ContextFits /\ OutputFits /\ pc = "record_verdict"
      BY <1>5, Standing DEF RecordVerdict
    <2>2. PICK v \in Verdicts \ (IF at = 2 THEN {"raised"} ELSE {}) :
              Log(Event("verifier_result", Verifier(at), NextStep,
                        IF v = "raised" THEN "unverified" ELSE v))
      BY <1>5 DEF RecordVerdict
    <2>3. v \in {"pass", "fail", "unverified", "raised"}
      BY <2>1, <2>2, VerifierSays
    <2>4. PICK status \in {"pass", "fail", "unverified"} :
              status = IF v = "raised" THEN "unverified" ELSE v
      BY <2>3
    <2>5. /\ Event("verifier_result", Verifier(at), NextStep, status) \in ChainEvents
          /\ Event("verifier_result", Verifier(at), NextStep, status).type # "tool_result"
      BY <2>1, SliceEvents DEF Event
    <2> QED
      BY <1>5, <2>2, <2>4, <2>5 DEF RecordVerdict
  <1>6. CASE MarkCheckpoint
    <2>1. ContextFits /\ OutputFits /\ VerdictFits /\ Deciding
      BY <1>6, Standing DEF MarkCheckpoint, Deciding
    <2> QED
      BY <1>6, <2>1, MarkerTyped DEF MarkCheckpoint, Marker
  <1>7. CASE CrashMidLine
    <2>1. ContextFits
      BY <1>7, Standing DEF CrashMidLine, Appending
    <2> QED
      BY <1>7, <2>1, SliceEvents DEF CrashMidLine, TornLine, Event
  <1>8. CASE Start \/ Reject \/ BeginFollowUp \/ BeginSlice \/ EscapeFollowUpVerifier \/ WriteMemory
             \/ Crash \/ CrashMidMemory \/ UNCHANGED chainVars
    BY <1>8 DEF Start, Reject, BeginFollowUp, BeginSlice, EscapeFollowUpVerifier, WriteMemory,
       Crash, CrashMidMemory, chainVars, files
  <1> QED
    BY <1>1, <1>2, <1>3, <1>4, <1>5, <1>6, <1>7, <1>8 DEF Next, Run

LEMMA ClaimStays ==
    ASSUME TypedChain, ChainConsistent, [Next]_chainVars, ~SaveCheckpoint
    PROVE  ClaimOnDisk' = ClaimOnDisk
  <1>1. /\ UNCHANGED checkpoint
        /\ \/ UNCHANGED transcript
           \/ \E e \in ChainEvents :
                 /\ Log(e)
                 /\ e.type = "tool_result" /\ e.name = Tool(3) =>
                       checkpoint.phase # "evidence_reading_completed"
    BY OnlySavesMove
  <1>2. CASE UNCHANGED transcript
    BY <1>1, <1>2 DEF ClaimOnDisk, Tool
  <1>3. CASE checkpoint.phase # "evidence_reading_completed"
    BY <1>1, <1>3 DEF ClaimOnDisk
  <1>4. CASE checkpoint.phase = "evidence_reading_completed" /\ ~UNCHANGED transcript
    <2>1. PICK n \in Nat : n = Len(transcript)
      BY DEF TypedChain
    <2>2. PICK e \in ChainEvents : Log(e) /\ ~(e.type = "tool_result" /\ e.name = Tool(3))
      BY <1>1, <1>4
    <2>3. Log1(e, n)
      BY <2>1, <2>2, Logged DEF TypedChain
    <2>4. Readings3' = Readings3 /\ Readings3 \subseteq 1 .. n
      <3>1. 1 .. (n + 1) = (1 .. n) \cup {n + 1}
        OBVIOUS
      <3> QED
        BY <2>2, <2>3, <3>1 DEF Readings3, Log1, Tool
    <2>5. PICK i : i \in LatestOf(Readings3)
      BY <1>4, SameReadings DEF ChainConsistent, FilesSound
    <2> DEFINE c == CHOOSE j \in LatestOf(Readings3) : TRUE
    <2>6. c \in LatestOf(Readings3)
      BY <2>5
    <2>7. c \in 1 .. n
      BY <2>4, <2>6 DEF LatestOf
    <2>8. ClaimOnDisk = transcript[c].output
      BY <1>4, ClaimUnfolded
    <2>9. ClaimOnDisk' = transcript'[c].output
      <3>1. ClaimOnDisk' = transcript'[CHOOSE j \in LatestOf(Readings3') : TRUE].output
        BY <1>1, <1>4 DEF ClaimOnDisk, Readings3
      <3> QED
        BY <2>4, <3>1
    <2> QED
      BY <2>3, <2>7, <2>8, <2>9 DEF Log1
  <1> QED
    BY <1>1, <1>2, <1>3, <1>4

\* A slice begins with the claim on disk.
LEMMA ClaimConsumed ==
    ASSUME TypedChain, ChainConsistent, pc = "load", at > 3, checkpoint.phase \in This.consumes
    PROVE  ConsumedClaim = ClaimOnDisk
  <1>0. FilesSound /\ LoadFits /\ Marks(End, checkpoint)
    BY DEF ChainConsistent, LoadFits
  <1>1. PICK k \in {4, 5, 6} : k = at
    BY <1>0, SliceTable DEF LoadFits
  <1>2. PICK n \in Nat : n = End
    BY DEF TypedChain, End
  <1>3. SpeaksFor(n) /\ n \in Positions
    BY <1>0, <1>2, LoadedAtMarker DEF Marks
  <1>4. k - 1 \in 2 .. Last /\ checkpoint.phase \in ClaimPhases(k - 1)
    BY <1>0, <1>1, ConsumedAtMarker
  <1>5. PICK claim \in Claims :
            Produced(n, k - 1, claim) /\ checkpoint.phase = Slices[k - 1].phases[claim]
    BY <1>1, <1>3, <1>4 DEF SpeaksFor, ConsumableClaims
  <1>6. ConsumedClaim = claim
    <2>1. ConsumedClaim = transcript[n - 3].output
      BY <1>0, <1>1, <1>2, ConsumedAtMarker
    <2> QED
      BY <1>5, <2>1 DEF Produced, Answered, Returns
  <1>7. CASE k = 4
    <2>1. checkpoint.phase = "evidence_reading_completed"
      BY <1>5, <1>7, SliceTable DEF EvidenceSlice, Claims
    <2>2. /\ n - 3 \in 1 .. n /\ IsResult(n - 3, 3) /\ transcript[n - 3].output = claim
          /\ ~IsResult(n - 2, 3) /\ ~IsResult(n - 1, 3) /\ ~IsResult(n, 3)
      BY <1>2, <1>5, <1>7 DEF Produced, Answered, AskedVerifier, Judged, Returns, IsResult,
         Positions, End
    <2>3. n - 3 \in Readings3 /\ Readings3 \in SUBSET Int /\ \A j \in Readings3 : j <= n - 3
      <3>1. Positions = 1 .. n
        BY <1>2 DEF Positions, End
      <3>2. \A j \in Readings3 : j \in 1 .. n /\ j # n - 2 /\ j # n - 1 /\ j # n
        BY <2>2, <3>1, SameReadings
      <3> QED
        BY <2>2, <3>1, <3>2, SameReadings
    <2>4. LatestOf(Readings3) = {n - 3}
      BY <2>3, LatestIs
    <2>5. ClaimOnDisk = transcript[n - 3].output
      BY <2>1, <2>4, ClaimUnfolded
    <2> QED
      BY <1>6, <2>2, <2>5
  <1>8. CASE k = 5
    BY <1>5, <1>6, <1>8, ClaimByPhase, SliceTable DEF HypothesisSlice, Claims
  <1>9. CASE k = 6
    BY <1>5, <1>6, <1>9, ClaimByPhase, SliceTable DEF RecommendationSlice, Claims
  <1> QED
    BY <1>1, <1>7, <1>8, <1>9

LEMMA ClaimTakenStep ==
    ASSUME TypedChain, ChainConsistent, ClaimTaken, [Next]_chainVars
    PROVE  ClaimTaken'
  <1>1. CASE SaveCheckpoint
    BY <1>1 DEF SaveCheckpoint, ClaimTaken
  <1>2. CASE BeginSlice
    <2>1. ~SaveCheckpoint
      BY <1>2 DEF BeginSlice, SaveCheckpoint
    <2>2. ClaimOnDisk' = ClaimOnDisk
      BY <2>1, ClaimStays
    <2>3. pc = "load" /\ at > 2 /\ LoadFits /\ FilesSound
      BY <1>2 DEF BeginSlice, ChainConsistent
    <2>4. branch' = "act" =>
              input' = ConsumedClaim /\ checkpoint.phase \in This.consumes /\ at' = at
      BY <1>2, <2>3, ConsumedAtMarker DEF BeginSlice, Enter
    <2> QED
      BY <2>2, <2>3, <2>4, ClaimConsumed DEF ClaimTaken
  <1>3. CASE ~SaveCheckpoint /\ ~BeginSlice
    <2>1. ClaimOnDisk' = ClaimOnDisk
      BY <1>3, ClaimStays
    <2>2. \/ pc' \in {"idle", "load", "mark_checkpoint", "write_memory"}
          \/ at' \in {1, 2}
          \/ UNCHANGED slice /\ pc \notin {"idle", "load", "mark_checkpoint", "write_memory"}
          \/ /\ UNCHANGED <<at, branch, input>>
             /\ pc \notin {"idle", "load", "mark_checkpoint", "write_memory"}
          \/ UNCHANGED chainVars
      BY <1>3
      DEF Next, Run, Start, Reject, BeginFollowUp, RequestTool, RunTool, EscapeFollowUp,
          RequestVerifier, RecordVerdict, EscapeFollowUpVerifier, MarkCheckpoint, WriteMemory,
          Crash, CrashMidLine, CrashMidMemory, Proceed, Finish, Enter
    <2> QED
      BY <2>1, <2>2 DEF ClaimTaken, slice, chainVars
  <1> QED
    BY <1>1, <1>2, <1>3

\* A saved checkpoint is the pipeline's next stage.
LEMMA SaveMoves ==
    ASSUME TypedChain, ChainConsistent, ClaimTaken, SaveCheckpoint
    PROVE  Pipeline!PipelineNext
  <1>1. /\ ContextFits /\ OutputFits /\ VerdictFits /\ Deciding /\ pc = "save_checkpoint"
        /\ checkpoint' = SliceCheckpoint /\ UNCHANGED transcript
    BY Standing DEF SaveCheckpoint, Deciding
  <1>2. PICK k \in {1, 2, 3, 4, 5, 6} : k = at
    BY <1>1, SliceEvents
  <1>3. checkpoint'.step = k
    BY <1>1, <1>2, SliceEvents DEF SliceCheckpoint
  <1>4. PICK outcome \in DOMAIN Slices[k].phases : checkpoint'.phase = Slices[k].phases[outcome]
    BY <1>1, <1>2, OutcomeClaims DEF SliceCheckpoint, This
  <1>5. FilesSound'
    BY SaveCheckpointStep DEF ChainConsistent
  <1>6. k # 1 => checkpoint.step = k - 1 /\ Fits(checkpoint)
    BY <1>1, <1>2 DEF ContextFits
  <1>7. checkpoint'.phase # "evidence_reading_completed" =>
          ClaimOnDisk' =
            CASE checkpoint'.phase \in {"hypothesis_supported", "recommendation_supported",
                                       "action_stub_pending_approval"} -> "supported"
              [] checkpoint'.phase \in {"hypothesis_insufficient_evidence",
                                       "recommendation_conservative",
                                       "action_stub_not_actionable"} -> "conservative"
              [] OTHER -> "none"
    BY DEF ClaimOnDisk
  <1>8. CASE k = 1
    <2>1. ClaimOnDisk' = "none"
      BY <1>4, <1>7, <1>8, SliceTable DEF TriageSlice
    <2> QED
      BY <1>3, <1>8, <2>1 DEF Pipeline!PipelineNext, Pipeline!Begin
  <1>9. CASE k = 2
    <2>1. ClaimOnDisk' = "none"
      BY <1>4, <1>7, <1>9, SliceTable DEF FollowUpSlice
    <2>2. ClaimOnDisk = "none"
      <3>1. \E o \in DOMAIN Slices[1].phases : checkpoint.phase = Slices[1].phases[o]
        BY <1>6, <1>9, SliceTable DEF Fits, NoCheckpoint
      <3> QED
        BY <3>1, ClaimByPhase, SliceTable DEF TriageSlice
    <2> QED
      BY <1>3, <1>6, <1>9, <2>1, <2>2
      DEF Pipeline!PipelineNext, Pipeline!Prepare, Pipeline!EvidenceStage
  <1>10. CASE k = 3
    <2>1. ClaimOnDisk' \in {"none", "supported", "conservative"}
      <3>1. CASE checkpoint'.phase = "evidence_reading_completed"
        <4>1. PICK i : i \in LatestOf(Readings3') /\ transcript'[i].output \in Claims
          <5>1. Readings3' = {j \in Positions' : IsResult(j, 3)'}
            BY DEF Readings3, Positions, IsResult
          <5> QED
            BY <1>5, <3>1, <5>1 DEF FilesSound
        <4>2. LatestOf(Readings3') = {i}
          BY <1>1, <4>1 DEF LatestOf, Readings3, TypedChain
        <4>3. ClaimOnDisk' = transcript'[CHOOSE j \in LatestOf(Readings3') : TRUE].output
          BY <3>1 DEF ClaimOnDisk, Readings3
        <4> QED
          BY <4>1, <4>2, <4>3 DEF Claims
      <3>2. CASE checkpoint'.phase # "evidence_reading_completed"
        BY <1>7, <3>2
      <3> QED
        BY <3>1, <3>2
    <2> QED
      BY <1>3, <1>6, <1>10, <2>1
      DEF Pipeline!PipelineNext, Pipeline!ReadEvidence, Pipeline!EvidenceStage
  <1>11. CASE k \in {4, 5, 6}
    <2>1. ClaimOnDisk' \in {ClaimOnDisk, "none"}
      <3>1. checkpoint'.phase # "evidence_reading_completed"
        BY <1>4, <1>11, SliceTable DEF HypothesisSlice, RecommendationSlice, ActionStubSlice
      <3>2. CASE checkpoint'.phase \notin ClaimPhases(k)
        <4>1. ClaimOnDisk' = "none"
          BY <1>4, <1>7, <1>11, <3>1, <3>2, SliceTable DEF ClaimPhases, ConsumableClaims, Claims,
             HypothesisSlice, RecommendationSlice, ActionStubSlice
        <4> QED
          BY <4>1
      <3>3. CASE checkpoint'.phase \in ClaimPhases(k)
        <4>1. /\ branch = "act" /\ verdict = "pass" /\ output \in Claims
              /\ checkpoint'.phase = Slices[k].phases[output]
          BY <1>1, <1>2, <1>11, <3>3, OutcomeFits, SliceTable DEF ConsumableClaims
        <4>2. output = input /\ input = ClaimOnDisk
          BY <1>1, <1>2, <1>11, <4>1 DEF VerdictFits, ClaimTaken
        <4>3. ClaimOnDisk' = output
          BY <1>7, <1>11, <3>1, <4>1, SliceTable
          DEF Claims, HypothesisSlice, RecommendationSlice, ActionStubSlice
        <4> QED
          BY <4>2, <4>3
      <3> QED
        BY <3>2, <3>3
    <2> QED
      BY <1>3, <1>6, <1>11, <2>1
      DEF Pipeline!PipelineNext, Pipeline!PassOn, Pipeline!EvidenceStage, Pipeline!LastStage
  <1> QED
    BY <1>2, <1>8, <1>9, <1>10, <1>11

\* Whatever fails, crashes or is left over from an earlier run of the session, the
\* checkpoint file goes through the stages in order, and a stage after the evidence read
\* passes its claim on or drops it: the claim an operator is finally asked about is the
\* one this run's evidence made, or none (the _current_phase methods and verifiers of
\* the six slices).
THEOREM ChainImplementsPipeline == Spec => ImplementsPipeline
  <1>1. Init => Pipeline!PipelineInit /\ ClaimTaken
    BY DEF Init, NoCheckpoint, Pipeline!PipelineInit, ClaimOnDisk, ClaimTaken
  <1>2. TypedChain /\ ChainConsistent /\ ClaimTaken /\ [Next]_chainVars => ClaimTaken'
    BY ClaimTakenStep
  <1>3. TypedChain /\ ChainConsistent /\ ClaimTaken /\ [Next]_chainVars =>
            [Pipeline!PipelineNext]_(Pipeline!pipelineVars)
    <2> SUFFICES ASSUME TypedChain, ChainConsistent, ClaimTaken, [Next]_chainVars
                 PROVE  [Pipeline!PipelineNext]_(Pipeline!pipelineVars)
      OBVIOUS
    <2>1. CASE SaveCheckpoint
      BY <2>1, SaveMoves
    <2>2. CASE ~SaveCheckpoint
      BY <2>2, OnlySavesMove, ClaimStays DEF Pipeline!pipelineVars
    <2> QED
      BY <2>1, <2>2
  <1> QED
    BY <1>1, <1>2, <1>3, ChainIsConsistent, PTL
    DEF Spec, ImplementsPipeline, Pipeline!PipelineSpec

=============================================================================
