-------------------------- MODULE IncidentPipeline --------------------------
(***************************************************************************)
(* What the chain from alert to proposal promises, without files, tools or *)
(* crashes: stages are taken one at a time, what the evidence says of the  *)
(* regression is decided once, at the evidence stage of this run, and a    *)
(* later stage may pass the claim on or drop it, never change it and never *)
(* find it again.                                                          *)
(***************************************************************************)
EXTENDS Integers

VARIABLES
    stage,      \* the stage the session has reached, 0 .. 6
    claim       \* "none", "supported" or "conservative"

pipelineVars == <<stage, claim>>

EvidenceStage == 3
LastStage == 6

PipelineInit == stage = 0 /\ claim = "none"

\* A run begins, whatever an earlier one has left.
Begin == stage' = 1 /\ claim' = "none"

Prepare ==
    /\ stage \in 1 .. EvidenceStage - 2
    /\ stage' = stage + 1
    /\ UNCHANGED claim

ReadEvidence ==
    /\ stage = EvidenceStage - 1
    /\ stage' = EvidenceStage
    /\ claim' \in {"none", "supported", "conservative"}

PassOn ==
    /\ stage \in EvidenceStage .. LastStage - 1
    /\ stage' = stage + 1
    /\ claim' \in {claim, "none"}

PipelineNext == Begin \/ Prepare \/ ReadEvidence \/ PassOn

PipelineSpec == PipelineInit /\ [][PipelineNext]_pipelineVars

=============================================================================
