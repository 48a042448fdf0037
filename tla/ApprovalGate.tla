---------------------------- MODULE ApprovalGate ----------------------------
(***************************************************************************)
(* What the approval boundary promises for one session, without files,     *)
(* crashes or commands: a decision is taken at most once and stands, an    *)
(* approval lets at most one rollback out, and recovery is claimed only of *)
(* a rollback that went out.                                               *)
(***************************************************************************)

VARIABLES
    decision,   \* "open", "approved" or "denied"
    rollback,   \* "none", "sent" or "repeated"
    recovery    \* "unknown", "confirmed" or "not_confirmed"

gateVars == <<decision, rollback, recovery>>

GateInit == decision = "open" /\ rollback = "none" /\ recovery = "unknown"

Decide ==
    /\ decision = "open" /\ decision' \in {"approved", "denied"}
    /\ UNCHANGED <<rollback, recovery>>

SendRollback ==
    /\ decision = "approved" /\ rollback = "none"
    /\ rollback' = "sent"
    /\ UNCHANGED <<decision, recovery>>

\* The outcome may be judged again and again, as the service may change.
Confirm ==
    /\ rollback = "sent" /\ recovery' = "confirmed"
    /\ UNCHANGED <<decision, rollback>>

Doubt ==
    /\ decision = "approved" /\ recovery' = "not_confirmed"
    /\ UNCHANGED <<decision, rollback>>

GateNext == Decide \/ SendRollback \/ Confirm \/ Doubt

GateSpec == GateInit /\ [][GateNext]_gateVars

=============================================================================
