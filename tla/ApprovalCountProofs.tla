------------------------- MODULE ApprovalCountProofs -------------------------
(***************************************************************************)
(* Every rollback request spends an approval of its own, for every set of  *)
(* operators.  The argument counts what is still to be spent: an operator  *)
(* that has logged an approval and not yet requested the rollback holds    *)
(* one, nobody else does, and the requests on record together with the     *)
(* operators that hold one never outnumber the approvals on record.        *)
(***************************************************************************)
EXTENDS ApprovalSafetyProofs, FiniteSetTheorems

Requests(n) == {j \in 1 .. n : RequestedAt(j, ActionExecution)}
Approvings(n) == {i \in 1 .. n : ApprovedAt(i)}

\* The operator has logged an approval, or been handed one, and not spent it.
Entitled(o) ==
    \/ pc[o] \in {"save_decision", "mark_decision"} /\ Approves(o)
    \/ job[o].slice = "execute" /\ pc[o] \in {"load", "reconcile", "request_rollback"}

EntitledOperators == {o \in Operators : Entitled(o)}

\* The inductive invariant.
ApprovalsCounted ==
    /\ \A o \in Operators : pc[o] = "request_rollback" => job[o].slice = "execute"
    /\ RequestsNeverOutnumberApprovals
    /\ Cardinality(Requests(Len(transcript))) + Cardinality(EntitledOperators)
          <= Cardinality(Approvings(Len(transcript)))

-----------------------------------------------------------------------------
(* Finite sets of positions and operators *)

LEMMA FinitePositions ==
    ASSUME NEW n \in Nat, NEW S \in SUBSET (1 .. n)
    PROVE  IsFiniteSet(S) /\ Cardinality(S) \in Nat
  <1>1. IsFiniteSet(1 .. n)
    BY FS_Interval
  <1> QED
    BY <1>1, FS_Subset, FS_CardinalityType

LEMMA FiniteOperators ==
    ASSUME NEW S \in SUBSET Operators
    PROVE  IsFiniteSet(S) /\ Cardinality(S) \in Nat
  BY OperatorsAssumption, FS_Subset, FS_CardinalityType

LEMMA Counted ==
    ASSUME TypeOK
    PROVE  /\ Len(transcript) \in Nat
           /\ \A n \in Nat : /\ IsFiniteSet(Requests(n)) /\ Cardinality(Requests(n)) \in Nat
                             /\ IsFiniteSet(Approvings(n)) /\ Cardinality(Approvings(n)) \in Nat
           /\ IsFiniteSet(EntitledOperators) /\ Cardinality(EntitledOperators) \in Nat
  <1>1. \A n \in Nat : Requests(n) \in SUBSET (1 .. n) /\ Approvings(n) \in SUBSET (1 .. n)
    BY DEF Requests, Approvings
  <1>2. EntitledOperators \in SUBSET Operators
    BY DEF EntitledOperators
  <1> QED
    <2>1. \A n \in Nat : \A S \in SUBSET (1 .. n) : IsFiniteSet(S) /\ Cardinality(S) \in Nat
      BY FinitePositions
    <2>2. \A n \in Nat : /\ IsFiniteSet(Requests(n)) /\ Cardinality(Requests(n)) \in Nat
                        /\ IsFiniteSet(Approvings(n)) /\ Cardinality(Approvings(n)) \in Nat
      BY <1>1, <2>1
    <2>3. IsFiniteSet(EntitledOperators) /\ Cardinality(EntitledOperators) \in Nat
      BY <1>2, FiniteOperators
    <2> QED
      BY <2>2, <2>3 DEF TypeOK, DurableTypeOK

\* What appending one event adds to the counts.
LEMMA CountsGrow ==
    ASSUME TypeOK, NEW n \in Nat, n = Len(transcript), NEW e, Append1(e)
    PROVE  /\ Len(transcript') = n + 1
           /\ \A m \in 1 .. n : Requests(m)' = Requests(m) /\ Approvings(m)' = Approvings(m)
           /\ Requests(n + 1)' = IF e.type = "tool_request" /\ e.name = ActionExecution.tool
                                 THEN Requests(n) \cup {n + 1} ELSE Requests(n)
           /\ Approvings(n + 1)' = IF e.type = "approval_resolved" /\ e.status = "approved"
                                   THEN Approvings(n) \cup {n + 1} ELSE Approvings(n)
           /\ n + 1 \notin Requests(n) /\ n + 1 \notin Approvings(n)
  <1>1. /\ Len(transcript') = n + 1
        /\ \A i \in 1 .. n : transcript'[i] = transcript[i]
        /\ transcript'[n + 1] = e
    BY DEF TypeOK, DurableTypeOK, Append1
  <1>2. /\ \A i \in 1 .. n : RequestedAt(i, ActionExecution)' <=> RequestedAt(i, ActionExecution)
        /\ \A i \in 1 .. n : ApprovedAt(i)' <=> ApprovedAt(i)
    BY <1>1 DEF RequestedAt, ApprovedAt
  <1>3. /\ RequestedAt(n + 1, ActionExecution)' <=>
              e.type = "tool_request" /\ e.name = ActionExecution.tool
        /\ ApprovedAt(n + 1)' <=> e.type = "approval_resolved" /\ e.status = "approved"
    BY <1>1 DEF RequestedAt, ApprovedAt
  <1>4. 1 .. (n + 1) = (1 .. n) \cup {n + 1} /\ n + 1 \notin 1 .. n
    OBVIOUS
  <1>5. \A m \in 1 .. n : 1 .. m \subseteq 1 .. n
    OBVIOUS
  <1>6. \A m \in 1 .. n : Requests(m)' = Requests(m) /\ Approvings(m)' = Approvings(m)
    BY <1>2, <1>5 DEF Requests, Approvings
  <1>7. Requests(n + 1)' = IF e.type = "tool_request" /\ e.name = ActionExecution.tool
                           THEN Requests(n) \cup {n + 1} ELSE Requests(n)
    BY <1>2, <1>3, <1>4 DEF Requests
  <1>8. Approvings(n + 1)' = IF e.type = "approval_resolved" /\ e.status = "approved"
                             THEN Approvings(n) \cup {n + 1} ELSE Approvings(n)
    BY <1>2, <1>3, <1>4 DEF Approvings
  <1> QED
    BY <1>1, <1>4, <1>6, <1>7, <1>8 DEF Requests, Approvings

\* The counts are right at every prefix when they are right at the whole.
LEMMA CountedEverywhere ==
    ASSUME TypeOK, RequestsNeverOutnumberApprovals, NEW n \in Nat, n = Len(transcript),
           NEW e, Append1(e), Cardinality(Requests(n + 1)') <= Cardinality(Approvings(n + 1)')
    PROVE  RequestsNeverOutnumberApprovals'
  <1>1. \A m \in 1 .. n : Cardinality(Requests(m)) <= Cardinality(Approvings(m))
    BY DEF RequestsNeverOutnumberApprovals, Requests, Approvings, Positions
  <1>2. \A m \in 1 .. (n + 1) : Cardinality(Requests(m)') <= Cardinality(Approvings(m)')
    <2>1. \A m \in 1 .. n : Requests(m)' = Requests(m) /\ Approvings(m)' = Approvings(m)
      BY CountsGrow
    <2>2. \A m \in 1 .. (n + 1) : m \in 1 .. n \/ m = n + 1
      OBVIOUS
    <2>3. ASSUME NEW m \in 1 .. (n + 1)
          PROVE  Cardinality(Requests(m)') <= Cardinality(Approvings(m)')
      <3>1. CASE m \in 1 .. n
        BY <1>1, <2>1, <3>1
      <3>2. CASE m = n + 1
        BY <3>2
      <3> QED
        BY <2>2, <3>1, <3>2
    <2> QED
      BY <2>3
  <1>3. Positions' = 1 .. (n + 1)
    BY CountsGrow DEF Positions
  <1> QED
    BY <1>2, <1>3 DEF RequestsNeverOutnumberApprovals, Requests, Approvings

-----------------------------------------------------------------------------
(* Three kinds of step: one that counts nothing, one that logs an approval  *)
(* and one that spends it                                                  *)

\* A denial counts neither as an approval nor as a request.
Denies(e) == e.type = "approval_resolved" /\ e.status # "approved"

LEMMA NothingCounted ==
    ASSUME TypeOK, ApprovalsCounted,
           \A o \in Operators : pc'[o] = "request_rollback" => job'[o].slice = "execute",
           EntitledOperators' \subseteq EntitledOperators,
           UNCHANGED transcript \/ \E e : Append1(e) /\ (Counts(e) => Denies(e))
    PROVE  ApprovalsCounted'
  <1>1. PICK n \in Nat : n = Len(transcript)
    BY Counted
  <1>2. /\ Cardinality(Requests(n)) \in Nat /\ Cardinality(Approvings(n)) \in Nat
        /\ Cardinality(EntitledOperators) \in Nat /\ Cardinality(EntitledOperators') \in Nat
        /\ Cardinality(EntitledOperators') <= Cardinality(EntitledOperators)
    <2>1. EntitledOperators' \in SUBSET Operators
      BY DEF EntitledOperators
    <2>2. Cardinality(EntitledOperators') \in Nat
      BY <2>1, FiniteOperators
    <2> QED
      BY <2>2, Counted, FS_Subset
  <1>3. Cardinality(Requests(n)) + Cardinality(EntitledOperators) <= Cardinality(Approvings(n))
    BY <1>1 DEF ApprovalsCounted
  <1>4. CASE UNCHANGED transcript
    <2>1. \A m : Requests(m)' = Requests(m) /\ Approvings(m)' = Approvings(m)
      BY <1>4 DEF Requests, Approvings, RequestedAt, ApprovedAt
    <2>2. RequestsNeverOutnumberApprovals'
      BY <1>4, <2>1 DEF ApprovalsCounted, RequestsNeverOutnumberApprovals, Requests, Approvings,
         Positions
    <2>3. Cardinality(Requests(n)') + Cardinality(EntitledOperators') <= Cardinality(Approvings(n)')
      BY <1>2, <1>3, <2>1
    <2>4. n = Len(transcript')
      BY <1>1, <1>4
    <2> QED
      BY <2>2, <2>3, <2>4 DEF ApprovalsCounted
  <1>5. ASSUME NEW e, Append1(e), Counts(e) => Denies(e) PROVE ApprovalsCounted'
    <2>1. /\ Len(transcript') = n + 1
          /\ Requests(n + 1)' = Requests(n) /\ Approvings(n + 1)' = Approvings(n)
      BY <1>1, <1>5, CountsGrow DEF Counts, Denies
    <2>2. Cardinality(Requests(n + 1)') + Cardinality(EntitledOperators')
             <= Cardinality(Approvings(n + 1)')
      BY <1>2, <1>3, <2>1
    <2>3. RequestsNeverOutnumberApprovals'
      BY <1>1, <1>2, <1>3, <1>5, <2>1, CountedEverywhere DEF ApprovalsCounted
    <2> QED
      BY <2>1, <2>2, <2>3 DEF ApprovalsCounted
  <1> QED
    BY <1>4, <1>5

LEMMA ApprovalCounted ==
    ASSUME TypeOK, ApprovalsCounted, NEW o \in Operators,
           \A p \in Operators : pc'[p] = "request_rollback" => job'[p].slice = "execute",
           EntitledOperators' \subseteq EntitledOperators \cup {o},
           NEW e, Append1(e), e.type = "approval_resolved", e.status = "approved"
    PROVE  ApprovalsCounted'
  <1>1. PICK n \in Nat : n = Len(transcript)
    BY Counted
  <1>2. /\ Cardinality(Requests(n)) \in Nat /\ Cardinality(Approvings(n)) \in Nat
        /\ Cardinality(EntitledOperators) \in Nat /\ Cardinality(EntitledOperators') \in Nat
        /\ Cardinality(EntitledOperators') <= Cardinality(EntitledOperators) + 1
    <2>1. EntitledOperators' \in SUBSET Operators
      BY DEF EntitledOperators
    <2>2. Cardinality(EntitledOperators') \in Nat
      BY <2>1, FiniteOperators
    <2>3. /\ IsFiniteSet(EntitledOperators \cup {o})
          /\ Cardinality(EntitledOperators \cup {o}) <= Cardinality(EntitledOperators) + 1
      <3>1. IsFiniteSet(EntitledOperators) /\ Cardinality(EntitledOperators) \in Nat
        BY Counted
      <3>2. /\ IsFiniteSet(EntitledOperators \cup {o})
            /\ Cardinality(EntitledOperators \cup {o}) =
                  IF o \in EntitledOperators THEN Cardinality(EntitledOperators)
                  ELSE Cardinality(EntitledOperators) + 1
        BY <3>1, FS_AddElement
      <3> QED
        BY <3>1, <3>2
    <2>4. Cardinality(EntitledOperators') <= Cardinality(EntitledOperators \cup {o})
      BY <2>3, FS_Subset
    <2>5. Cardinality(EntitledOperators \cup {o}) \in Nat
      BY <2>3, FS_CardinalityType
    <2> QED
      <3>1. /\ Cardinality(Requests(n)) \in Nat /\ Cardinality(Approvings(n)) \in Nat
            /\ Cardinality(EntitledOperators) \in Nat
        BY <1>1, Counted
      <3> QED
        BY <2>2, <2>3, <2>4, <2>5, <3>1
  <1>3. Cardinality(Requests(n)) + Cardinality(EntitledOperators) <= Cardinality(Approvings(n))
    BY <1>1 DEF ApprovalsCounted
  <1>4. /\ Len(transcript') = n + 1
        /\ Requests(n + 1)' = Requests(n)
        /\ Approvings(n + 1)' = Approvings(n) \cup {n + 1} /\ n + 1 \notin Approvings(n)
    BY <1>1, CountsGrow
  <1>5. Cardinality(Approvings(n + 1)') = Cardinality(Approvings(n)) + 1
    <2>1. IsFiniteSet(Approvings(n)) /\ Cardinality(Approvings(n)) \in Nat
      BY <1>1, Counted
    <2>2. Cardinality(Approvings(n) \cup {n + 1}) = Cardinality(Approvings(n)) + 1
      BY <1>4, <2>1, FS_AddElement
    <2> QED
      BY <1>4, <2>2
  <1>6. Cardinality(Requests(n + 1)') + Cardinality(EntitledOperators')
           <= Cardinality(Approvings(n + 1)')
    BY <1>2, <1>3, <1>4, <1>5
  <1>7. RequestsNeverOutnumberApprovals'
    BY <1>1, <1>2, <1>3, <1>4, <1>5, CountedEverywhere DEF ApprovalsCounted
  <1> QED
    BY <1>4, <1>6, <1>7 DEF ApprovalsCounted

LEMMA RequestCounted ==
    ASSUME TypeOK, ApprovalsCounted, NEW o \in EntitledOperators,
           \A p \in Operators : pc'[p] = "request_rollback" => job'[p].slice = "execute",
           EntitledOperators' \subseteq EntitledOperators \ {o},
           NEW e, Append1(e), e.type = "tool_request", e.name = ActionExecution.tool
    PROVE  ApprovalsCounted'
  <1>1. PICK n \in Nat : n = Len(transcript)
    BY Counted
  <1>2. /\ Cardinality(Requests(n)) \in Nat /\ Cardinality(Approvings(n)) \in Nat
        /\ Cardinality(EntitledOperators) \in Nat /\ Cardinality(EntitledOperators') \in Nat
        /\ Cardinality(EntitledOperators') + 1 <= Cardinality(EntitledOperators)
    <2>1. EntitledOperators' \in SUBSET Operators
      BY DEF EntitledOperators
    <2>2. Cardinality(EntitledOperators') \in Nat
      BY <2>1, FiniteOperators
    <2>3. /\ IsFiniteSet(EntitledOperators \ {o})
          /\ Cardinality(EntitledOperators \ {o}) = Cardinality(EntitledOperators) - 1
      BY Counted, FS_RemoveElement
    <2>4. Cardinality(EntitledOperators') <= Cardinality(EntitledOperators \ {o})
      BY <2>3, FS_Subset
    <2> QED
      <3>1. /\ Cardinality(Requests(n)) \in Nat /\ Cardinality(Approvings(n)) \in Nat
            /\ Cardinality(EntitledOperators) \in Nat
        BY <1>1, Counted
      <3> QED
        BY <2>2, <2>3, <2>4, <3>1
  <1>3. Cardinality(Requests(n)) + Cardinality(EntitledOperators) <= Cardinality(Approvings(n))
    BY <1>1 DEF ApprovalsCounted
  <1>4. /\ Len(transcript') = n + 1
        /\ Requests(n + 1)' = Requests(n) \cup {n + 1} /\ n + 1 \notin Requests(n)
        /\ Approvings(n + 1)' = Approvings(n)
    BY <1>1, CountsGrow
  <1>5. Cardinality(Requests(n + 1)') = Cardinality(Requests(n)) + 1
    <2>1. IsFiniteSet(Requests(n)) /\ Cardinality(Requests(n)) \in Nat
      BY <1>1, Counted
    <2>2. Cardinality(Requests(n) \cup {n + 1}) = Cardinality(Requests(n)) + 1
      BY <1>4, <2>1, FS_AddElement
    <2> QED
      BY <1>4, <2>2
  <1>6. Cardinality(Requests(n + 1)') + Cardinality(EntitledOperators')
           <= Cardinality(Approvings(n + 1)')
    BY <1>2, <1>3, <1>4, <1>5
  <1>7. RequestsNeverOutnumberApprovals'
    BY <1>1, <1>2, <1>3, <1>4, <1>5, CountedEverywhere DEF ApprovalsCounted
  <1> QED
    BY <1>4, <1>6, <1>7 DEF ApprovalsCounted

-----------------------------------------------------------------------------
(* The invariant *)

\* A step of one operator leaves the others' entitlement alone.
LEMMA OthersEntitled ==
    ASSUME NEW o \in Operators, Confined(o)
    PROVE  /\ (Entitled(o)' => Entitled(o)) => EntitledOperators' \subseteq EntitledOperators
           /\ EntitledOperators' \subseteq EntitledOperators \cup {o}
           /\ ~Entitled(o)' => EntitledOperators' \subseteq EntitledOperators \ {o}
  <1>1. \A p \in Operators \ {o} : Entitled(p)' <=> Entitled(p)
    BY DEF Confined, Entitled, Approves
  <1> QED
    BY <1>1 DEF EntitledOperators

EntitledLabels == {"save_decision", "mark_decision", "load", "reconcile", "request_rollback"}

\* How a step other than the two that count leaves its operator: nowhere an approval
\* is held, or where it was with the same command, or past a decision it made.
LEMMA StepsEntitle ==
    ASSUME TypeInv, NEW o \in Operators, Proceed(o), ~RecordDecision(o), ~RequestRollback(o)
    PROVE  /\ Confined(o)
           /\ Entitled(o)' => Entitled(o)
           /\ pc'[o] = "request_rollback" => job'[o].slice = "execute"
  <1>0. TypeOK /\ WriterJobs
    BY DEF TypeInv
  <1> USE <1>0
  <1>1. ASSUME NEW next \in Jobs, Finish(o) \/ Continue(o, next)
        PROVE  /\ Confined(o) /\ pc'[o] \in {"idle", "load"}
               /\ Entitled(o)' => Continue(o, next) /\ next.slice = "execute"
    BY <1>1 DEF Finish, Continue, Goto, TypeOK, VolatileTypeOK, Entitled, NoJob, Confined, Approves
  <1>2. CASE Reject(o) \/ MarkCheckpoint(o) \/ SkipMode(o) \/ MarkMode(o) \/ SkipAuto(o) \/ EvaluateGate(o)
    <2>1. \E next \in Jobs : next.slice # "execute" /\ (Finish(o) \/ Continue(o, next))
      <3>1. /\ AutoJob \in Jobs /\ [slice |-> "probe", argument |-> "none"] \in Jobs
            /\ [slice |-> "resolve", argument |-> "auto-approve"] \in Jobs
            /\ [slice |-> "set_mode", argument |-> "degraded"] \in Jobs
        BY DEF AutoJob, Jobs, ShellStates
      <3> QED
        BY <1>2, <3>1 DEF Reject, MarkCheckpoint, SkipMode, MarkMode, SkipAuto, EvaluateGate,
           AutoJob
    <2> QED
      BY <1>1, <2>1
  <1>3. CASE MarkDecision(o)
    <2>1. [slice |-> "execute", argument |-> "none"] \in Jobs
      BY DEF Jobs
    <2>2. CASE Approves(o)
      BY <1>1, <1>3, <2>1, <2>2 DEF MarkDecision, Entitled
    <2>3. CASE ~Approves(o)
      <3>1. Finish(o)
        BY <1>3, <2>3 DEF MarkDecision
      <3>2. pc'[o] = "idle"
        BY <3>1 DEF Finish, Goto, TypeOK, VolatileTypeOK
      <3> QED
        BY <1>1, <2>1, <3>1, <3>2 DEF Entitled
    <2> QED
      BY <2>2, <2>3
  <1>4. CASE \/ BeginResolve(o) \/ CheckTarget(o) \/ PostRollback(o) \/ ReadBack(o) \/ RecordRollback(o)
             \/ BeginProbe(o) \/ RequestProbe(o) \/ RecordProbe(o) \/ RequestVerifier(o)
             \/ RecordVerdict(o) \/ SaveCheckpoint(o) \/ BeginMode(o) \/ SaveMode(o) \/ BeginAuto(o)
    <2>1. UNCHANGED job /\ Confined(o) /\ pc'[o] \notin EntitledLabels
      BY <1>4 DEF BeginResolve, CheckTarget, PostRollback, ReadBack, RecordRollback, BeginProbe,
         RequestProbe, RecordProbe, RequestVerifier, RecordVerdict, SaveCheckpoint,
         BeginMode, SaveMode, BeginAuto, ToolEnds, Goto, slice, Confined, EntitledLabels,
         TypeOK, VolatileTypeOK
    <2> QED
      BY <2>1 DEF Entitled, EntitledLabels
  <1>5. CASE ProbeEndpoint(o)
    <2>1. PICK k \in 1 .. 3 : ProbeEndpoint(o)!(k)
      BY <1>5 DEF ProbeEndpoint
    <2>2. UNCHANGED <<job, context, branch, verdict>>
      BY <2>1
    <2>3. \E next \in WaitLabels : pc' = [pc EXCEPT ![o] = next]
      BY <2>1 DEF ToolEnds, Goto, ProbeLabels, WaitLabels
    <2>4. Confined(o) /\ pc'[o] \notin EntitledLabels
      BY <2>2, <2>3 DEF Confined, WaitLabels, EntitledLabels, TypeOK, VolatileTypeOK
    <2> QED
      BY <2>2, <2>4 DEF Entitled, EntitledLabels
  <1>6. CASE ReadCheckpoint(o) \/ SaveDecision(o) \/ BeginExecute(o)
    BY <1>6 DEF ReadCheckpoint, SaveDecision, BeginExecute, slice, Goto, Confined, Entitled,
       Approves,
       TypeOK, VolatileTypeOK
  <1> QED
    BY <1>2, <1>3, <1>4, <1>5, <1>6 DEF Proceed

LEMMA NextApprovalsCounted == TypeInv /\ ApprovalsCounted /\ [Next]_vars => ApprovalsCounted'
  <1> SUFFICES ASSUME TypeInv, ApprovalsCounted, [Next]_vars PROVE ApprovalsCounted'
    OBVIOUS
  <1>0. TypeOK /\ WriterJobs
    BY DEF TypeInv
  <1> USE <1>0
  <1>1. ASSUME NEW o \in Operators, RecordDecision(o) PROVE ApprovalsCounted'
    <2> DEFINE e == Event("approval_resolved", job[o].argument, NextStep(o), ApprovalOf(o))
    <2>1. /\ Append1(e) /\ Confined(o) /\ pc'[o] = "save_decision" /\ UNCHANGED job
          /\ job[o].slice = "resolve"
      BY <1>1 DEF RecordDecision, Goto, Confined, slice, WriterJobs, TypeOK, VolatileTypeOK
    <2>2. \A p \in Operators : pc'[p] = "request_rollback" => job'[p].slice = "execute"
      BY <2>1 DEF ApprovalsCounted, Confined
    <2>3. CASE Approves(o)
      <3>1. e.type = "approval_resolved" /\ e.status = "approved"
        BY <2>3 DEF Event, ApprovalOf
      <3> HIDE DEF e
      <3> QED
        BY <2>1, <2>2, <3>1, OthersEntitled, ApprovalCounted
    <2>4. CASE ~Approves(o)
      <3>1. ~Entitled(o)'
        BY <2>1, <2>4 DEF Entitled, Approves
      <3>2. EntitledOperators' \subseteq EntitledOperators
        BY <2>1, <3>1, OthersEntitled
      <3>3. /\ Len(transcript) \in Nat /\ e.type = "approval_resolved" /\ e.status # "approved"
        BY <2>4, Counted DEF Event, ApprovalOf
      <3> HIDE DEF e
      <3> QED
        BY <2>1, <2>2, <3>2, <3>3, NothingCounted DEF Denies
    <2> QED
      BY <2>3, <2>4
  <1>2. ASSUME NEW o \in Operators, RequestRollback(o) PROVE ApprovalsCounted'
    <2> DEFINE e == Event("tool_request", ActionExecution.tool, NextStep(o), "none")
    <2>1. /\ Append1(e) /\ Confined(o) /\ pc'[o] = "check_target"
          /\ job[o].slice = "execute" /\ pc[o] = "request_rollback"
      BY <1>2 DEF RequestRollback, Goto, Confined, slice, ApprovalsCounted, TypeOK, VolatileTypeOK
    <2>2. \A p \in Operators : pc'[p] = "request_rollback" => job'[p].slice = "execute"
      BY <2>1 DEF ApprovalsCounted, Confined
    <2>3. e.type = "tool_request" /\ e.name = ActionExecution.tool
      BY DEF Event
    <2>4. o \in EntitledOperators /\ ~Entitled(o)'
      BY <1>2, <2>1 DEF RequestRollback, EntitledOperators, Entitled
    <2> HIDE DEF e
    <2> QED
      BY <2>1, <2>2, <2>3, <2>4, OthersEntitled, RequestCounted
  <1>3. ASSUME NEW o \in Operators, ~RecordDecision(o), ~RequestRollback(o),
               \/ \E command \in Commands : StartCommand(o, command)
               \/ Proceed(o) \/ Crash(o) \/ CrashMidLine(o)
        PROVE  /\ Confined(o) /\ (Entitled(o)' => Entitled(o))
               /\ pc'[o] = "request_rollback" => job'[o].slice = "execute"
    <2>1. ASSUME NEW command \in Commands, StartCommand(o, command)
          PROVE  Confined(o) /\ ~Entitled(o)' /\ pc'[o] = "load"
      <3>1. JobOf(command).slice # "execute"
        BY CommandsAssumption DEF JobOf, AllCommands, Decisions, Modes
      <3> QED
        BY <2>1, <3>1 DEF StartCommand, Goto, Confined, Entitled, slice, TypeOK, VolatileTypeOK
    <2>2. CASE Crash(o) \/ CrashMidLine(o)
      BY <2>2 DEF Crash, CrashMidLine, Finish, Goto, NoJob, Confined, Entitled, TypeOK,
         VolatileTypeOK
    <2> QED
      BY <1>3, <2>1, <2>2, StepsEntitle
  <1>4. ASSUME NEW o \in Operators, ~RecordDecision(o), ~RequestRollback(o),
               \/ \E command \in Commands : StartCommand(o, command)
               \/ Proceed(o) \/ Crash(o) \/ CrashMidLine(o)
        PROVE  ApprovalsCounted'
    <2>1. EntitledOperators' \subseteq EntitledOperators
      BY <1>3, <1>4, OthersEntitled
    <2>2. \A p \in Operators : pc'[p] = "request_rollback" => job'[p].slice = "execute"
      BY <1>3, <1>4 DEF ApprovalsCounted, Confined
    <2>3. UNCHANGED transcript \/ \E e : Append1(e) /\ ~Counts(e)
      BY <1>4, StepLogs
    <2> QED
      BY <2>1, <2>2, <2>3, NothingCounted
  <1>5. CASE RestartTarget \/ UNCHANGED vars
    <2>1. UNCHANGED <<transcript, pc, job>>
      BY <1>5 DEF RestartTarget, vars, durable
    <2>2. EntitledOperators' = EntitledOperators
      BY <2>1 DEF EntitledOperators, Entitled, Approves
    <2> QED
      BY <2>1, <2>2, NothingCounted DEF ApprovalsCounted
  <1> QED
    BY <1>1, <1>2, <1>4, <1>5 DEF Next

LEMMA InitApprovalsCounted == ASSUME Init PROVE ApprovalsCounted
  <1>1. TypeOK
    BY InitTypeInv DEF TypeInv
  <1>2. \A i \in Positions : ~RequestedAt(i, ActionExecution) /\ ~ApprovedAt(i)
    BY InitUndecided DEF RequestedAt, ApprovedAt, DecidedAt
  <1>3. \A n \in 0 .. Len(transcript) : Requests(n) = {} /\ Approvings(n) = {}
    <2>1. \A n \in 0 .. Len(transcript) : 1 .. n \subseteq Positions
      BY <1>1, Counted DEF Positions
    <2> QED
      BY <1>2, <2>1 DEF Requests, Approvings
  <1>4. EntitledOperators = {}
    BY DEF EntitledOperators, Entitled, Init
  <1>5. Cardinality({}) = 0
    BY FS_EmptySet
  <1>6. RequestsNeverOutnumberApprovals
    <2>1. \A n \in Positions : n \in 0 .. Len(transcript)
      BY <1>1, Counted DEF Positions
    <2> QED
      BY <1>3, <1>5, <2>1 DEF RequestsNeverOutnumberApprovals, Requests, Approvings
  <1>7. Len(transcript) \in 0 .. Len(transcript)
    BY <1>1, Counted
  <1>8. Cardinality(Requests(Len(transcript))) + Cardinality(EntitledOperators)
          <= Cardinality(Approvings(Len(transcript)))
    <2>1. /\ Requests(Len(transcript)) = {} /\ Approvings(Len(transcript)) = {}
          /\ EntitledOperators = {}
      BY <1>3, <1>4, <1>7
    <2>2. /\ Cardinality(Requests(Len(transcript))) = 0
          /\ Cardinality(Approvings(Len(transcript))) = 0
          /\ Cardinality(EntitledOperators) = 0
      BY <1>5, <2>1
    <2> QED
      BY <2>2
  <1> QED
    BY <1>6, <1>8 DEF ApprovalsCounted, Init

\* At every point of the transcript at least as many approvals as write-capable
\* requests stand before it: each approval starts one execution of the rollback step
\* (live_surface.py:224-246), whoever approves and however the operators interleave.
THEOREM RequestsAreCounted == Spec => []RequestsNeverOutnumberApprovals
  <1>1. Init => TypeInv /\ ApprovalsCounted
    BY InitTypeInv, InitApprovalsCounted
  <1>2. TypeInv /\ ApprovalsCounted /\ [Next]_vars => TypeInv' /\ ApprovalsCounted'
    BY NextTypeInv, NextApprovalsCounted
  <1>3. ApprovalsCounted => RequestsNeverOutnumberApprovals
    BY DEF ApprovalsCounted
  <1> QED
    BY <1>1, <1>2, <1>3, PTL DEF Spec

=============================================================================
