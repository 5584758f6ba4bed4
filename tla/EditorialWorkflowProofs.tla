------------------------- MODULE EditorialWorkflowProofs -------------------------
(***************************************************************************)
(* Proofs about EditorialWorkflow, for every set of runners, requests,     *)
(* users and documents, and every bound: the types, one writer for each    *)
(* run, and the end of a run is final.                                     *)
(***************************************************************************)
EXTENDS EditorialWorkflow, TLAPS

-----------------------------------------------------------------------------
(* Control: what a point of run() says about the reply being handled. *)

DraftPoints ==
    {"emit_memory_decided", "save_fact", "emit_fact_saved", "read_latest",
     "create_version"}
ApprovalPoints == {"emit_approval_requested", "approval_gate"}
AcceptancePoints == {"handoff_acceptance", "emit_handoff_acceptance"}

ControlAt(r, point) ==
    /\ reply[r] = "complete" => draft[r] \in Content
    /\ point \in DraftPoints => reply[r] = "complete"
    /\ point \in {"emit_review", "transition"} => reply[r] \in {"accept", "revise"}
    /\ point \in ApprovalPoints => asking[r] \in {"executor", "critic", "final"}
    /\ point \in AcceptancePoints => asking[r] = "final"
    /\ point # "idle" => context[r] # NoContext

Control == \A r \in Runner : ControlAt(r, pc[r])

LocalTypeOK ==
    /\ pc \in [Runner -> Points]
    /\ context \in [Runner -> Context \cup {NoContext}]
    /\ eventSequence \in [Runner -> Nat]
    /\ handoffSequence \in [Runner -> Nat]
    /\ revisionCount \in [Runner -> Nat]
    /\ current \in [Runner -> VersionRef \cup {NoVersion}]
    /\ previous \in [Runner -> Feedback \cup {NoFeedback}]
    /\ pushed \in [Runner -> VersionRef \cup {NoVersion}]
    /\ latest \in [Runner -> Nat]
    /\ draft \in [Runner -> Content \cup {NoDraft}]
    /\ reply \in [Runner -> {NoReply, "complete", "blocked", "accept", "revise",
                             "ungrounded"}]
    /\ feedback \in [Runner -> Feedback \cup {NoFeedback}]
    /\ asking \in [Runner -> {NoReply, "executor", "critic", "final"}]
    /\ result \in [Runner -> {NoReply} \cup Terminal]
    /\ facts \in [RunId -> Nat]
    /\ faults \in Nat /\ crashes \in Nat /\ grants \in Nat

TypeInv == RepoTypeOK /\ LocalTypeOK /\ Control

(* The context of a runner that has been called is one of the requests. *)
LEMMA ContextType ==
    ASSUME TypeInv, NEW r \in Runner, pc[r] # "idle"
    PROVE  /\ context[r] \in Context
           /\ RunOf(r) \in RunId
           /\ UserOf(r) \in User
           /\ DocumentOf(r) \in Document
  BY WorkflowConstants
     DEF TypeInv, LocalTypeOK, Control, ControlAt, RunOf, UserOf, DocumentOf

(* The initial state has these types.                                        *)
LEMMA InitTypeInv == Init => TypeInv
  <1> SUFFICES ASSUME Init PROVE TypeInv
    OBVIOUS
  <1>1. RepoTypeOK
    BY WorkflowConstants, RepositoryConstants
       DEF Init, RepoTypeOK, VersionRow, NoAccess, Owner
  <1>2. LocalTypeOK
    BY DEF Init, LocalTypeOK, Points, NoReply
  <1>3. Control
    BY DEF Init, Control, ControlAt, DraftPoints, ApprovalPoints, AcceptancePoints, NoReply
  <1>4. QED
    BY <1>1, <1>2, <1>3 DEF TypeInv

(* Every step of run() moves its own runner's pc and nobody else's. *)
LEMMA EmitTypeInv ==
    ASSUME TypeInv, NEW r \in Runner, NEW from, from # "idle",
           NEW type \in WorkflowEvent, NEW version \in VersionRef \cup {NoVersion},
           NEW detail \in WorkflowDetail, NEW to \in Points, ControlAt(r, to),
           Emit(r, from, type, version, detail, to)
    PROVE  TypeInv'
  <1> USE DEF Emit, GoTo, progress, reading, replyVars, budgets
  <1>1. RepoTypeOK'
    <2> DEFINE row == [run |-> RunOf(r), sequence |-> eventSequence[r] + 1,
                       type |-> type, version |-> version, detail |-> detail]
    <2>1. row \in EventRow
      BY ContextType, WorkflowConstants DEF TypeInv, LocalTypeOK, EventRow
    <2>2. events' = events \cup {row}
      BY DEF AppendEvent
    <2> QED
      BY <2>1, <2>2 DEF TypeInv, RepoTypeOK, accessVars
  <1>2. LocalTypeOK'
    BY DEF TypeInv, LocalTypeOK
  <1>3. Control'
    BY DEF TypeInv, Control, ControlAt, LocalTypeOK
  <1>4. QED
    BY <1>1, <1>2, <1>3 DEF TypeInv

(* The points at which a run is ending without success, those at which its *)
(* source is not shown yet, those at which the current version is one of   *)
(* the run, and those at which the Critic has accepted it.                 *)
EndPoints == {"emit_blocked", "set_blocked", "emit_failed", "set_failed"}
StartPoints == {"emit_started", "push_executor", "emit_executor_context"}
DraftedPoints ==
    {"emit_version_created", "handoff_critic", "emit_handoff_critic", "push_critic",
     "emit_critic_context", "critic_turn", "critic_reply", "critic_outcome",
     "emit_review", "transition", "emit_completed", "set_completed"}
        \cup AcceptancePoints

DraftedAt(r, point) ==
    \/ point \in DraftedPoints
    \/ point \in ApprovalPoints /\ asking[r] \in {"critic", "final"}

AcceptedAt(r, point) ==
    \/ point \in AcceptancePoints \cup {"emit_completed"}
    \/ point = "transition" /\ reply[r] = "accept"
    \/ point \in ApprovalPoints /\ asking[r] = "final"

(* The points of a round at which its draft is not made yet, at which the   *)
(* version made in it is announced, and at which that version is handed to  *)
(* the Critic.                                                             *)
OpenAt(r, point) ==
    \/ point \in {"emit_started", "push_executor", "emit_executor_context",
                  "executor_turn", "executor_reply", "executor_outcome",
                  "emit_handoff_executor", "emit_revision_requested"} \cup DraftPoints
    \/ point \in ApprovalPoints /\ asking[r] = "executor"

MadeAt(r, point) ==
    \/ point \in DraftedPoints \ {"emit_version_created"}
    \/ point \in ApprovalPoints /\ asking[r] \in {"critic", "final"}

HandedAt(r, point) == MadeAt(r, point) /\ point # "handoff_critic"

(* ... and what an event must be for the step that records it to lead on   *)
(* within a round, and to decide on the private memory and carry that out.  *)
RoundLeads(r, from, type, version, detail, to) ==
    /\ OpenAt(r, to) => OpenAt(r, from)
    /\ MadeAt(r, to) => MadeAt(r, from) \/ type = "document_version_created"
    /\ HandedAt(r, to) => HandedAt(r, from)
    /\ type = "document_version_created" => version = current[r]
    /\ to \in DraftPoints <=> from \in DraftPoints
    /\ to \notin {"handoff_executor", "emit_memory_decided", "emit_fact_saved",
                  "create_version"}
    /\ to = "save_fact" => type = "memory_save_decided" /\ detail = "save"
    /\ to = "read_latest" =>
            \/ type = "memory_save_decided" /\ detail = "no_save"
            \/ type = "private_fact_saved"
    /\ type = "memory_save_decided" => from = "emit_memory_decided"
    /\ type = "private_fact_saved" => from = "emit_fact_saved"

(* ... and to give the evidence of a run: what it started from, and what    *)
(* was asked before it was answered.                                       *)
EvidenceLeads(r, from, type, version, detail, to) ==
    /\ from = "emit_started" => type = "run_started" /\ to = "push_executor"
    /\ from = "emit_executor_context" =>
            type = "context_attached" /\ version = pushed[r] /\ detail = "executor"
    /\ type = "context_attached" =>
            from \in {"emit_executor_context", "emit_critic_context"}
    /\ from \in EndPoints => to \in EndPoints
    /\ to \notin {"emit_started", "emit_executor_context"}
    /\ to = "approval_gate" => type = "approval_requested" /\ detail = "none"
    /\ type = "approval_resolved" => from = "approval_gate"

(* What an event must be for the step that records it: a decline ends the  *)
(* run, only the acceptance and the approval of the current version lead to *)
(* its completion.                                                         *)
Leads(r, from, type, version, detail, to) ==
    /\ to \notin EndPoints =>
            from \notin EndPoints /\ ~ (type = "approval_resolved" /\ detail = "declined")
    /\ DraftedAt(r, to) => DraftedAt(r, from)
    /\ AcceptedAt(r, to) =>
            \/ AcceptedAt(r, from)
            \/ type = "critic_review_completed" /\ version = current[r] /\ detail = "accept"
    /\ to = "emit_completed" =>
            /\ AcceptedAt(r, from)
            /\ type = "approval_resolved" /\ version = current[r] /\ detail = "approved"
    /\ to = "set_completed" =>
            from = "emit_completed" /\ type = "run_completed" /\ version = current[r]
    /\ to = "set_blocked" => type = "run_blocked"
    /\ to = "set_failed" => type = "run_failed"
    /\ type = "critic_review_completed" => from = "emit_review" /\ version = current[r]
    /\ RoundLeads(r, from, type, version, detail, to)
    /\ EvidenceLeads(r, from, type, version, detail, to)

(* Where an emission leaves from, what it records and where it leads. *)
EmissionFrom(r, from, type, version, detail, to) ==
    /\ from \in EmitPoints
    /\ type \in WorkflowEvent
    /\ version \in VersionRef \cup {NoVersion}
    /\ detail \in WorkflowDetail
    /\ to \in Working
    /\ ControlAt(r, to)
    /\ Leads(r, from, type, version, detail, to)
    /\ Emit(r, from, type, version, detail, to)

(* Every emission has that shape. *)
LEMMA EmissionShape ==
    ASSUME TypeInv, NEW r \in Runner, Emission(r)
    PROVE  \E from, type, version, detail, to :
                EmissionFrom(r, from, type, version, detail, to)
  <1>1. /\ current[r] \in VersionRef \cup {NoVersion}
        /\ pushed[r] \in VersionRef \cup {NoVersion}
        /\ ApprovalVersion(r) \in VersionRef \cup {NoVersion}
        /\ NoVersion \in VersionRef \cup {NoVersion}
        /\ ControlAt(r, pc[r])
    BY DEF TypeInv, LocalTypeOK, Control, ApprovalVersion
  <1>2. \A from, type, version, detail, to :
            Emit(r, from, type, version, detail, to) => ControlAt(r, from)
    BY <1>1 DEF Emit, GoTo
  <1> USE DEF ControlAt, DraftPoints, ApprovalPoints, AcceptancePoints, Working,
              CallPoints, DecisionPoints, EmitPoints, HandoffPoints, ReadPoints,
              StatusPoints, WorkflowEvent, WorkflowDetail, Leads, EndPoints,
              DraftedPoints, DraftedAt, AcceptedAt, ApprovalVersion, RoundLeads,
              OpenAt, MadeAt, HandedAt, EvidenceLeads
  <1>3. CASE EmitRunStarted(r)
    <2>1. EmissionFrom(r, "emit_started", "run_started", NoVersion, "none",
                       "push_executor")
      BY <1>3, <1>1, <1>2 DEF EmissionFrom, EmitRunStarted
    <2> QED
      BY <2>1
  <1>4. CASE EmitExecutorContext(r)
    <2>1. EmissionFrom(r, "emit_executor_context", "context_attached", pushed[r],
                       "executor", "executor_turn")
      BY <1>4, <1>1, <1>2 DEF EmissionFrom, EmitExecutorContext
    <2> QED
      BY <2>1
  <1>5. CASE EmitCriticContext(r)
    <2>1. EmissionFrom(r, "emit_critic_context", "context_attached", pushed[r],
                       "critic", "critic_turn")
      BY <1>5, <1>1, <1>2 DEF EmissionFrom, EmitCriticContext
    <2> QED
      BY <2>1
  <1>6. CASE ExecutorTurn(r)
    <2>1. EmissionFrom(r, "executor_turn", "model_turn_completed", NoVersion,
                       "executor", "executor_reply")
      BY <1>6, <1>1, <1>2 DEF EmissionFrom, ExecutorTurn
    <2> QED
      BY <2>1
  <1>7. CASE CriticTurn(r)
    <2>1. EmissionFrom(r, "critic_turn", "model_turn_completed", NoVersion,
                       "critic", "critic_reply")
      BY <1>7, <1>1, <1>2 DEF EmissionFrom, CriticTurn
    <2> QED
      BY <2>1
  <1>8. CASE EmitMemoryDecided(r)
    <2>1. PICK save \in SavesFact :
            Emit(r, "emit_memory_decided", "memory_save_decided", NoVersion,
                 IF save THEN "save" ELSE "no_save",
                 IF save THEN "save_fact" ELSE "read_latest")
      BY <1>8 DEF EmitMemoryDecided
    <2>2. EmissionFrom(r, "emit_memory_decided", "memory_save_decided", NoVersion,
                 IF save THEN "save" ELSE "no_save",
                 IF save THEN "save_fact" ELSE "read_latest")
      BY <2>1, <1>1, <1>2 DEF EmissionFrom
    <2> QED
      BY <2>2
  <1>9. CASE EmitFactSaved(r)
    <2>1. EmissionFrom(r, "emit_fact_saved", "private_fact_saved", NoVersion,
                       "none", "read_latest")
      BY <1>9, <1>1, <1>2 DEF EmissionFrom, EmitFactSaved
    <2> QED
      BY <2>1
  <1>10. CASE EmitVersionCreated(r)
    <2>1. EmissionFrom(r, "emit_version_created", "document_version_created",
                       current[r], "none", "handoff_critic")
      BY <1>10, <1>1, <1>2 DEF EmissionFrom, EmitVersionCreated
    <2> QED
      BY <2>1
  <1>11. CASE EmitHandoffToCritic(r)
    <2>1. EmissionFrom(r, "emit_handoff_critic", "handoff_created", current[r],
                       "executor", "push_critic")
      BY <1>11, <1>1, <1>2 DEF EmissionFrom, EmitHandoffToCritic
    <2> QED
      BY <2>1
  <1>12. CASE EmitGroundingRejected(r)
    <2>1. EmissionFrom(r, "emit_grounding_rejected", "critic_grounding_rejected",
                       current[r], "none", "emit_failed")
      BY <1>12, <1>1, <1>2 DEF EmissionFrom, EmitGroundingRejected
    <2> QED
      BY <2>1
  <1>13. CASE EmitReview(r)
    <2>1. EmissionFrom(r, "emit_review", "critic_review_completed", current[r],
                       reply[r], "transition")
      BY <1>13, <1>1, <1>2 DEF EmissionFrom, EmitReview
    <2> QED
      BY <2>1
  <1>14. CASE EmitLimitReached(r)
    <2>1. EmissionFrom(r, "emit_limit_reached", "revision_limit_reached",
                       current[r], "none", "emit_blocked")
      BY <1>14, <1>1, <1>2 DEF EmissionFrom, EmitLimitReached
    <2> QED
      BY <2>1
  <1>15. CASE EmitHandoffToExecutor(r)
    <2>1. EmissionFrom(r, "emit_handoff_executor", "handoff_created", current[r],
                       "critic", "emit_revision_requested")
      BY <1>15, <1>1, <1>2 DEF EmissionFrom, EmitHandoffToExecutor
    <2> QED
      BY <2>1
  <1>16. CASE EmitRevisionRequested(r)
    <2>1. EmissionFrom(r, "emit_revision_requested", "revision_requested",
                       current[r], "critic", "push_executor")
      BY <1>16, <1>1, <1>2 DEF EmissionFrom, EmitRevisionRequested
    <2> QED
      BY <2>1
  <1>17. CASE EmitHandoffAcceptance(r)
    <2>1. EmissionFrom(r, "emit_handoff_acceptance", "handoff_created",
                       current[r], "critic", "emit_approval_requested")
      BY <1>17, <1>1, <1>2 DEF EmissionFrom, EmitHandoffAcceptance
    <2> QED
      BY <2>1
  <1>18. CASE EmitApprovalRequested(r)
    <2>1. EmissionFrom(r, "emit_approval_requested", "approval_requested",
                       ApprovalVersion(r), "none", "approval_gate")
      BY <1>18, <1>1, <1>2 DEF EmissionFrom, EmitApprovalRequested
    <2> QED
      BY <2>1
  <1>19. CASE Approve(r)
    <2>1. EmissionFrom(r, "approval_gate", "approval_resolved",
                       ApprovalVersion(r), "approved", AfterApproval(r))
      BY <1>19, <1>1, <1>2 DEF EmissionFrom, Approve, AfterApproval
    <2> QED
      BY <2>1
  <1>20. CASE Decline(r)
    <2>1. EmissionFrom(r, "approval_gate", "approval_resolved",
                       ApprovalVersion(r), "declined", "emit_blocked")
      BY <1>20, <1>1, <1>2 DEF EmissionFrom, Decline
    <2> QED
      BY <2>1
  <1>21. CASE EmitRunCompleted(r)
    <2>1. EmissionFrom(r, "emit_completed", "run_completed", current[r], "none",
                       "set_completed")
      BY <1>21, <1>1, <1>2 DEF EmissionFrom, EmitRunCompleted
    <2> QED
      BY <2>1
  <1>22. CASE EmitRunBlocked(r)
    <2>1. EmissionFrom(r, "emit_blocked", "run_blocked", current[r], "none",
                       "set_blocked")
      BY <1>22, <1>1, <1>2 DEF EmissionFrom, EmitRunBlocked
    <2> QED
      BY <2>1
  <1>23. CASE EmitRunFailed(r)
    <2>1. EmissionFrom(r, "emit_failed", "run_failed", NoVersion, "none",
                       "set_failed")
      BY <1>23, <1>1, <1>2 DEF EmissionFrom, EmitRunFailed
    <2> QED
      BY <2>1
  <1> QED
    BY <1>3, <1>4, <1>5, <1>6, <1>7, <1>8, <1>9, <1>10, <1>11, <1>12, <1>13,
       <1>14, <1>15, <1>16, <1>17, <1>18, <1>19, <1>20, <1>21, <1>22, <1>23
       DEF Emission

(* Every emission keeps the types.                                           *)
LEMMA EmissionTypeInv ==
    ASSUME TypeInv, NEW r \in Runner, Emission(r)
    PROVE  TypeInv'
  <1>1. PICK from, type, version, detail, to :
            EmissionFrom(r, from, type, version, detail, to)
    BY EmissionShape
  <1>2. from # "idle" /\ to \in Points
    BY <1>1 DEF EmissionFrom, EmitPoints, Points
  <1> QED
    BY <1>1, <1>2, EmitTypeInv DEF EmissionFrom

(* A decision of run() changes no table. *)
LEMMA DecisionKeepsTables ==
    ASSUME NEW r \in Runner, Decision(r)
    PROVE  UNCHANGED <<repoVars, facts, budgets>>
  BY DEF Decision, RoleFails, GateFails, ExecutorCompletes, ExecutorBlocks,
         ExecutorOutcome, CriticAccepts, CriticRevises, CriticBlocks, CriticOutcome,
         AcceptDraft, ReachRevisionLimit, StallRevision, RequestRevision, Reply,
         Decide

(* Every decision keeps the types.                                           *)
LEMMA DecisionTypeInv ==
    ASSUME TypeInv, NEW r \in Runner, Decision(r)
    PROVE  TypeInv'
  <1>1. UNCHANGED <<repoVars, facts, budgets>>
    BY DecisionKeepsTables
  <1>2. RepoTypeOK'
    BY <1>1 DEF TypeInv, RepoTypeOK, repoVars
  <1>3. ControlAt(r, pc[r]) /\ pc[r] \in Points
    BY DEF TypeInv, Control, LocalTypeOK
  <1>4. LocalTypeOK' /\ Control'
    <2> USE <1>1, <1>3 DEF TypeInv, LocalTypeOK, Control, ControlAt, Decide, GoTo,
            budgets, localVars, counters, progress, reading, replyVars, Points, Working,
            CallPoints, DecisionPoints, EmitPoints, HandoffPoints, ReadPoints,
            StatusPoints, DraftPoints, ApprovalPoints, AcceptancePoints
    <2>1. CASE RoleFails(r)
      BY <2>1 DEF RoleFails
    <2>2. CASE GateFails(r)
      BY <2>2 DEF GateFails
    <2>3. CASE ExecutorCompletes(r)
      BY <2>3 DEF ExecutorCompletes, Reply
    <2>4. CASE ExecutorBlocks(r)
      BY <2>4 DEF ExecutorBlocks, Reply
    <2>5. CASE ExecutorOutcome(r)
      BY <2>5 DEF ExecutorOutcome
    <2>6. CASE CriticAccepts(r)
      BY <2>6 DEF CriticAccepts, Reply
    <2>7. CASE CriticRevises(r)
      BY <2>7 DEF CriticRevises, Reply
    <2>8. CASE CriticBlocks(r)
      BY <2>8 DEF CriticBlocks, Reply
    <2>9. CASE CriticOutcome(r)
      BY <2>9 DEF CriticOutcome
    <2>10. CASE AcceptDraft(r)
      BY <2>10 DEF AcceptDraft
    <2>11. CASE ReachRevisionLimit(r)
      BY <2>11 DEF ReachRevisionLimit
    <2>12. CASE StallRevision(r)
      BY <2>12 DEF StallRevision
    <2>13. CASE RequestRevision(r)
      BY <2>13 DEF RequestRevision
    <2> QED
      BY <2>1, <2>2, <2>3, <2>4, <2>5, <2>6, <2>7, <2>8, <2>9, <2>10, <2>11, <2>12, <2>13
         DEF Decision
  <1> QED
    BY <1>2, <1>4 DEF TypeInv

(* A handoff is a row of the handoff table, and only the pc and the handoff  *)
(* counter of its runner move.                                             *)
LEMMA HandoffTypeInv ==
    ASSUME TypeInv, NEW r \in Runner, NEW from, from # "idle",
           NEW sender \in Role, NEW receiver \in Role, NEW to \in Points,
           ControlAt(r, to), Handoff(r, from, sender, receiver, to)
    PROVE  TypeInv'
  <1> USE DEF Handoff, GoTo, progress, reading, replyVars, budgets
  <1>1. RepoTypeOK'
    <2> DEFINE row == [run |-> RunOf(r), sequence |-> handoffSequence[r] + 1,
                       round |-> revisionCount[r], from |-> sender,
                       to |-> receiver, version |-> current[r]]
    <2>1. row \in HandoffRow
      BY ContextType DEF TypeInv, LocalTypeOK, HandoffRow
    <2>2. handoffs' = handoffs \cup {row}
      BY DEF AppendHandoff
    <2> QED
      BY <2>1, <2>2 DEF TypeInv, RepoTypeOK, accessVars
  <1>2. LocalTypeOK'
    BY DEF TypeInv, LocalTypeOK
  <1>3. Control'
    BY DEF TypeInv, Control, ControlAt, LocalTypeOK
  <1>4. QED
    BY <1>1, <1>2, <1>3 DEF TypeInv

(* So does a status: it is written with its completion time.               *)
LEMMA SetStatusTypeInv ==
    ASSUME TypeInv, NEW r \in Runner, NEW from \in Working,
           NEW status \in Terminal, SetStatus(r, from, status)
    PROVE  TypeInv'
  <1> USE DEF SetStatus, Returns, counters, progress, reading, replyVars, budgets
  <1>1. pc[r] # "idle" /\ RunOf(r) \in RunId
    BY ContextType DEF Working, CallPoints, DecisionPoints, EmitPoints,
        HandoffPoints, ReadPoints, StatusPoints
  <1>2. runs' \in [RunId -> RunRow \cup {NoRun}]
    <2>1. runs[RunOf(r)] \in RunRow
      BY <1>1 DEF SetRunStatus, InRunScope, TypeInv, RepoTypeOK
    <2>2. runs' = [runs EXCEPT ![RunOf(r)].status = status,
                               ![RunOf(r)].completedAt = TRUE]
      BY DEF SetRunStatus
    <2> QED
      BY <2>1, <2>2, <1>1 DEF TypeInv, RepoTypeOK, RunRow, RunStatus
  <1>3. RepoTypeOK'
    BY <1>2 DEF TypeInv, RepoTypeOK, accessVars
  <1>4. LocalTypeOK'
    BY DEF TypeInv, LocalTypeOK, Points
  <1>5. Control'
    BY <1>1 DEF TypeInv, LocalTypeOK, Control, ControlAt, DraftPoints,
        ApprovalPoints, AcceptancePoints
  <1> QED
    BY <1>3, <1>4, <1>5 DEF TypeInv

(* Every other call of run() keeps the types.                                *)
LEMMA OtherCallTypeInv ==
    ASSUME TypeInv, NEW r \in Runner, OtherCall(r)
    PROVE  TypeInv'
  <1>1. ControlAt(r, pc[r]) /\ pc[r] \in Points
    BY DEF TypeInv, Control, LocalTypeOK
  <1>2. CASE StartRun(r)
    <2> USE <1>2 DEF StartRun, GoTo, localVars, counters, progress, reading,
            replyVars, budgets
    <2>1. pc[r] = "create_run" /\ RunOf(r) \in RunId /\ UserOf(r) \in User
            /\ DocumentOf(r) \in Document
      BY ContextType
    <2>2. runs' \in [RunId -> RunRow \cup {NoRun}]
      BY <2>1 DEF CreateRun, TypeInv, RepoTypeOK, RunRow, RunStatus
    <2>3. RepoTypeOK'
      BY <2>2 DEF TypeInv, RepoTypeOK, accessVars
    <2>4. LocalTypeOK' /\ Control'
      BY <1>1, <2>1 DEF TypeInv, LocalTypeOK, Control, ControlAt, Points, Working,
            CallPoints, DecisionPoints, EmitPoints, HandoffPoints, ReadPoints,
            StatusPoints, DraftPoints, ApprovalPoints, AcceptancePoints
    <2> QED
      BY <2>3, <2>4 DEF TypeInv
  <1>3. CASE RunRefused(r)
    <2> USE <1>3 DEF RunRefused, Returns
    <2>1. RepoTypeOK'
      BY DEF TypeInv, RepoTypeOK, repoVars
    <2>2. LocalTypeOK' /\ Control'
      BY <1>1 DEF TypeInv, LocalTypeOK, Control, ControlAt, counters, progress,
            reading, replyVars, budgets, Terminal, Points, Working,
            CallPoints, DecisionPoints, EmitPoints, HandoffPoints, ReadPoints,
            StatusPoints, DraftPoints, ApprovalPoints, AcceptancePoints
    <2> QED
      BY <2>1, <2>2 DEF TypeInv
  <1>4. CASE PushExecutorContext(r) \/ PushCriticContext(r)
    <2> USE <1>4 DEF PushExecutorContext, PushCriticContext, Push, Decide, GoTo
    <2>1. RepoTypeOK'
      BY DEF TypeInv, RepoTypeOK, repoVars
    <2>2. PICK v \in versions : pushed' = [pushed EXCEPT ![r] = Ref(v)]
      OBVIOUS
    <2>3. Ref(v) \in VersionRef
      BY DEF TypeInv, RepoTypeOK, VersionRow, VersionRef, Ref
    <2>4. LocalTypeOK' /\ Control'
      BY <1>1, <2>2, <2>3 DEF TypeInv, LocalTypeOK, Control, ControlAt, counters,
            progress, replyVars, budgets, Points, Working,
            CallPoints, DecisionPoints, EmitPoints, HandoffPoints, ReadPoints,
            StatusPoints, DraftPoints, ApprovalPoints, AcceptancePoints
    <2> QED
      BY <2>1, <2>4 DEF TypeInv
  <1>5. CASE ReadRefused(r) \/ DraftRefused(r)
    <2> USE <1>5 DEF ReadRefused, DraftRefused, Decide, GoTo
    <2>1. RepoTypeOK'
      BY DEF TypeInv, RepoTypeOK, repoVars
    <2>2. LocalTypeOK' /\ Control'
      BY <1>1 DEF TypeInv, LocalTypeOK, Control, ControlAt, localVars, counters,
            progress, reading, replyVars, budgets, Points, Working,
            CallPoints, DecisionPoints, EmitPoints, HandoffPoints, ReadPoints,
            StatusPoints, DraftPoints, ApprovalPoints, AcceptancePoints
    <2> QED
      BY <2>1, <2>2 DEF TypeInv
  <1>6. CASE SaveFact(r)
    <2> USE <1>6 DEF SaveFact, GoTo
    <2>1. RepoTypeOK'
      BY DEF TypeInv, RepoTypeOK, repoVars
    <2>2. facts' \in [RunId -> Nat]
      <3>1. RunOf(r) \in RunId
        BY ContextType
      <3> QED
        BY <3>1 DEF TypeInv, LocalTypeOK
    <2>3. LocalTypeOK' /\ Control'
      BY <1>1, <2>2 DEF TypeInv, LocalTypeOK, Control, ControlAt, localVars, counters,
            progress, reading, replyVars, budgets, Points, Working,
            CallPoints, DecisionPoints, EmitPoints, HandoffPoints, ReadPoints,
            StatusPoints, DraftPoints, ApprovalPoints, AcceptancePoints
    <2> QED
      BY <2>1, <2>3 DEF TypeInv
  <1>7. CASE ReadLatest(r)
    <2> USE <1>7 DEF ReadLatest, Decide, GoTo
    <2>1. RepoTypeOK'
      BY DEF TypeInv, RepoTypeOK, repoVars
    <2>2. PICK v \in versions : latest' = [latest EXCEPT ![r] = v.number]
      OBVIOUS
    <2>3. v.number \in Nat
      BY DEF TypeInv, RepoTypeOK, VersionRow
    <2>4. LocalTypeOK' /\ Control'
      BY <1>1, <2>2, <2>3 DEF TypeInv, LocalTypeOK, Control, ControlAt, counters,
            progress, replyVars, budgets, Points, Working,
            CallPoints, DecisionPoints, EmitPoints, HandoffPoints, ReadPoints,
            StatusPoints, DraftPoints, ApprovalPoints, AcceptancePoints
    <2> QED
      BY <2>1, <2>4 DEF TypeInv
  <1>8. CASE PersistDraft(r)
    <2> USE <1>8 DEF PersistDraft, GoTo
    <2>1. /\ RunOf(r) \in RunId
          /\ UserOf(r) \in User
          /\ DocumentOf(r) \in Document
      BY ContextType
    <2>2. draft[r] \in Content
      BY <1>1 DEF ControlAt, DraftPoints
    <2>3. DraftRow(r) \in VersionRow /\ Ref(DraftRow(r)) \in VersionRef
      BY <2>1, <2>2 DEF DraftRow, VersionRow, VersionRef, Ref, TypeInv, LocalTypeOK
    <2>4. RepoTypeOK'
      BY <2>3 DEF TypeInv, RepoTypeOK, CreateVersion, accessVars, runTables
    <2>5. LocalTypeOK' /\ Control'
      BY <1>1, <2>3 DEF TypeInv, LocalTypeOK, Control, ControlAt, counters,
            reading, replyVars, budgets, Points, Working,
            CallPoints, DecisionPoints, EmitPoints, HandoffPoints, ReadPoints,
            StatusPoints, DraftPoints, ApprovalPoints, AcceptancePoints
    <2> QED
      BY <2>4, <2>5 DEF TypeInv
  <1>9. CASE HandoffToCritic(r) \/ HandoffToExecutor(r) \/ HandoffAcceptance(r)
    <2>1. PICK from, sender, receiver, to :
            /\ from \in HandoffPoints
            /\ sender \in Role
            /\ receiver \in Role
            /\ to \in Working
            /\ ControlAt(r, from) => ControlAt(r, to)
            /\ Handoff(r, from, sender, receiver, to)
      <3> USE WorkflowConstants DEF ControlAt, Points, Working,
            CallPoints, DecisionPoints, EmitPoints, HandoffPoints, ReadPoints,
            StatusPoints, DraftPoints, ApprovalPoints, AcceptancePoints
      <3>1. CASE HandoffToCritic(r)
        BY <3>1 DEF HandoffToCritic
      <3>2. CASE HandoffToExecutor(r)
        BY <3>2 DEF HandoffToExecutor
      <3>3. CASE HandoffAcceptance(r)
        BY <3>3 DEF HandoffAcceptance
      <3> QED
        BY <1>9, <3>1, <3>2, <3>3
    <2>2. pc[r] = from /\ from # "idle" /\ to \in Points
      BY <2>1 DEF Handoff, GoTo, HandoffPoints, Points
    <2> QED
      BY <2>1, <2>2, <1>1, HandoffTypeInv
  <1>10. CASE SetCompleted(r) \/ SetBlocked(r) \/ SetFailed(r)
    <2>1. PICK from \in StatusPoints, status \in Terminal : SetStatus(r, from, status)
      BY <1>10 DEF SetCompleted, SetBlocked, SetFailed, StatusPoints, Terminal
    <2>2. from \in Working
      BY DEF Working, CallPoints
    <2> QED
      BY <2>1, <2>2, SetStatusTypeInv
  <1> QED
    BY <1>2, <1>3, <1>4, <1>5, <1>6, <1>7, <1>8, <1>9, <1>10 DEF OtherCall

(* Writes and grants of other users keep the types.                          *)
LEMMA OutsideTypeInv ==
    ASSUME TypeInv, NEW u \in User, NEW d \in Document,
           EditorWrites(u, d) \/ OwnerGrants(u, d)
    PROVE  TypeInv'
  <1>1. CASE EditorWrites(u, d)
    <2>1. PICK n \in 1 .. MaxVersions, text \in EditorContent :
            CreateVersion(u, [document |-> d, number |-> n, content |-> text,
                              author |-> u, run |-> NoRun])
      BY <1>1 DEF EditorWrites
    <2>2. [document |-> d, number |-> n, content |-> text, author |-> u,
           run |-> NoRun] \in VersionRow
      BY WorkflowConstants DEF VersionRow
    <2> QED
      BY <1>1, <2>1, <2>2 DEF EditorWrites, CreateVersion, TypeInv, RepoTypeOK,
            LocalTypeOK, Control, ControlAt, accessVars, runTables, localVars,
            counters, progress, reading, replyVars, budgets
  <1>2. CASE OwnerGrants(u, d)
    <2>1. PICK grantee \in User, level \in {Read, Edit} :
            access' = [access EXCEPT ![d][grantee] = level]
      BY <1>2 DEF OwnerGrants, GrantAccess
    <2>2. level \in NoAccess .. Owner
      BY DEF Read, Edit, NoAccess, Owner
    <2>3. access' \in [Document -> [User -> NoAccess .. Owner]]
      BY <2>1, <2>2 DEF TypeInv, RepoTypeOK
    <2> QED
      BY <1>2, <2>3 DEF OwnerGrants, TypeInv, RepoTypeOK,
            LocalTypeOK, Control, ControlAt, runTables, localVars,
            counters, progress, reading, replyVars, budgets
  <1> QED
    BY <1>1, <1>2

(* Calling run(), a fault or a crash keeps the types.                        *)
LEMMA ProcessTypeInv ==
    ASSUME TypeInv, NEW r \in Runner, Call(r) \/ CallFails(r) \/ Crash(r)
    PROVE  TypeInv'
  <1>1. RepoTypeOK'
    BY DEF TypeInv, RepoTypeOK, repoVars, Call, CallFails, Crash
  <1>2. ControlAt(r, pc[r]) /\ pc[r] \in Points
    BY DEF TypeInv, Control, LocalTypeOK
  <1> USE <1>2 DEF TypeInv, LocalTypeOK, Control, ControlAt, reading, replyVars,
            budgets, Points, Working,
            CallPoints, DecisionPoints, EmitPoints, HandoffPoints, ReadPoints,
            StatusPoints, DraftPoints, ApprovalPoints, AcceptancePoints
  <1>3. CASE Call(r)
    <2>1. PICK c \in Context : context' = [context EXCEPT ![r] = c]
      BY <1>3 DEF Call
    <2>2. c # NoContext
      BY WorkflowConstants
    <2> QED
      BY <1>1, <1>3, <2>1, <2>2 DEF Call, NoReply
  <1>4. CASE CallFails(r)
    BY <1>1, <1>4 DEF CallFails, Returns, Terminal, progress
  <1>5. CASE Crash(r)
    BY <1>1, <1>5 DEF Crash, localVars, counters, progress
  <1> QED
    BY <1>3, <1>4, <1>5

(* Every step keeps the types. *)
LEMMA StepTypeInv == TypeInv /\ [Next]_vars => TypeInv'
  <1> SUFFICES ASSUME TypeInv, [Next]_vars PROVE TypeInv'
    OBVIOUS
  <1>1. CASE Next
    <2>1. ASSUME NEW r \in Runner, Step(r) PROVE TypeInv'
      BY <2>1, EmissionTypeInv, OtherCallTypeInv, DecisionTypeInv DEF Step
    <2>2. ASSUME NEW r \in Runner, Call(r) \/ CallFails(r) \/ Crash(r)
          PROVE  TypeInv'
      BY <2>2, ProcessTypeInv
    <2>3. ASSUME NEW u \in User, NEW d \in Document,
                 EditorWrites(u, d) \/ OwnerGrants(u, d)
          PROVE  TypeInv'
      BY <2>3, OutsideTypeInv
    <2> QED
      BY <1>1, <2>1, <2>2, <2>3 DEF Next
  <1>2. CASE UNCHANGED vars
    BY <1>2 DEF vars, repoVars, localVars, counters, progress, reading,
          replyVars, budgets, TypeInv, RepoTypeOK, LocalTypeOK, Control, ControlAt
  <1> QED
    BY <1>1, <1>2

(* Every variable keeps its type, and a step of run() that stores a draft    *)
(* always has one to store: the Executor's reply is checked for a complete *)
(* result before anything of it is persisted.                              *)
THEOREM TypeInvariant == Spec => []TypeInv
  BY InitTypeInv, StepTypeInv, PTL DEF Spec

(* The type invariant of EditorialWorkflow.                                  *)
THEOREM TypeCorrect == Spec => []TypeOK
  <1>1. TypeInv => TypeOK
    BY DEF TypeInv, LocalTypeOK, Control, ControlAt, TypeOK
  <1> QED
    BY <1>1, TypeInvariant, PTL

-----------------------------------------------------------------------------
(* One writer per run.  A run identifier belongs to the runner that created  *)
(* the row, from StartRun to the end of its run(): nobody else can create it *)
(* again, and a runner that has not created it writes nothing.               *)

OwnsRun(r) ==
    /\ runs[RunOf(r)] # NoRun
    /\ runs[RunOf(r)].user = UserOf(r)
    /\ runs[RunOf(r)].document = DocumentOf(r)
    /\ runs[RunOf(r)].status = "running"
    /\ \A e \in events : e.run = RunOf(r) => e.sequence <= eventSequence[r]
    /\ \A h \in handoffs : h.run = RunOf(r) => h.sequence <= handoffSequence[r]

(* Distinct active runners have distinct runs. *)
Alone ==
    \A r, other \in Runner :
        pc[r] \in Working /\ pc[other] \in Working /\ RunOf(r) = RunOf(other)
        => r = other

(* A run that does not exist has left no trace. *)
Unborn ==
    \A id \in RunId : runs[id] = NoRun =>
        /\ \A e \in events : e.run # id
        /\ \A h \in handoffs : h.run # id
        /\ \A v \in versions : v.run # id

(* The user of a run may read its document. *)
Readable ==
    \A id \in RunId : runs[id] # NoRun =>
        HasAccess(runs[id].user, runs[id].document, Read)

WriterInv ==
    /\ \A r \in Runner : pc[r] \in Working => OwnsRun(r)
    /\ Alone
    /\ Unborn
    /\ Readable

(* At first nobody is active and no run exists.                              *)
LEMMA InitWriterInv == Init => WriterInv
  <1> SUFFICES ASSUME Init PROVE WriterInv
    OBVIOUS
  <1>1. \A r \in Runner : pc[r] \notin Working
    BY DEF Init, Working, CallPoints, DecisionPoints, EmitPoints, HandoffPoints,
           ReadPoints, StatusPoints
  <1>2. Unborn
    BY WorkflowConstants, RepositoryConstants DEF Init, Unborn
  <1>3. Readable
    BY DEF Init, Readable
  <1> QED
    BY <1>1, <1>2, <1>3 DEF WriterInv, Alone

(* An active runner is at a point of run() and its request is a run.         *)
LEMMA ActiveContext ==
    ASSUME TypeInv, NEW r \in Runner, pc[r] \in Working
    PROVE  RunOf(r) \in RunId /\ UserOf(r) \in User /\ DocumentOf(r) \in Document
  BY ContextType
     DEF Working, CallPoints, DecisionPoints, EmitPoints, HandoffPoints, ReadPoints,
         StatusPoints

(* An emission adds to its own runner's run the next event of that run.      *)
LEMMA EmissionWriter ==
    ASSUME TypeInv, WriterInv, NEW r \in Runner, NEW from \in Working, NEW type,
           NEW version, NEW detail, NEW to \in Working,
           Emit(r, from, type, version, detail, to)
    PROVE  WriterInv'
  <1> USE DEF Emit, GoTo, accessVars
  <1>1. pc[r] \in Working
    OBVIOUS
  <1>2. PICK row \in [run : {RunOf(r)}, sequence : {eventSequence[r] + 1}, type : {type},
                      version : {version}, detail : {detail}] :
            events' = events \cup {row}
    BY DEF AppendEvent
  <1>3. row.run = RunOf(r) /\ row.sequence = eventSequence[r] + 1
    BY <1>2
  <1>4. /\ UNCHANGED <<context, runs, versions, handoffs, users, owner, access,
                       handoffSequence>>
        /\ pc' = [pc EXCEPT ![r] = to]
        /\ eventSequence' = [eventSequence EXCEPT ![r] = @ + 1]
    OBVIOUS
  <1> HIDE DEF Emit, GoTo
  <1>5. \A o \in Runner : pc'[o] \in Working => pc[o] \in Working
    BY <1>1, <1>4 DEF TypeInv, LocalTypeOK
  <1>6. Alone'
    BY <1>4, <1>5 DEF WriterInv, Alone, RunOf
  <1>7. RunOf(r) \in RunId /\ runs[RunOf(r)] # NoRun
    BY <1>1, ActiveContext DEF WriterInv, OwnsRun
  <1>8. Unborn'
    BY <1>2, <1>3, <1>4, <1>7 DEF WriterInv, Unborn
  <1>9. Readable'
    BY <1>4 DEF WriterInv, Readable, HasAccess
  <1>10. ASSUME NEW o \in Runner, pc'[o] \in Working PROVE OwnsRun(o)'
    <2>1. OwnsRun(o) /\ pc[o] \in Working
      BY <1>5, <1>10 DEF WriterInv
    <2>2. o = r \/ RunOf(o) # RunOf(r)
      BY <2>1, <1>1 DEF WriterInv, Alone
    <2>3. eventSequence[o] \in Nat /\ \A e \in events : e.sequence \in Nat
      BY DEF TypeInv, LocalTypeOK, RepoTypeOK, EventRow
    <2> QED
      BY <1>2, <1>3, <1>4, <2>1, <2>2, <2>3
         DEF OwnsRun, RunOf, UserOf, DocumentOf, TypeInv, LocalTypeOK
  <1> QED
    BY <1>6, <1>8, <1>9, <1>10 DEF WriterInv

(* A handoff adds to its own runner's run the next handoff of that run.      *)
LEMMA HandoffWriter ==
    ASSUME TypeInv, WriterInv, NEW r \in Runner, NEW from \in Working, NEW sender,
           NEW receiver, NEW to \in Working, Handoff(r, from, sender, receiver, to)
    PROVE  WriterInv'
  <1> USE DEF Handoff, GoTo, accessVars
  <1>1. pc[r] \in Working
    OBVIOUS
  <1>2. PICK row \in [run : {RunOf(r)}, sequence : {handoffSequence[r] + 1},
                      round : {revisionCount[r]}, from : {sender}, to : {receiver},
                      version : {current[r]}] :
            handoffs' = handoffs \cup {row}
    BY DEF AppendHandoff
  <1>3. row.run = RunOf(r) /\ row.sequence = handoffSequence[r] + 1
    BY <1>2
  <1>4. /\ UNCHANGED <<context, runs, versions, events, users, owner, access,
                       eventSequence>>
        /\ pc' = [pc EXCEPT ![r] = to]
        /\ handoffSequence' = [handoffSequence EXCEPT ![r] = @ + 1]
    OBVIOUS
  <1> HIDE DEF Handoff, GoTo
  <1>5. \A o \in Runner : pc'[o] \in Working => pc[o] \in Working
    BY <1>1, <1>4 DEF TypeInv, LocalTypeOK
  <1>6. Alone'
    BY <1>4, <1>5 DEF WriterInv, Alone, RunOf
  <1>7. RunOf(r) \in RunId /\ runs[RunOf(r)] # NoRun
    BY <1>1, ActiveContext DEF WriterInv, OwnsRun
  <1>8. Unborn'
    BY <1>2, <1>3, <1>4, <1>7 DEF WriterInv, Unborn
  <1>9. Readable'
    BY <1>4 DEF WriterInv, Readable, HasAccess
  <1>10. ASSUME NEW o \in Runner, pc'[o] \in Working PROVE OwnsRun(o)'
    <2>1. OwnsRun(o) /\ pc[o] \in Working
      BY <1>5, <1>10 DEF WriterInv
    <2>2. o = r \/ RunOf(o) # RunOf(r)
      BY <2>1, <1>1 DEF WriterInv, Alone
    <2>3. handoffSequence[o] \in Nat /\ \A h \in handoffs : h.sequence \in Nat
      BY DEF TypeInv, LocalTypeOK, RepoTypeOK, HandoffRow
    <2> QED
      BY <1>2, <1>3, <1>4, <2>1, <2>2, <2>3
         DEF OwnsRun, RunOf, UserOf, DocumentOf, TypeInv, LocalTypeOK
  <1> QED
    BY <1>6, <1>8, <1>9, <1>10 DEF WriterInv

(* A step that touches no table and makes nobody active.                     *)
Quiet(r) ==
    /\ UNCHANGED <<repoVars, context>>
    /\ \E to \in Points :
            /\ pc' = [pc EXCEPT ![r] = to]
            /\ to \in Working => pc[r] \in Working
    /\ \A o \in Runner :
            /\ eventSequence[o] <= eventSequence'[o]
            /\ handoffSequence[o] <= handoffSequence'[o]

(* A quiet step changes no owner.                                            *)
LEMMA QuietWriter ==
    ASSUME TypeInv, TypeInv', WriterInv, NEW r \in Runner, Quiet(r)
    PROVE  WriterInv'
  <1>1. \A o \in Runner : pc'[o] \in Working => pc[o] \in Working
    BY DEF Quiet, TypeInv, LocalTypeOK
  <1>2. UNCHANGED <<repoVars, context>>
    BY DEF Quiet
  <1>3. ASSUME NEW o \in Runner, pc'[o] \in Working PROVE OwnsRun(o)'
    <2>1. OwnsRun(o)
      BY <1>1, <1>3 DEF WriterInv
    <2>2. /\ eventSequence[o] \in Nat /\ eventSequence'[o] \in Nat
          /\ handoffSequence[o] \in Nat /\ handoffSequence'[o] \in Nat
          /\ \A e \in events : e.sequence \in Nat
          /\ \A h \in handoffs : h.sequence \in Nat
      BY DEF TypeInv, LocalTypeOK, RepoTypeOK, EventRow, HandoffRow
    <2>3. eventSequence[o] <= eventSequence'[o] /\ handoffSequence[o] <= handoffSequence'[o]
      BY DEF Quiet
    <2> QED
      BY <1>2, <2>1, <2>2, <2>3 DEF OwnsRun, RunOf, UserOf, DocumentOf, repoVars
  <1> QED
    BY <1>1, <1>2, <1>3
       DEF WriterInv, Alone, Unborn, Readable, HasAccess, RunOf, repoVars

(* A step of one pc that keeps counters and tables is quiet.                 *)
LEMMA QuietStep ==
    ASSUME TypeInv, NEW r \in Runner, NEW to \in Points,
           to \in Working => pc[r] \in Working, pc' = [pc EXCEPT ![r] = to],
           UNCHANGED repoVars, UNCHANGED context, UNCHANGED counters
    PROVE  Quiet(r)
  <1>1. UNCHANGED eventSequence /\ UNCHANGED handoffSequence
    BY DEF counters
  <1>2. \A o \in Runner : eventSequence[o] \in Nat /\ handoffSequence[o] \in Nat
    BY DEF TypeInv, LocalTypeOK
  <1>3. \A o \in Runner : /\ eventSequence[o] <= eventSequence'[o]
                          /\ handoffSequence[o] <= handoffSequence'[o]
    BY <1>1, <1>2
  <1> QED
    BY <1>3, Zenon DEF Quiet

(* Decisions, refused calls, reads, faults and crashes are quiet.            *)
LEMMA QuietSteps ==
    ASSUME TypeInv, NEW r \in Runner,
           \/ Decision(r) \/ RunRefused(r) \/ PushExecutorContext(r)
           \/ PushCriticContext(r) \/ ReadRefused(r) \/ SaveFact(r) \/ ReadLatest(r)
           \/ DraftRefused(r) \/ CallFails(r) \/ Crash(r)
    PROVE  Quiet(r)
  <1>1. /\ \A point : point \in Working => point \in Points
        /\ \A point \in {"returned", "crashed"} : point \in Points \ Working
        /\ {"executor_reply", "critic_reply", "executor_outcome", "critic_outcome",
            "transition", "approval_gate", "executor_turn", "critic_turn",
            "push_executor", "push_critic", "read_latest", "save_fact",
            "create_version", "emit_executor_context", "emit_critic_context",
            "emit_fact_saved", "emit_failed"} \subseteq Working
    BY DEF Points, Working, CallPoints, DecisionPoints, EmitPoints, HandoffPoints,
           ReadPoints, StatusPoints
  <1>2. CASE Decision(r)
    <2>1. UNCHANGED repoVars
      BY <1>2, DecisionKeepsTables
    <2>2. UNCHANGED context /\ UNCHANGED counters
      BY <1>2 DEF Decision, RoleFails, GateFails, ExecutorCompletes, ExecutorBlocks,
         ExecutorOutcome, CriticAccepts, CriticRevises, CriticBlocks, CriticOutcome,
         AcceptDraft, ReachRevisionLimit, StallRevision, RequestRevision, Reply,
         localVars
    <2>3. PICK from \in Working, to \in Points : GoTo(r, from, to)
      <3>1. pc'[r] \in Points
        BY <1>2, DecisionTypeInv DEF TypeInv, LocalTypeOK
      <3>2. PICK from, to : from \in Working /\ GoTo(r, from, to)
        BY <1>1, <1>2 DEF Decision, RoleFails, GateFails, ExecutorCompletes,
         ExecutorBlocks, ExecutorOutcome, CriticAccepts, CriticRevises, CriticBlocks,
         CriticOutcome, AcceptDraft, ReachRevisionLimit, StallRevision,
         RequestRevision, Reply, Decide
      <3> QED
        BY <3>1, <3>2 DEF GoTo, TypeInv, LocalTypeOK
    <2>4. pc[r] \in Working /\ pc' = [pc EXCEPT ![r] = to]
      BY <2>3 DEF GoTo
    <2> QED
      BY <2>1, <2>2, <2>4, QuietStep
  <1>3. CASE RunRefused(r)
    <2>1. /\ pc' = [pc EXCEPT ![r] = "returned"]
          /\ UNCHANGED repoVars /\ UNCHANGED context /\ UNCHANGED counters
      BY <1>3 DEF RunRefused, Returns
    <2> QED
      BY <1>1, <2>1, QuietStep
  <1>4. CASE PushExecutorContext(r)
    <2>1. /\ pc[r] = "push_executor"
          /\ pc' = [pc EXCEPT ![r] = "emit_executor_context"]
          /\ UNCHANGED repoVars /\ UNCHANGED context /\ UNCHANGED counters
      BY <1>4 DEF PushExecutorContext, Push, Decide, GoTo
    <2> QED
      BY <1>1, <2>1, QuietStep
  <1>5. CASE PushCriticContext(r)
    <2>1. /\ pc[r] = "push_critic"
          /\ pc' = [pc EXCEPT ![r] = "emit_critic_context"]
          /\ UNCHANGED repoVars /\ UNCHANGED context /\ UNCHANGED counters
      BY <1>5 DEF PushCriticContext, Push, Decide, GoTo
    <2> QED
      BY <1>1, <2>1, QuietStep
  <1>6. CASE ReadRefused(r)
    <2>1. /\ pc[r] \in Working
          /\ pc' = [pc EXCEPT ![r] = "emit_failed"]
          /\ UNCHANGED repoVars /\ UNCHANGED context /\ UNCHANGED counters
      BY <1>1, <1>6 DEF ReadRefused, Decide, GoTo, localVars, ReadPoints
    <2> QED
      BY <1>1, <2>1, QuietStep
  <1>7. CASE SaveFact(r)
    <2>1. /\ pc[r] = "save_fact"
          /\ pc' = [pc EXCEPT ![r] = "emit_fact_saved"]
          /\ UNCHANGED repoVars /\ UNCHANGED context /\ UNCHANGED counters
      BY <1>7 DEF SaveFact, GoTo, localVars
    <2> QED
      BY <1>1, <2>1, QuietStep
  <1>8. CASE ReadLatest(r)
    <2>1. /\ pc[r] = "read_latest"
          /\ pc' = [pc EXCEPT ![r] = "create_version"]
          /\ UNCHANGED repoVars /\ UNCHANGED context /\ UNCHANGED counters
      BY <1>8 DEF ReadLatest, Decide, GoTo
    <2> QED
      BY <1>1, <2>1, QuietStep
  <1>9. CASE DraftRefused(r)
    <2>1. /\ pc[r] = "create_version"
          /\ pc' = [pc EXCEPT ![r] = "emit_failed"]
          /\ UNCHANGED repoVars /\ UNCHANGED context /\ UNCHANGED counters
      BY <1>9 DEF DraftRefused, Decide, GoTo, localVars
    <2> QED
      BY <1>1, <2>1, QuietStep
  <1>10. CASE CallFails(r)
    <2>1. PICK to \in {"emit_failed", "returned"} :
            /\ pc' = [pc EXCEPT ![r] = to]
            /\ to \in Working => pc[r] \in Working
      <3>1. CASE pc[r] \in CallPoints \ {"emit_failed", "set_failed"}
                    /\ pc' = [pc EXCEPT ![r] = "emit_failed"]
        BY <3>1 DEF Working
      <3>2. CASE pc' = [pc EXCEPT ![r] = "returned"]
        BY <3>2, <1>1
      <3> QED
        BY <1>10, <3>1, <3>2 DEF CallFails, Returns
    <2>2. UNCHANGED repoVars /\ UNCHANGED context
      BY <1>10 DEF CallFails
    <2>3. \A o \in Runner : eventSequence[o] \in Nat /\ handoffSequence[o] \in Nat
      BY DEF TypeInv, LocalTypeOK
    <2>4. \A o \in Runner : /\ eventSequence[o] <= eventSequence'[o]
                            /\ handoffSequence[o] <= handoffSequence'[o]
      <3>1. \A o \in Runner :
                eventSequence'[o] = eventSequence[o]
                    \/ eventSequence'[o] = eventSequence[o] + 1
        <4>1. CASE pc[r] \in EmitPoints
          <5>1. eventSequence' = [eventSequence EXCEPT ![r] = @ + 1]
            BY <1>10, <4>1 DEF CallFails
          <5> QED
            BY <5>1 DEF TypeInv, LocalTypeOK
        <4>2. CASE pc[r] \notin EmitPoints
          <5>1. eventSequence' = [eventSequence EXCEPT ![r] = @]
            BY <1>10, <4>2 DEF CallFails
          <5> QED
            BY <5>1 DEF TypeInv, LocalTypeOK
        <4> QED
          BY <4>1, <4>2
      <3>2. \A o \in Runner :
                handoffSequence'[o] = handoffSequence[o]
                    \/ handoffSequence'[o] = handoffSequence[o] + 1
        <4>1. CASE pc[r] \in HandoffPoints
          <5>1. handoffSequence' = [handoffSequence EXCEPT ![r] = @ + 1]
            BY <1>10, <4>1 DEF CallFails
          <5> QED
            BY <5>1 DEF TypeInv, LocalTypeOK
        <4>2. CASE pc[r] \notin HandoffPoints
          <5>1. handoffSequence' = [handoffSequence EXCEPT ![r] = @]
            BY <1>10, <4>2 DEF CallFails
          <5> QED
            BY <5>1 DEF TypeInv, LocalTypeOK
        <4> QED
          BY <4>1, <4>2
      <3> QED
        BY <2>3, <3>1, <3>2
    <2>5. to \in Points
      BY <1>1
    <2> QED
      BY <2>1, <2>2, <2>4, <2>5, Zenon DEF Quiet
  <1>11. CASE Crash(r)
    <2>1. /\ pc' = [pc EXCEPT ![r] = "crashed"]
          /\ UNCHANGED repoVars /\ UNCHANGED context /\ UNCHANGED counters
      BY <1>11 DEF Crash, localVars
    <2> QED
      BY <1>1, <2>1, QuietStep
  <1> QED
    BY <1>2, <1>3, <1>4, <1>5, <1>6, <1>7, <1>8, <1>9, <1>10, <1>11

(* A run is created by the runner that was called for it, and was not there  *)
(* before: no other active runner can have its identifier.                   *)
LEMMA StartRunWriter ==
    ASSUME TypeInv, WriterInv, NEW r \in Runner, StartRun(r)
    PROVE  WriterInv'
  <1> USE DEF StartRun, GoTo, CreateRun, CanCreateRun, accessVars, localVars, counters
  <1>1. /\ pc[r] = "create_run"
        /\ pc' = [pc EXCEPT ![r] = "emit_started"]
        /\ RunOf(r) \in RunId /\ UserOf(r) \in User /\ DocumentOf(r) \in Document
    BY ContextType
  <1>2. /\ runs[RunOf(r)] = NoRun
        /\ HasAccess(UserOf(r), DocumentOf(r), Read)
        /\ UNCHANGED <<context, versions, events, handoffs, users, owner, access,
                       eventSequence, handoffSequence>>
    OBVIOUS
  <1>3. PICK row \in RunRow :
            /\ runs' = [runs EXCEPT ![RunOf(r)] = row]
            /\ row.user = UserOf(r)
            /\ row.document = DocumentOf(r)
            /\ row.status = "running"
    <2> DEFINE row == [user |-> UserOf(r), document |-> DocumentOf(r),
                       status |-> "running", completedAt |-> FALSE]
    <2>1. row \in RunRow
      BY <1>1 DEF RunRow, RunStatus
    <2>2. runs' = [runs EXCEPT ![RunOf(r)] = row]
      OBVIOUS
    <2>3. row.user = UserOf(r) /\ row.document = DocumentOf(r) /\ row.status = "running"
      OBVIOUS
    <2> HIDE DEF row
    <2> QED
      BY <2>1, <2>2, <2>3
  <1>4. row # NoRun
    BY NoRunIsNoRow
  <1> HIDE DEF StartRun, GoTo, CreateRun, CanCreateRun
  <1>5. \A o \in Runner : o # r => (pc'[o] \in Working <=> pc[o] \in Working)
    BY <1>1 DEF TypeInv, LocalTypeOK
  <1>6. \A o \in Runner : o # r /\ pc[o] \in Working => RunOf(o) # RunOf(r)
    BY <1>2 DEF WriterInv, OwnsRun
  <1>7. Alone'
    BY <1>2, <1>5, <1>6 DEF WriterInv, Alone, RunOf
  <1>8. Unborn'
    BY <1>1, <1>2, <1>3, <1>4 DEF WriterInv, Unborn, TypeInv, RepoTypeOK
  <1>9. Readable'
    <2>1. ASSUME NEW id \in RunId, runs'[id] # NoRun
          PROVE  HasAccess(runs'[id].user, runs'[id].document, Read)
      BY <1>1, <1>2, <1>3, <2>1 DEF WriterInv, Readable, TypeInv, RepoTypeOK
    <2>2. \A u, d : HasAccess(u, d, Read) => HasAccess(u, d, Read)'
      BY <1>2 DEF HasAccess
    <2> QED
      BY <2>1, <2>2 DEF Readable, HasAccess
  <1>10. ASSUME NEW o \in Runner, pc'[o] \in Working PROVE OwnsRun(o)'
    <2>1. CASE o = r
      <3>1. /\ \A e \in events : e.run # RunOf(r)
            /\ \A h \in handoffs : h.run # RunOf(r)
        BY <1>1, <1>2 DEF WriterInv, Unborn
      <3> QED
        BY <1>1, <1>2, <1>3, <1>4, <2>1, <3>1
           DEF OwnsRun, RunOf, UserOf, DocumentOf, TypeInv, RepoTypeOK
    <2>2. CASE o # r
      <3>1. OwnsRun(o) /\ RunOf(o) # RunOf(r)
        BY <1>5, <1>6, <1>10, <2>2 DEF WriterInv
      <3> QED
        BY <1>1, <1>2, <1>3, <3>1
           DEF OwnsRun, RunOf, UserOf, DocumentOf, TypeInv, RepoTypeOK
    <2> QED
      BY <2>1, <2>2
  <1> QED
    BY <1>7, <1>8, <1>9, <1>10 DEF WriterInv

(* A run's end is written by the runner that owns it, which becomes passive; *)
(* the other rows of the table stay.                                         *)
LEMMA SetStatusWriter ==
    ASSUME TypeInv, WriterInv, NEW r \in Runner, NEW from \in Working,
           NEW status \in Terminal, SetStatus(r, from, status)
    PROVE  WriterInv'
  <1> USE DEF SetStatus, Returns, SetRunStatus, InRunScope, accessVars, counters
  <1>1. /\ pc[r] \in Working
        /\ pc' = [pc EXCEPT ![r] = "returned"]
        /\ RunOf(r) \in RunId
    BY ActiveContext
  <1>2. /\ runs[RunOf(r)] # NoRun
        /\ runs' = [runs EXCEPT ![RunOf(r)].status = status,
                                ![RunOf(r)].completedAt = TRUE]
        /\ UNCHANGED <<context, versions, events, handoffs, users, owner, access,
                       eventSequence, handoffSequence>>
    OBVIOUS
  <1>3. /\ runs[RunOf(r)] \in RunRow
        /\ runs'[RunOf(r)] \in RunRow
        /\ runs'[RunOf(r)].user = runs[RunOf(r)].user
        /\ runs'[RunOf(r)].document = runs[RunOf(r)].document
        /\ \A id \in RunId : id # RunOf(r) => runs'[id] = runs[id]
    BY <1>1, <1>2 DEF TypeInv, RepoTypeOK, RunRow, RunStatus
  <1>4. "returned" \notin Working
    BY DEF Working, CallPoints, DecisionPoints, EmitPoints, HandoffPoints,
           ReadPoints, StatusPoints
  <1> HIDE DEF SetStatus, Returns, SetRunStatus, InRunScope
  <1>5. \A o \in Runner : pc'[o] \in Working => o # r /\ pc[o] \in Working
    BY <1>1, <1>4 DEF TypeInv, LocalTypeOK
  <1>6. \A o \in Runner : pc'[o] \in Working => RunOf(o) # RunOf(r)
    BY <1>1, <1>5 DEF WriterInv, Alone
  <1>7. Alone'
    BY <1>2, <1>5 DEF WriterInv, Alone, RunOf
  <1>8. Unborn'
    BY <1>1, <1>2, <1>3, NoRunIsNoRow DEF WriterInv, Unborn
  <1>9. Readable'
    <2>1. \A u, d : HasAccess(u, d, Read) => HasAccess(u, d, Read)'
      BY <1>2 DEF HasAccess
    <2>2. \A id \in RunId : runs'[id] # NoRun =>
                HasAccess(runs'[id].user, runs'[id].document, Read)
      BY <1>1, <1>2, <1>3 DEF WriterInv, Readable
    <2> QED
      BY <1>2, <2>1, <2>2 DEF Readable, HasAccess
  <1>10. ASSUME NEW o \in Runner, pc'[o] \in Working PROVE OwnsRun(o)'
    <2>1. OwnsRun(o) /\ RunOf(o) # RunOf(r) /\ RunOf(o) \in RunId
      BY <1>5, <1>6, <1>10, ActiveContext DEF WriterInv
    <2> QED
      BY <1>2, <1>3, <2>1 DEF OwnsRun, RunOf, UserOf, DocumentOf
  <1> QED
    BY <1>7, <1>8, <1>9, <1>10 DEF WriterInv

(* A version of a run belongs to a run that exists.                          *)
LEMMA VersionWriter ==
    ASSUME TypeInv, WriterInv, NEW row, versions' = versions \cup {row},
           row.run \in RunId => runs[row.run] # NoRun,
           UNCHANGED <<users, owner, access, runs, events, handoffs, context,
                       eventSequence, handoffSequence>>,
           \A o \in Runner : pc'[o] \in Working => pc[o] \in Working
    PROVE  WriterInv'
  BY DEF WriterInv, Alone, Unborn, Readable, HasAccess, OwnsRun, RunOf, UserOf,
         DocumentOf

(* A draft is stored under the run of its active runner.                     *)
LEMMA PersistDraftWriter ==
    ASSUME TypeInv, WriterInv, NEW r \in Runner, PersistDraft(r)
    PROVE  WriterInv'
  <1> USE DEF PersistDraft, GoTo, CreateVersion, accessVars, runTables, counters
  <1>1. pc[r] \in Working
    BY DEF Working, CallPoints
  <1>2. versions' = versions \cup {DraftRow(r)} /\ DraftRow(r).run = RunOf(r)
    BY DEF DraftRow
  <1>3. runs[RunOf(r)] # NoRun
    BY <1>1 DEF WriterInv, OwnsRun
  <1>4. pc' = [pc EXCEPT ![r] = "emit_version_created"]
    OBVIOUS
  <1>5. UNCHANGED <<users, owner, access, runs, events, handoffs, context,
                    eventSequence, handoffSequence>>
    OBVIOUS
  <1> HIDE DEF PersistDraft, GoTo, CreateVersion
  <1>6. \A o \in Runner : pc'[o] \in Working => pc[o] \in Working
    BY <1>1, <1>4 DEF TypeInv, LocalTypeOK
  <1> QED
    BY <1>2, <1>3, <1>5, <1>6, VersionWriter

(* Other editors store versions under no run.                                *)
LEMMA EditorWriter ==
    ASSUME TypeInv, WriterInv, NEW u \in User, NEW d \in Document, EditorWrites(u, d)
    PROVE  WriterInv'
  <1> USE DEF EditorWrites, CreateVersion, accessVars, runTables, localVars, counters
  <1>1. PICK n \in 1 .. MaxVersions, text \in EditorContent :
            versions' = versions \cup {[document |-> d, number |-> n,
                            content |-> text, author |-> u, run |-> NoRun]}
    OBVIOUS
  <1>2. UNCHANGED <<users, owner, access, runs, events, handoffs, context,
                    eventSequence, handoffSequence, pc>>
    OBVIOUS
  <1> QED
    BY <1>1, <1>2, VersionWriter, RepositoryConstants

(* A grant never takes the reading of a run's user away.                     *)
LEMMA GrantWriter ==
    ASSUME TypeInv, WriterInv, NEW u \in User, NEW d \in Document, OwnerGrants(u, d)
    PROVE  WriterInv'
  <1> USE DEF OwnerGrants, GrantAccess, runTables, localVars, counters
  <1>1. PICK grantee \in User, level \in {Read, Edit} :
            access' = [access EXCEPT ![d][grantee] = level]
    OBVIOUS
  <1>2. UNCHANGED <<users, owner, versions, runs, events, handoffs, context,
                    eventSequence, handoffSequence, pc>>
    OBVIOUS
  <1> HIDE DEF OwnerGrants, GrantAccess
  <1>3. \A x \in User, y \in Document : access[y][x] >= Read => access'[y][x] >= Read
    BY <1>1 DEF TypeInv, RepoTypeOK, Read, Edit, NoAccess, Owner
  <1>4. \A id \in RunId : runs[id] # NoRun =>
            runs[id].user \in User /\ runs[id].document \in Document
    BY DEF TypeInv, RepoTypeOK, RunRow
  <1>5. Readable'
    BY <1>2, <1>3, <1>4 DEF WriterInv, Readable, HasAccess
  <1> QED
    BY <1>2, <1>5 DEF WriterInv, Alone, Unborn, OwnsRun, RunOf, UserOf, DocumentOf

(* A runner that is called gets another request before it is active.         *)
LEMMA CallWriter ==
    ASSUME TypeInv, WriterInv, NEW r \in Runner, Call(r)
    PROVE  WriterInv'
  <1>1. /\ pc' = [pc EXCEPT ![r] = "create_run"]
        /\ UNCHANGED repoVars
        /\ \A o \in Runner : o # r =>
                /\ context'[o] = context[o]
                /\ eventSequence'[o] = eventSequence[o]
                /\ handoffSequence'[o] = handoffSequence[o]
    BY DEF Call, TypeInv, LocalTypeOK
  <1>2. "create_run" \notin Working
    BY DEF Working, CallPoints, DecisionPoints, EmitPoints, HandoffPoints,
           ReadPoints, StatusPoints
  <1>3. \A o \in Runner : pc'[o] \in Working => o # r /\ pc[o] \in Working
    BY <1>1, <1>2 DEF TypeInv, LocalTypeOK
  <1> QED
    BY <1>1, <1>3 DEF WriterInv, Alone, Unborn, Readable, HasAccess, OwnsRun, RunOf,
           UserOf, DocumentOf, repoVars

(* Every step of a runner's process keeps the owners.                        *)
LEMMA StepWriter ==
    ASSUME TypeInv, TypeInv', WriterInv, NEW r \in Runner,
           Step(r) \/ Call(r) \/ CallFails(r) \/ Crash(r)
    PROVE  WriterInv'
  <1>1. CASE Emission(r)
    <2>1. PICK from, type, version, detail, to :
            EmissionFrom(r, from, type, version, detail, to)
      BY <1>1, EmissionShape
    <2>2. from \in Working
      BY <2>1 DEF EmissionFrom, Working, CallPoints
    <2> QED
      BY <2>1, <2>2, EmissionWriter DEF EmissionFrom
  <1>2. CASE HandoffToCritic(r) \/ HandoffToExecutor(r) \/ HandoffAcceptance(r)
    <2>1. {"handoff_critic", "handoff_executor", "handoff_acceptance",
           "emit_handoff_critic", "emit_handoff_executor",
           "emit_handoff_acceptance"} \subseteq Working
      BY DEF Working, CallPoints, EmitPoints, HandoffPoints
    <2>2. CASE HandoffToCritic(r)
      BY <2>1, <2>2, HandoffWriter DEF HandoffToCritic
    <2>3. CASE HandoffToExecutor(r)
      BY <2>1, <2>3, HandoffWriter DEF HandoffToExecutor
    <2>4. CASE HandoffAcceptance(r)
      BY <2>1, <2>4, HandoffWriter DEF HandoffAcceptance
    <2> QED
      BY <1>2, <2>2, <2>3, <2>4
  <1>3. CASE SetCompleted(r) \/ SetBlocked(r) \/ SetFailed(r)
    <2>1. PICK from \in Working, status \in Terminal : SetStatus(r, from, status)
      BY <1>3 DEF SetCompleted, SetBlocked, SetFailed, Working, CallPoints,
            StatusPoints, Terminal
    <2> QED
      BY <2>1, SetStatusWriter
  <1> QED
    BY <1>1, <1>2, <1>3, StartRunWriter, PersistDraftWriter, CallWriter, QuietSteps,
       QuietWriter DEF Step, OtherCall

(* Every step keeps the owners. *)
LEMMA NextWriter == TypeInv /\ TypeInv' /\ WriterInv /\ [Next]_vars => WriterInv'
  <1> SUFFICES ASSUME TypeInv, TypeInv', WriterInv, [Next]_vars PROVE WriterInv'
    OBVIOUS
  <1>1. CASE Next
    BY <1>1, StepWriter, EditorWriter, GrantWriter DEF Next
  <1>2. CASE UNCHANGED vars
    BY <1>2 DEF vars, repoVars, localVars, counters, WriterInv, Alone, Unborn,
          Readable, HasAccess, OwnsRun, RunOf, UserOf, DocumentOf
  <1> QED
    BY <1>1, <1>2

(* Types and ownership hold in every reachable state.                        *)
THEOREM WriterInvariant == Spec => [](TypeInv /\ WriterInv)
  BY InitTypeInv, InitWriterInv, StepTypeInv, NextWriter, PTL DEF Spec

(* No two active runners write under one run identifier, every active runner *)
(* writes within the scope of a run that is still running, and the sequence  *)
(* numbers it takes next are free.                                           *)
THEOREM OneWriter == Spec => []OneWriterPerRun
  <1>1. TypeInv /\ WriterInv => OneWriterPerRun
    <2> SUFFICES ASSUME TypeInv, WriterInv PROVE OneWriterPerRun
      OBVIOUS
    <2>1. ASSUME NEW r \in Runner, pc[r] \in Working
          PROVE  /\ InRunScope(RunOf(r), UserOf(r), DocumentOf(r))
                 /\ StatusOf(RunOf(r)) = "running"
                 /\ \A e \in EventsOf(RunOf(r)) : e.sequence <= eventSequence[r]
                 /\ \A h \in handoffs :
                        h.run = RunOf(r) => h.sequence <= handoffSequence[r]
      <3>1. RunOf(r) \in RunId /\ OwnsRun(r)
        BY <2>1, ActiveContext DEF WriterInv
      <3>2. HasAccess(UserOf(r), DocumentOf(r), Read)
        BY <3>1 DEF OwnsRun, WriterInv, Readable
      <3> QED
        BY <3>1, <3>2 DEF OwnsRun, InRunScope, StatusOf, EventsOf
    <2> QED
      BY <2>1 DEF OneWriterPerRun, WriterInv, Alone
  <1> QED
    BY <1>1, WriterInvariant, PTL

-----------------------------------------------------------------------------
(* The end is final.  Whoever writes a record of a run owns the run, and the *)
(* run is still running.                                                     *)

Untouched(id) ==
    /\ runs'[id] = runs[id]
    /\ \A e \in events' \ events : e.run # id
    /\ \A h \in handoffs' \ handoffs : h.run # id
    /\ \A v \in versions' \ versions : v.run # id
    /\ facts'[id] = facts[id]

(* Every step of a runner writes only under its own run, and only while it   *)
(* is active or creates the run.                                             *)
LEMMA OwnRecordsOnly ==
    ASSUME TypeInv, NEW r \in Runner, Step(r) \/ Call(r) \/ CallFails(r) \/ Crash(r),
           NEW id \in RunId, id # RunOf(r) \/ pc[r] \notin Working,
           id = RunOf(r) => ~ StartRun(r)
    PROVE  Untouched(id)
  <1>1. CASE Emission(r)
    <2>1. PICK from, type, version, detail, to :
            EmissionFrom(r, from, type, version, detail, to)
      BY <1>1, EmissionShape
    <2>2. pc[r] \in Working
      BY <2>1 DEF EmissionFrom, Emit, GoTo, Working, CallPoints
    <2>3. /\ UNCHANGED <<runs, handoffs, versions, facts>>
          /\ \A e \in events' \ events : e.run = RunOf(r)
      BY <2>1 DEF EmissionFrom, Emit, AppendEvent
    <2> QED
      BY <2>2, <2>3 DEF Untouched
  <1>2. CASE HandoffToCritic(r) \/ HandoffToExecutor(r) \/ HandoffAcceptance(r)
    <2>1. PICK from, sender, receiver, to :
            from \in HandoffPoints /\ Handoff(r, from, sender, receiver, to)
      BY <1>2 DEF HandoffToCritic, HandoffToExecutor, HandoffAcceptance, HandoffPoints
    <2>2. pc[r] \in Working
      BY <2>1 DEF Handoff, GoTo, Working, CallPoints
    <2>3. /\ UNCHANGED <<runs, events, versions, facts>>
          /\ \A h \in handoffs' \ handoffs : h.run = RunOf(r)
      BY <2>1 DEF Handoff, AppendHandoff
    <2> QED
      BY <2>2, <2>3 DEF Untouched
  <1>3. CASE SetCompleted(r) \/ SetBlocked(r) \/ SetFailed(r)
    <2>1. PICK from \in StatusPoints, status \in Terminal : SetStatus(r, from, status)
      BY <1>3 DEF SetCompleted, SetBlocked, SetFailed, StatusPoints, Terminal
    <2>2. pc[r] \in Working
      BY <2>1 DEF SetStatus, Working, CallPoints
    <2>3. /\ UNCHANGED <<handoffs, events, versions, facts>>
          /\ id # RunOf(r) => runs'[id] = runs[id]
      BY <2>1 DEF SetStatus, SetRunStatus, TypeInv, RepoTypeOK
    <2> QED
      BY <2>2, <2>3 DEF Untouched
  <1>4. CASE StartRun(r)
    <2>1. /\ UNCHANGED <<handoffs, events, versions, facts>>
          /\ id # RunOf(r) => runs'[id] = runs[id]
      BY <1>4 DEF StartRun, CreateRun, TypeInv, RepoTypeOK
    <2> QED
      BY <1>4, <2>1 DEF Untouched
  <1>5. CASE PersistDraft(r)
    <2>1. /\ pc[r] \in Working
          /\ UNCHANGED <<runs, handoffs, events, facts>>
          /\ versions' = versions \cup {DraftRow(r)}
          /\ DraftRow(r).run = RunOf(r)
      BY <1>5 DEF PersistDraft, GoTo, CreateVersion, runTables, DraftRow, Working,
            CallPoints
    <2> QED
      BY <2>1 DEF Untouched
  <1>6. CASE SaveFact(r)
    <2>1. /\ pc[r] \in Working
          /\ UNCHANGED repoVars
          /\ facts' = [facts EXCEPT ![RunOf(r)] = @ + 1]
      BY <1>6 DEF SaveFact, GoTo, Working, CallPoints
    <2> QED
      BY <2>1 DEF Untouched, repoVars, TypeInv, LocalTypeOK
  <1>7. CASE UNCHANGED repoVars /\ UNCHANGED facts
    BY <1>7 DEF Untouched, repoVars
  <1>8. Decision(r) => UNCHANGED repoVars /\ UNCHANGED facts
    BY DecisionKeepsTables
  <1>9. RunRefused(r) \/ PushExecutorContext(r) \/ PushCriticContext(r)
            \/ ReadRefused(r) \/ ReadLatest(r) \/ DraftRefused(r)
        => UNCHANGED repoVars /\ UNCHANGED facts
    BY DEF RunRefused, PushExecutorContext, PushCriticContext, Push, ReadRefused,
           ReadLatest, DraftRefused, Decide
  <1>10. Call(r) \/ CallFails(r) \/ Crash(r) => UNCHANGED repoVars /\ UNCHANGED facts
    BY DEF Call, CallFails, Crash
  <1> QED
    BY <1>1, <1>2, <1>3, <1>4, <1>5, <1>6, <1>7, <1>8, <1>9, <1>10 DEF Step, OtherCall

(* Nothing of a run that has ended is touched by any step.                   *)
LEMMA ClosedRuns ==
    ASSUME TypeInv, WriterInv, [Next]_vars, NEW id \in RunId, StatusOf(id) \in Terminal
    PROVE  Untouched(id)
  <1>1. ASSUME NEW r \in Runner, Step(r) \/ Call(r) \/ CallFails(r) \/ Crash(r)
        PROVE  Untouched(id)
    <2>1. "running" \notin Terminal /\ "absent" \notin Terminal
      BY DEF Terminal
    <2>2. id # RunOf(r) \/ pc[r] \notin Working
      BY <2>1 DEF WriterInv, OwnsRun, StatusOf
    <2>3. id = RunOf(r) => ~ StartRun(r)
      BY <2>1 DEF StartRun, CreateRun, CanCreateRun, StatusOf
    <2> QED
      BY <1>1, <2>2, <2>3, OwnRecordsOnly
  <1>2. ASSUME NEW u \in User, NEW d \in Document,
               EditorWrites(u, d) \/ OwnerGrants(u, d)
        PROVE  Untouched(id)
    <2>1. /\ UNCHANGED <<runs, events, handoffs, facts>>
          /\ \A v \in versions' \ versions : v.run = NoRun
      <3>1. CASE OwnerGrants(u, d)
        BY <3>1 DEF OwnerGrants, runTables
      <3>2. CASE EditorWrites(u, d)
        <4>1. PICK row : row.run = NoRun /\ versions' = versions \cup {row}
          BY <3>2 DEF EditorWrites, CreateVersion
        <4> QED
          BY <3>2, <4>1 DEF EditorWrites, runTables
      <3> QED
        BY <1>2, <3>1, <3>2
    <2> QED
      BY <2>1, RepositoryConstants DEF Untouched
  <1>3. CASE UNCHANGED vars
    BY <1>3 DEF vars, repoVars, Untouched
  <1> QED
    BY <1>1, <1>2, <1>3 DEF Next

(* A run that has ended is closed: nobody adds to it, changes its status or  *)
(* saves a fact for it, whoever calls run() with its identifier again.       *)
THEOREM EndIsFinal == Spec => TerminalIsFinal
  <1> DEFINE Final == \A id \in RunId : StatusOf(id) \in Terminal => Untouched(id)
  <1>1. TypeInv /\ WriterInv /\ [Next]_vars => Final
    BY ClosedRuns
  <1>2. Final => [ \A id \in RunId : StatusOf(id) \in Terminal =>
            /\ runs'[id] = runs[id]
            /\ \A e \in events' \ events : e.run # id
            /\ \A h \in handoffs' \ handoffs : h.run # id
            /\ \A v \in versions' \ versions : v.run # id
            /\ facts'[id] = facts[id]
      ]_vars
    BY DEF Untouched
  <1> QED
    BY <1>1, <1>2, WriterInvariant, PTL DEF Spec, TerminalIsFinal
=============================================================================
