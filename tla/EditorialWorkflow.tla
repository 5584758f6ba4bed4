--------------------------- MODULE EditorialWorkflow ---------------------------
(***************************************************************************)
(* EditorialWorkflowRunner.run (editorial_workflow.py): runners that carry *)
(* editorial requests from the source, through Executor drafts, Critic     *)
(* reviews and bounded revisions, to a human approval, over the tables of  *)
(* DomainRepository.                                                       *)
(*                                                                         *)
(* Every repository call of run() commits a transaction of its own, so     *)
(* each is one step here, and between any two of them other runners and    *)
(* other editors may change the document, a call may fail, or the process  *)
(* may die.  pc names the call a runner is about to make.  The reply of a  *)
(* role is any reply its parser lets through (role_results.py), the answer *)
(* of the approval gate is any answer.  A role's inner turns are one event *)
(* here.                                                                   *)
(***************************************************************************)
EXTENDS DomainRepository

CONSTANTS
    Runner,        \* the runner objects, each in a process of its own
    Context,       \* the requests: run, user and document
    NoContext,     \* _context before the first request
    Feedback,      \* the Critic's revision feedback, as compared by run()
    NoFeedback,    \* previous_feedback_key before the first review
    NoDraft,       \* the draft before the first Executor result
    MaxRevisions,  \* max_revisions
    SeedOwner,     \* the owner, access rows and versions that the documents
    SeedAccess,    \* have when the first runner starts
    SeedVersions,
    AsksApproval,  \* whether a role's reply may carry needs_approval
    SavesFact,     \* what the Executor may decide about a private fact
    EditorContent, \* the texts other editors write
    MaxVersions,   \* bound: versions other editors may bring a document to
    MaxFaults,     \* bound: repository calls that fail for no reason in the data
    MaxCrashes,    \* bound: processes that die
    MaxGrants      \* bound: access grants made while runs are active

WorkflowEvent ==
    {"run_started", "context_attached", "model_turn_completed",
     "memory_save_decided", "private_fact_saved", "document_version_created",
     "handoff_created", "critic_review_completed", "critic_grounding_rejected",
     "revision_requested", "revision_limit_reached", "approval_requested",
     "approval_resolved", "run_completed", "run_blocked", "run_failed"}

WorkflowDetail ==
    {"none", "executor", "critic", "save", "no_save", "accept", "revise",
     "approved", "declined"}

ASSUME WorkflowConstants ==
    /\ Context \subseteq [run : RunId, user : User, document : Document]
    /\ NoContext \notin Context
    /\ NoFeedback \notin Feedback
    /\ NoDraft \notin Content
    /\ MaxRevisions \in Nat
    /\ SeedOwner \in [Document -> User]
    /\ SeedAccess \in [Document -> [User -> NoAccess .. Owner]]
    /\ \A d \in Document, u \in User : SeedAccess[d][u] = Owner <=> SeedOwner[d] = u
    /\ SeedVersions \subseteq [document : Document, number : {1}, content : Content,
                             author : User, run : {NoRun}]
    /\ \A v, w \in SeedVersions : v.document = w.document => v = w
    /\ AsksApproval \subseteq BOOLEAN
    /\ SavesFact \subseteq BOOLEAN
    /\ EditorContent \subseteq Content
    /\ MaxVersions \in Nat
    /\ MaxFaults \in Nat
    /\ MaxCrashes \in Nat
    /\ MaxGrants \in Nat
    /\ WorkflowEvent \subseteq EventType
    /\ WorkflowDetail \subseteq Detail
    /\ {"executor", "critic", "orchestrator"} \subseteq Role

VARIABLES
    pc,               \* the next call of each runner
    context,          \* _context
    eventSequence,    \* _event_sequence
    handoffSequence,  \* _handoff_sequence
    revisionCount,    \* revision_count
    current,          \* current_version
    pushed,           \* document_version of the last pushed context
    latest,           \* the number _persist_draft read
    draft,            \* the draft of the last Executor result
    reply,            \* the status of the role reply being handled
    feedback,         \* the revision feedback being handled
    previous,         \* previous_feedback_key
    asking,           \* who asked for the approval being requested
    result,           \* the status run() returned
    facts,            \* the private facts saved for each run
    faults, crashes, grants  \* how many of each there were

counters == <<eventSequence, handoffSequence>>
progress == <<revisionCount, current, previous>>
reading == <<pushed, latest>>
replyVars == <<draft, reply, feedback, asking>>
localVars == <<context, counters, progress, reading, replyVars, result>>
budgets == <<faults, crashes, grants>>
vars == <<repoVars, pc, localVars, facts, budgets>>

NoReply == "none"

-----------------------------------------------------------------------------
(* Points of run() *)

EmitPoints ==
    {"emit_started", "emit_executor_context", "executor_turn",
     "emit_memory_decided", "emit_fact_saved", "emit_version_created",
     "emit_handoff_critic", "emit_critic_context", "critic_turn", "emit_review",
     "emit_grounding_rejected", "emit_handoff_acceptance",
     "emit_handoff_executor", "emit_revision_requested", "emit_limit_reached",
     "emit_approval_requested", "approval_gate", "emit_completed",
     "emit_blocked", "emit_failed"}
HandoffPoints == {"handoff_critic", "handoff_acceptance", "handoff_executor"}
ReadPoints == {"push_executor", "push_critic", "read_latest"}
StatusPoints == {"set_completed", "set_blocked", "set_failed"}
CallPoints ==
    EmitPoints \cup HandoffPoints \cup ReadPoints \cup StatusPoints
        \cup {"save_fact", "create_version"}
DecisionPoints ==
    {"executor_reply", "executor_outcome", "critic_reply", "critic_outcome",
     "transition"}

(* Between a successful create_run and the return of run(). *)
Working == CallPoints \cup DecisionPoints
Points == Working \cup {"idle", "create_run", "returned", "crashed"}

RunOf(r) == context[r].run
UserOf(r) == context[r].user
DocumentOf(r) == context[r].document

GoTo(r, from, to) ==
    /\ pc[r] = from
    /\ pc' = [pc EXCEPT ![r] = to]

Returns(r, status) ==
    /\ pc' = [pc EXCEPT ![r] = "returned"]
    /\ result' = [result EXCEPT ![r] = status]

(* A step of run() that decides and calls nothing. *)
Decide(r, from, to) ==
    /\ GoTo(r, from, to)
    /\ UNCHANGED <<repoVars, facts, budgets>>

(* _emit: the sequence number is taken first, then the event appended. *)
Emit(r, from, type, version, detail, to) ==
    /\ GoTo(r, from, to)
    /\ eventSequence' = [eventSequence EXCEPT ![r] = @ + 1]
    /\ AppendEvent(UserOf(r), DocumentOf(r),
            [run |-> RunOf(r), sequence |-> eventSequence[r] + 1, type |-> type,
             version |-> version, detail |-> detail])
    /\ UNCHANGED <<accessVars, versions, comments, runs, handoffs>>
    /\ UNCHANGED <<context, handoffSequence, progress, reading, replyVars, result,
                   facts, budgets>>

(* Building a handoff takes its sequence number, appending it may then fail. *)
Handoff(r, from, sender, receiver, to) ==
    /\ GoTo(r, from, to)
    /\ handoffSequence' = [handoffSequence EXCEPT ![r] = @ + 1]
    /\ AppendHandoff(UserOf(r), DocumentOf(r),
            [run |-> RunOf(r), sequence |-> handoffSequence[r] + 1,
             round |-> revisionCount[r], from |-> sender, to |-> receiver,
             version |-> current[r]])
    /\ UNCHANGED <<accessVars, versions, comments, runs, events>>
    /\ UNCHANGED <<context, eventSequence, progress, reading, replyVars, result,
                   facts, budgets>>

-----------------------------------------------------------------------------
(* Starting a run *)

(* run() is called: every counter of the runner starts over. *)
Call(r) ==
    /\ pc[r] \in {"idle", "returned"}
    /\ pc' = [pc EXCEPT ![r] = "create_run"]
    /\ \E c \in Context : context' = [context EXCEPT ![r] = c]
    /\ eventSequence' = [eventSequence EXCEPT ![r] = 0]
    /\ handoffSequence' = [handoffSequence EXCEPT ![r] = 0]
    /\ revisionCount' = [revisionCount EXCEPT ![r] = 0]
    /\ current' = [current EXCEPT ![r] = NoVersion]
    /\ previous' = [previous EXCEPT ![r] = NoFeedback]
    /\ result' = [result EXCEPT ![r] = NoReply]
    /\ UNCHANGED <<repoVars, reading, replyVars, facts, budgets>>

StartRun(r) ==
    /\ GoTo(r, "create_run", "emit_started")
    /\ CreateRun(RunOf(r), UserOf(r), DocumentOf(r))
    /\ UNCHANGED <<accessVars, versions, comments, events, handoffs>>
    /\ UNCHANGED <<localVars, facts, budgets>>

(* Faulty variant: the failure is recorded although no run was created. *)
RunRefusedMarksFailed(r) ==
    /\ pc[r] = "create_run"
    /\ ~ CanCreateRun(RunOf(r), UserOf(r), DocumentOf(r))
    /\ Decide(r, "create_run", "set_failed")
    /\ UNCHANGED localVars

(* An existing run identifier, or no access: nothing of that run is touched. *)
RunRefused(r) ==
    /\ pc[r] = "create_run"
    /\ ~ CanCreateRun(RunOf(r), UserOf(r), DocumentOf(r))
    /\ Returns(r, "failed")
    /\ UNCHANGED <<repoVars, context, counters, progress, reading, replyVars,
                   facts, budgets>>

EmitRunStarted(r) ==
    Emit(r, "emit_started", "run_started", NoVersion, "none", "push_executor")

-----------------------------------------------------------------------------
(* Pushed context: always the latest version of the document *)

CanRead(r) ==
    /\ HasAccess(UserOf(r), DocumentOf(r), Read)
    /\ \E v \in versions : IsLatest(DocumentOf(r), v)

Push(r, from, to) ==
    /\ Decide(r, from, to)
    /\ HasAccess(UserOf(r), DocumentOf(r), Read)
    /\ \E v \in versions :
            /\ IsLatest(DocumentOf(r), v)
            /\ pushed' = [pushed EXCEPT ![r] = Ref(v)]
    /\ UNCHANGED <<context, counters, progress, latest, replyVars, result>>

PushExecutorContext(r) == Push(r, "push_executor", "emit_executor_context")
PushCriticContext(r)   == Push(r, "push_critic", "emit_critic_context")

EmitExecutorContext(r) ==
    Emit(r, "emit_executor_context", "context_attached", pushed[r], "executor",
         "executor_turn")
EmitCriticContext(r) ==
    Emit(r, "emit_critic_context", "context_attached", pushed[r], "critic",
         "critic_turn")

(* Faulty variant: the read is repeated until it succeeds. *)
ReadRefusedWaits(r) ==
    /\ pc[r] \in ReadPoints
    /\ ~ CanRead(r)
    /\ UNCHANGED vars

(* No version to read, or no access. *)
ReadRefused(r) ==
    /\ pc[r] \in ReadPoints
    /\ ~ CanRead(r)
    /\ Decide(r, pc[r], "emit_failed")
    /\ UNCHANGED localVars

-----------------------------------------------------------------------------
(* The Executor *)

ExecutorTurn(r) ==
    Emit(r, "executor_turn", "model_turn_completed", NoVersion, "executor",
         "executor_reply")

(* A RoleAgentError, before or after the role's first turn, or the status  *)
(* ERROR.                                                                  *)
RoleFails(r) ==
    /\ pc[r] \in {"executor_turn", "executor_reply", "critic_turn", "critic_reply"}
    /\ Decide(r, pc[r], "emit_failed")
    /\ UNCHANGED localVars

(* A reply waits for an approval first when it asks for one. *)
Reply(r, from, status, asker, then) ==
    /\ \E asks \in AsksApproval :
            Decide(r, from, IF asks THEN "emit_approval_requested" ELSE then)
    /\ reply' = [reply EXCEPT ![r] = status]
    /\ asking' = [asking EXCEPT ![r] = asker]
    /\ UNCHANGED <<context, counters, progress, reading, result>>

ExecutorCompletes(r) ==
    /\ Reply(r, "executor_reply", "complete", "executor", "executor_outcome")
    /\ \E text \in Content : draft' = [draft EXCEPT ![r] = text]
    /\ UNCHANGED feedback

ExecutorBlocks(r) ==
    /\ Reply(r, "executor_reply", "blocked", "executor", "executor_outcome")
    /\ UNCHANGED <<draft, feedback>>

(* Faulty variant: the draft is compared with the document's first version. *)
DraftUnchangedFromSource(r) ==
    \E v \in versions :
        v.document = DocumentOf(r) /\ v.number = 1 /\ v.content = draft[r]

DraftUnchanged(r) ==
    \E v \in versions : Ref(v) = current[r] /\ v.content = draft[r]

(* Faulty variants: a blocked reply goes on like a complete one ... *)
ExecutorOutcomeUnchecked(r) ==
    /\ Decide(r, "executor_outcome", "emit_memory_decided")
    /\ UNCHANGED localVars

(* ... or the memory decision is taken in every round. *)
ExecutorOutcomeRedecides(r) ==
    /\ \/ /\ reply[r] = "blocked" \/ (current[r] # NoVersion /\ DraftUnchanged(r))
          /\ Decide(r, "executor_outcome", "emit_blocked")
       \/ /\ reply[r] = "complete"
          /\ ~ (current[r] # NoVersion /\ DraftUnchanged(r))
          /\ Decide(r, "executor_outcome", "emit_memory_decided")
    /\ UNCHANGED localVars

(* The Executor's reply, its approval if any granted, is acted upon. *)
ExecutorOutcome(r) ==
    /\ \/ /\ reply[r] = "blocked"
          /\ Decide(r, "executor_outcome", "emit_blocked")
       \/ /\ reply[r] = "complete"
          /\ current[r] # NoVersion
          /\ DraftUnchanged(r)
          /\ Decide(r, "executor_outcome", "emit_blocked")
       \/ /\ reply[r] = "complete"
          /\ current[r] = NoVersion
          /\ Decide(r, "executor_outcome", "emit_memory_decided")
       \/ /\ reply[r] = "complete"
          /\ current[r] # NoVersion
          /\ ~ DraftUnchanged(r)
          /\ Decide(r, "executor_outcome", "read_latest")
    /\ UNCHANGED localVars

-----------------------------------------------------------------------------
(* _persist_memory_decision, in the first round only *)

EmitMemoryDecided(r) ==
    \E save \in SavesFact :
        Emit(r, "emit_memory_decided", "memory_save_decided", NoVersion,
             IF save THEN "save" ELSE "no_save",
             IF save THEN "save_fact" ELSE "read_latest")

SaveFact(r) ==
    /\ GoTo(r, "save_fact", "emit_fact_saved")
    /\ facts' = [facts EXCEPT ![RunOf(r)] = @ + 1]
    /\ UNCHANGED <<repoVars, localVars, budgets>>

EmitFactSaved(r) ==
    Emit(r, "emit_fact_saved", "private_fact_saved", NoVersion, "none",
         "read_latest")

-----------------------------------------------------------------------------
(* _persist_draft: the latest number is read in one transaction and the    *)
(* next one inserted in another.                                           *)

ReadLatest(r) ==
    /\ Decide(r, "read_latest", "create_version")
    /\ HasAccess(UserOf(r), DocumentOf(r), Read)
    /\ \E v \in versions :
            /\ IsLatest(DocumentOf(r), v)
            /\ latest' = [latest EXCEPT ![r] = v.number]
    /\ UNCHANGED <<context, counters, progress, pushed, replyVars, result>>

DraftRow(r) ==
    [document |-> DocumentOf(r), number |-> latest[r] + 1, content |-> draft[r],
     author |-> UserOf(r), run |-> RunOf(r)]

PersistDraft(r) ==
    /\ GoTo(r, "create_version", "emit_version_created")
    /\ CreateVersion(UserOf(r), DraftRow(r))
    /\ current' = [current EXCEPT ![r] = Ref(DraftRow(r))]
    /\ UNCHANGED <<accessVars, comments, runTables>>
    /\ UNCHANGED <<context, counters, revisionCount, previous, reading, replyVars,
                   result, facts, budgets>>

(* The number was taken meanwhile, or the user may not edit. *)
DraftRefused(r) ==
    /\ pc[r] = "create_version"
    /\ ~ CanCreateVersion(UserOf(r), DraftRow(r))
    /\ Decide(r, "create_version", "emit_failed")
    /\ UNCHANGED localVars

EmitVersionCreated(r) ==
    Emit(r, "emit_version_created", "document_version_created", current[r],
         "none", "handoff_critic")

HandoffToCritic(r) ==
    Handoff(r, "handoff_critic", "executor", "critic", "emit_handoff_critic")

EmitHandoffToCritic(r) ==
    Emit(r, "emit_handoff_critic", "handoff_created", current[r], "executor",
         "push_critic")

-----------------------------------------------------------------------------
(* The Critic *)

CriticTurn(r) ==
    Emit(r, "critic_turn", "model_turn_completed", NoVersion, "critic",
         "critic_reply")

CriticAccepts(r) ==
    /\ Reply(r, "critic_reply", "accept", "critic", "critic_outcome")
    /\ UNCHANGED <<draft, feedback>>

(* Only a revision has issues, so only a revision can be ungrounded. *)
CriticRevises(r) ==
    /\ \E grounding \in {"revise", "ungrounded"} :
            Reply(r, "critic_reply", grounding, "critic", "critic_outcome")
    /\ \E text \in Feedback : feedback' = [feedback EXCEPT ![r] = text]
    /\ UNCHANGED draft

CriticBlocks(r) ==
    /\ Reply(r, "critic_reply", "blocked", "critic", "critic_outcome")
    /\ UNCHANGED <<draft, feedback>>

(* _validate_critic_grounding comes before anything is recorded. *)
CriticOutcome(r) ==
    /\ \/ /\ reply[r] = "blocked"
          /\ Decide(r, "critic_outcome", "emit_blocked")
       \/ /\ reply[r] = "ungrounded"
          /\ Decide(r, "critic_outcome", "emit_grounding_rejected")
       \/ /\ reply[r] \in {"accept", "revise"}
          /\ Decide(r, "critic_outcome", "emit_review")
    /\ UNCHANGED localVars

EmitGroundingRejected(r) ==
    Emit(r, "emit_grounding_rejected", "critic_grounding_rejected", current[r],
         "none", "emit_failed")

(* Faulty variant: the version the Critic was shown is named. *)
EmitReviewOfPushed(r) ==
    Emit(r, "emit_review", "critic_review_completed", pushed[r], reply[r],
         "transition")

EmitReview(r) ==
    Emit(r, "emit_review", "critic_review_completed", current[r], reply[r],
         "transition")

-----------------------------------------------------------------------------
(* validate_transition for the Critic, and what run() makes of it *)

(* Faulty variant: the Critic's acceptance is enough. *)
AcceptDraftUngated(r) ==
    /\ reply[r] = "accept"
    /\ Decide(r, "transition", "emit_completed")
    /\ UNCHANGED localVars

AcceptDraft(r) ==
    /\ reply[r] = "accept"
    /\ Decide(r, "transition", "handoff_acceptance")
    /\ asking' = [asking EXCEPT ![r] = "final"]
    /\ UNCHANGED <<context, counters, progress, reading, draft, reply, feedback,
                   result>>

(* Faulty variant: off by one. *)
LimitReachedLate(r) == revisionCount[r] > MaxRevisions

LimitReached(r) == revisionCount[r] >= MaxRevisions

ReachRevisionLimit(r) ==
    /\ reply[r] = "revise"
    /\ LimitReached(r)
    /\ Decide(r, "transition", "emit_limit_reached")
    /\ UNCHANGED localVars

StallRevision(r) ==
    /\ reply[r] = "revise"
    /\ ~ LimitReached(r)
    /\ feedback[r] = previous[r]
    /\ Decide(r, "transition", "emit_blocked")
    /\ UNCHANGED localVars

RequestRevision(r) ==
    /\ reply[r] = "revise"
    /\ ~ LimitReached(r)
    /\ feedback[r] # previous[r]
    /\ Decide(r, "transition", "handoff_executor")
    /\ revisionCount' = [revisionCount EXCEPT ![r] = @ + 1]
    /\ previous' = [previous EXCEPT ![r] = feedback[r]]
    /\ UNCHANGED <<context, counters, current, reading, replyVars, result>>

EmitLimitReached(r) ==
    Emit(r, "emit_limit_reached", "revision_limit_reached", current[r], "none",
         "emit_blocked")

HandoffToExecutor(r) ==
    Handoff(r, "handoff_executor", "critic", "executor", "emit_handoff_executor")

EmitHandoffToExecutor(r) ==
    Emit(r, "emit_handoff_executor", "handoff_created", current[r], "critic",
         "emit_revision_requested")

EmitRevisionRequested(r) ==
    Emit(r, "emit_revision_requested", "revision_requested", current[r], "critic",
         "push_executor")

HandoffAcceptance(r) ==
    Handoff(r, "handoff_acceptance", "critic", "orchestrator",
            "emit_handoff_acceptance")

EmitHandoffAcceptance(r) ==
    Emit(r, "emit_handoff_acceptance", "handoff_created", current[r], "critic",
         "emit_approval_requested")

-----------------------------------------------------------------------------
(* _request_approval, for a role's reply and for the final version *)

ApprovalVersion(r) == IF asking[r] = "executor" THEN pushed[r] ELSE current[r]

AfterApproval(r) ==
    [executor |-> "executor_outcome", critic |-> "critic_outcome",
     final |-> "emit_completed"][asking[r]]

EmitApprovalRequested(r) ==
    Emit(r, "emit_approval_requested", "approval_requested", ApprovalVersion(r),
         "none", "approval_gate")

Approve(r) ==
    Emit(r, "approval_gate", "approval_resolved", ApprovalVersion(r), "approved",
         AfterApproval(r))

(* Faulty variant: the answer is recorded and not looked at. *)
DeclineIgnored(r) ==
    Emit(r, "approval_gate", "approval_resolved", ApprovalVersion(r), "declined",
         AfterApproval(r))

(* The gate declines, or there is no gate. *)
Decline(r) ==
    Emit(r, "approval_gate", "approval_resolved", ApprovalVersion(r), "declined",
         "emit_blocked")

(* The gate raises. *)
GateFails(r) ==
    /\ Decide(r, "approval_gate", "emit_failed")
    /\ UNCHANGED localVars

-----------------------------------------------------------------------------
(* Ending a run: the terminal event first, then the status *)

SetStatus(r, from, status) ==
    /\ pc[r] = from
    /\ Returns(r, status)
    /\ SetRunStatus(RunOf(r), UserOf(r), DocumentOf(r), status, TRUE)
    /\ UNCHANGED <<accessVars, versions, comments, events, handoffs>>
    /\ UNCHANGED <<context, counters, progress, reading, replyVars, facts, budgets>>

EmitRunCompleted(r) ==
    Emit(r, "emit_completed", "run_completed", current[r], "none", "set_completed")

(* Faulty variant: success is reported without being persisted. *)
SetCompletedUnsaved(r) ==
    /\ pc[r] = "set_completed"
    /\ Returns(r, "completed")
    /\ UNCHANGED <<repoVars, context, counters, progress, reading, replyVars,
                   facts, budgets>>

SetCompleted(r) == SetStatus(r, "set_completed", "completed")

(* Faulty variant: the event is emitted and the status is forgotten. *)
EmitRunBlockedOnly(r) ==
    Emit(r, "emit_blocked", "run_blocked", current[r], "none", "returned")

EmitRunBlocked(r) ==
    Emit(r, "emit_blocked", "run_blocked", current[r], "none", "set_blocked")
SetBlocked(r) == SetStatus(r, "set_blocked", "blocked")

(* Faulty variant: no terminal event is added to a log that may have one. *)
EmitRunFailedSilently(r) ==
    /\ Decide(r, "emit_failed", "set_failed")
    /\ UNCHANGED localVars

EmitRunFailed(r) ==
    Emit(r, "emit_failed", "run_failed", NoVersion, "none", "set_failed")
SetFailed(r) == SetStatus(r, "set_failed", "failed")

-----------------------------------------------------------------------------
(* Failures *)

(* A call raises for a reason outside the data (a busy or full database, a *)
(* clock without time zone, a file that cannot be written).  run() turns   *)
(* it into _safe_fail_run, and _safe_fail_run swallows its own.  A sequence *)
(* number taken for the failed call is not given back.                     *)
CallFails(r) ==
    /\ faults < MaxFaults
    /\ faults' = faults + 1
    /\ eventSequence' =
            [eventSequence EXCEPT ![r] = IF pc[r] \in EmitPoints THEN @ + 1 ELSE @]
    /\ handoffSequence' =
            [handoffSequence EXCEPT ![r] = IF pc[r] \in HandoffPoints THEN @ + 1 ELSE @]
    /\ \/ /\ pc[r] \in CallPoints \ {"emit_failed", "set_failed"}
          /\ pc' = [pc EXCEPT ![r] = "emit_failed"]
          /\ UNCHANGED result
       \/ /\ pc[r] \in {"create_run", "emit_failed", "set_failed"}
          /\ Returns(r, "failed")
    /\ UNCHANGED <<repoVars, context, progress, reading, replyVars, facts, crashes,
                   grants>>

(* The process dies; nothing ever resumes its run. *)
Crash(r) ==
    /\ crashes < MaxCrashes
    /\ crashes' = crashes + 1
    /\ pc[r] \in Working \cup {"create_run"}
    /\ pc' = [pc EXCEPT ![r] = "crashed"]
    /\ UNCHANGED <<repoVars, localVars, facts, faults, grants>>

-----------------------------------------------------------------------------
(* Other users of the repository *)

EditorWrites(u, d) ==
    /\ \E n \in 1 .. MaxVersions, text \in EditorContent :
            CreateVersion(u, [document |-> d, number |-> n, content |-> text,
                              author |-> u, run |-> NoRun])
    /\ UNCHANGED <<accessVars, comments, runTables>>
    /\ UNCHANGED <<pc, localVars, facts, budgets>>

OwnerGrants(u, d) ==
    /\ grants < MaxGrants
    /\ grants' = grants + 1
    /\ \E grantee \in User, level \in {Read, Edit} : GrantAccess(u, d, grantee, level)
    /\ UNCHANGED <<users, owner, versions, comments, runTables>>
    /\ UNCHANGED <<pc, localVars, facts, faults, crashes>>

-----------------------------------------------------------------------------
Init ==
    /\ users = User
    /\ owner = SeedOwner
    /\ access = SeedAccess
    /\ versions = SeedVersions
    /\ comments = {}
    /\ runs = [id \in RunId |-> NoRun]
    /\ events = {}
    /\ handoffs = {}
    /\ pc = [r \in Runner |-> "idle"]
    /\ context = [r \in Runner |-> NoContext]
    /\ eventSequence = [r \in Runner |-> 0]
    /\ handoffSequence = [r \in Runner |-> 0]
    /\ revisionCount = [r \in Runner |-> 0]
    /\ current = [r \in Runner |-> NoVersion]
    /\ previous = [r \in Runner |-> NoFeedback]
    /\ pushed = [r \in Runner |-> NoVersion]
    /\ latest = [r \in Runner |-> 0]
    /\ draft = [r \in Runner |-> NoDraft]
    /\ reply = [r \in Runner |-> NoReply]
    /\ feedback = [r \in Runner |-> NoFeedback]
    /\ asking = [r \in Runner |-> NoReply]
    /\ result = [r \in Runner |-> NoReply]
    /\ facts = [id \in RunId |-> 0]
    /\ faults = 0
    /\ crashes = 0
    /\ grants = 0

Emission(r) ==
    \/ EmitRunStarted(r) \/ EmitExecutorContext(r) \/ EmitCriticContext(r)
    \/ ExecutorTurn(r) \/ CriticTurn(r)
    \/ EmitMemoryDecided(r) \/ EmitFactSaved(r)
    \/ EmitVersionCreated(r) \/ EmitHandoffToCritic(r)
    \/ EmitGroundingRejected(r) \/ EmitReview(r)
    \/ EmitLimitReached(r) \/ EmitHandoffToExecutor(r) \/ EmitRevisionRequested(r)
    \/ EmitHandoffAcceptance(r)
    \/ EmitApprovalRequested(r) \/ Approve(r) \/ Decline(r)
    \/ EmitRunCompleted(r) \/ EmitRunBlocked(r) \/ EmitRunFailed(r)

OtherCall(r) ==
    \/ StartRun(r) \/ RunRefused(r)
    \/ PushExecutorContext(r) \/ PushCriticContext(r) \/ ReadRefused(r)
    \/ SaveFact(r)
    \/ ReadLatest(r) \/ PersistDraft(r) \/ DraftRefused(r)
    \/ HandoffToCritic(r) \/ HandoffToExecutor(r) \/ HandoffAcceptance(r)
    \/ SetCompleted(r) \/ SetBlocked(r) \/ SetFailed(r)

Decision(r) ==
    \/ RoleFails(r) \/ GateFails(r)
    \/ ExecutorCompletes(r) \/ ExecutorBlocks(r) \/ ExecutorOutcome(r)
    \/ CriticAccepts(r) \/ CriticRevises(r) \/ CriticBlocks(r) \/ CriticOutcome(r)
    \/ AcceptDraft(r) \/ ReachRevisionLimit(r) \/ StallRevision(r)
    \/ RequestRevision(r)

(* What run() does by itself once it has been called. *)
Step(r) == Emission(r) \/ OtherCall(r) \/ Decision(r)

Next ==
    \/ \E r \in Runner : Step(r) \/ Call(r) \/ CallFails(r) \/ Crash(r)
    \/ \E u \in User, d \in Document : EditorWrites(u, d) \/ OwnerGrants(u, d)

Spec == Init /\ [][Next]_vars

(* run() is sequential code; its model calls, its approval gate and its    *)
(* database calls return or raise.  Nobody is obliged to call run().       *)
FairSpec == Spec /\ \A r \in Runner : WF_vars(Step(r))

-----------------------------------------------------------------------------
(* What the tables say about a run *)

EventsOf(id) == {e \in events : e.run = id}
VersionsOf(id) == {v \in versions : v.run = id}
HandoffsOf(id) == {h \in handoffs : h.run = id}
StatusOf(id) == IF runs[id] = NoRun THEN "absent" ELSE runs[id].status

Records(e, type, version, detail) ==
    e.type = type /\ e.version = version /\ e.detail = detail

(* The Critic accepted the version in an event before sequence number s. *)
AcceptedBefore(id, version, s) ==
    \E e \in EventsOf(id) :
        /\ Records(e, "critic_review_completed", version, "accept")
        /\ e.sequence < s

(* ... and a human approved it between that acceptance and s. *)
ReleasedBefore(id, version, s) ==
    \E e \in EventsOf(id) :
        /\ Records(e, "approval_resolved", version, "approved")
        /\ e.sequence < s
        /\ AcceptedBefore(id, version, e.sequence)

Declined(id) ==
    \E e \in EventsOf(id) : e.type = "approval_resolved" /\ e.detail = "declined"

TerminalEvent ==
    [completed |-> "run_completed", blocked |-> "run_blocked",
     failed |-> "run_failed"]

-----------------------------------------------------------------------------
(* Safety *)

TypeOK ==
    /\ RepoTypeOK
    /\ pc \in [Runner -> Points]
    /\ context \in [Runner -> Context \cup {NoContext}]
    /\ \A r \in Runner : pc[r] # "idle" => context[r] # NoContext
    /\ eventSequence \in [Runner -> Nat]
    /\ handoffSequence \in [Runner -> Nat]
    /\ revisionCount \in [Runner -> Nat]
    /\ current \in [Runner -> VersionRef \cup {NoVersion}]
    /\ previous \in [Runner -> Feedback \cup {NoFeedback}]
    /\ pushed \in [Runner -> VersionRef \cup {NoVersion}]
    /\ latest \in [Runner -> Nat]
    /\ draft \in [Runner -> Content \cup {NoDraft}]
    /\ reply \in [Runner -> {NoReply, "complete", "blocked", "accept", "revise",
                             "ungrounded"}]
    /\ feedback \in [Runner -> Feedback \cup {NoFeedback}]
    /\ asking \in [Runner -> {NoReply, "executor", "critic", "final"}]
    /\ result \in [Runner -> {NoReply} \cup Terminal]
    /\ facts \in [RunId -> Nat]
    /\ faults \in Nat /\ crashes \in Nat /\ grants \in Nat

(* "A successful result identifies the exact Critic-accepted and human-    *)
(* approved document version": a completed run has a run_completed event   *)
(* for a version that the run itself created, that the Critic accepted and *)
(* that a human approved after the acceptance and before the completion,   *)
(* and no approval of the run was ever declined.                           *)
CompletionIsApproved ==
    \A id \in RunId : StatusOf(id) = "completed" =>
        /\ \E e \in EventsOf(id) :
                /\ e.type = "run_completed"
                /\ ReleasedBefore(id, e.version, e.sequence)
                /\ \E v \in VersionsOf(id) : Ref(v) = e.version
        /\ ~ Declined(id)

(* A terminal status and the log agree: the last event of the run is the   *)
(* terminal event of that status (CompletedRunBundle refuses the run       *)
(* otherwise), even when a terminal event was written and its status could *)
(* not be.                                                                 *)
TerminalMatchesLog ==
    \A id \in RunId : StatusOf(id) \in Terminal =>
        \E e \in EventsOf(id) :
            /\ e.type = TerminalEvent[StatusOf(id)]
            /\ \A other \in EventsOf(id) : other.sequence <= e.sequence

(* A run that has ended is closed: its status, events, handoffs, versions  *)
(* and facts never change again, whoever calls run() with its identifier.  *)
TerminalIsFinal ==
    [][ \A id \in RunId : StatusOf(id) \in Terminal =>
            /\ runs'[id] = runs[id]
            /\ \A e \in events' \ events : e.run # id
            /\ \A h \in handoffs' \ handoffs : h.run # id
            /\ \A v \in versions' \ versions : v.run # id
            /\ facts'[id] = facts[id]
      ]_vars

(* No two active runners write under one run identifier, so the sequence   *)
(* number an active runner takes next is always free and every record of   *)
(* a run comes from the one run() call that created it.                    *)
OneWriterPerRun ==
    /\ \A r, other \in Runner :
            /\ pc[r] \in Working
            /\ pc[other] \in Working
            /\ RunOf(r) = RunOf(other)
            => r = other
    /\ \A r \in Runner : pc[r] \in Working =>
            /\ InRunScope(RunOf(r), UserOf(r), DocumentOf(r))
            /\ StatusOf(RunOf(r)) = "running"
            /\ \A e \in EventsOf(RunOf(r)) : e.sequence <= eventSequence[r]
            /\ \A h \in handoffs : h.run = RunOf(r) => h.sequence <= handoffSequence[r]

(* The Critic's verdict names the version it was handed: a review names    *)
(* the latest version its run had announced, and that version had been     *)
(* handed from the Executor to the Critic, whatever other versions the     *)
(* document got meanwhile.                                                 *)
ReviewNamesHandedVersion ==
    \A e \in events : e.type = "critic_review_completed" =>
        /\ \E h \in handoffs :
                h.run = e.run /\ h.to = "critic" /\ h.version = e.version
        /\ \E made \in EventsOf(e.run) :
                /\ made.type = "document_version_created"
                /\ made.version = e.version
                /\ made.sequence < e.sequence
                /\ \A later \in EventsOf(e.run) :
                        /\ later.type = "document_version_created"
                        /\ later.sequence < e.sequence
                        => later.sequence <= made.sequence

(* "A further Critic revision request blocks the run before another        *)
(* Executor round": a run never has more versions than one for the source  *)
(* and one for each revision handed back to the Executor, nor more of      *)
(* those than max_revisions.                                               *)
RevisionBudget ==
    \A id \in RunId :
        LET returned == {h \in handoffs : h.run = id /\ h.to = "executor"}
        IN  /\ Cardinality(returned) <= MaxRevisions
            /\ Cardinality(VersionsOf(id)) <= 1 + Cardinality(returned)

(* Progress between rounds: two consecutive versions of one run differ in  *)
(* text (stalled_draft).                                                   *)
ConsecutiveDraftsDiffer ==
    \A id \in RunId : \A v, w \in VersionsOf(id) :
        /\ v.number < w.number
        /\ ~ \E x \in VersionsOf(id) : v.number < x.number /\ x.number < w.number
        => v.content # w.content

(* The memory decision of the first draft is the only one and is carried   *)
(* out: a run saves a private fact at most once, only after deciding so,   *)
(* and a completed run that decided so has saved it and said so.           *)
MemoryDecisionHonoured ==
    \A id \in RunId :
        LET decisions == {e \in EventsOf(id) : e.type = "memory_save_decided"}
        IN  /\ Cardinality(decisions) <= 1
            /\ facts[id] <= Cardinality({e \in decisions : e.detail = "save"})
            /\ StatusOf(id) = "completed" =>
                    /\ Cardinality(decisions) = 1
                    /\ \A e \in decisions :
                        (e.detail = "save") =
                            (\E x \in EventsOf(id) : x.type = "private_fact_saved")
                    /\ \A e \in decisions : e.detail = "save" => facts[id] = 1

(* The caller of run() is not told of a success or a block that the        *)
(* database does not hold.                                                 *)
ResultIsPersisted ==
    \A r \in Runner :
        pc[r] = "returned" /\ result[r] \in {"completed", "blocked"} =>
            StatusOf(RunOf(r)) = result[r]

(* "deterministic sequence": the events of a run that ended are numbered   *)
(* from 1 without a gap, as validate_event_order requires of the run's     *)
(* bundle.                                                                 *)
EndedLogIsContiguous ==
    \A id \in RunId : StatusOf(id) \in Terminal =>
        \A e \in EventsOf(id) : e.sequence > 1 =>
            \E before \in EventsOf(id) : before.sequence = e.sequence - 1

(* The promises of RunLifecycle, read off the tables. *)
Life == INSTANCE RunLifecycle WITH
    Version <- Document \X Number,
    status <- [id \in RunId |-> StatusOf(id)],
    accepted <- [id \in RunId |->
                    {e.version : e \in {x \in EventsOf(id) :
                        /\ x.type = "critic_review_completed"
                        /\ x.detail = "accept"}}],
    released <- [id \in RunId |->
                    {e.version : e \in {x \in EventsOf(id) :
                        /\ x.type = "approval_resolved"
                        /\ x.detail = "approved"
                        /\ AcceptedBefore(id, x.version, x.sequence)}}],
    declined <- {id \in RunId : Declined(id)}

LifeSpec == Life!LifeSpec

-----------------------------------------------------------------------------
(* Liveness *)

(* Every active run() returns (or its process dies): rounds are bounded,   *)
(* and a failure leads to an end and not to another attempt.               *)
RunReturns ==
    \A r \in Runner : pc[r] \in Working ~> pc[r] \in {"returned", "crashed"}

(* Every created run gets a terminal status, unless its process died or a  *)
(* call failed.                                                            *)
RunEnds ==
    \A id \in RunId :
        StatusOf(id) = "running" ~>
            StatusOf(id) \in Terminal \/ crashes > 0 \/ faults > 0
=============================================================================
