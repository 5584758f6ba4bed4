-------------------------- MODULE CompletionProofs --------------------------
(***************************************************************************)
(* Proofs about EditorialWorkflow: a completed run was accepted and        *)
(* approved; the log, the status and the returned result of a run that     *)
(* ended agree; the workflow implements RunLifecycle; and the rounds of a  *)
(* run keep to the revision budget, differ in text, hand the version over  *)
(* that is reviewed, and honour the memory decision.  A run takes a        *)
(* bounded number of steps, and nothing it has to write is ever refused.   *)
(***************************************************************************)
EXTENDS EditorialWorkflowProofs, FiniteSetTheorems

-----------------------------------------------------------------------------
(* Completion.  What an active runner has recorded on its way: nothing       *)
(* declined unless it is ending, a version of its own from the first draft   *)
(* on, the Critic's acceptance of that version from the acceptance on, its   *)
(* approval once it may complete, and all of it before run_completed.        *)

OwnVersion(id, version) == \E v \in VersionsOf(id) : Ref(v) = version

CompletionRecorded(id, version) ==
    \E e \in EventsOf(id) :
        /\ e.type = "run_completed"
        /\ e.version = version
        /\ ReleasedBefore(id, version, e.sequence)

PathAt(r, point) ==
    /\ point \notin EndPoints => ~ Declined(RunOf(r))
    /\ DraftedAt(r, point) => OwnVersion(RunOf(r), current[r])
    /\ AcceptedAt(r, point) =>
            AcceptedBefore(RunOf(r), current[r], eventSequence[r] + 1)
    /\ point = "emit_completed" =>
            ReleasedBefore(RunOf(r), current[r], eventSequence[r] + 1)
    /\ point = "set_completed" => CompletionRecorded(RunOf(r), current[r])

ApprovedRun(id) ==
    /\ \E version : CompletionRecorded(id, version) /\ OwnVersion(id, version)
    /\ ~ Declined(id)

CompletionInv ==
    /\ \A id \in RunId : StatusOf(id) = "completed" => ApprovedRun(id)
    /\ \A r \in Runner : pc[r] \in Working => PathAt(r, pc[r])

(* What a run has recorded stays recorded.                                   *)
LEMMA RecordsStay ==
    ASSUME events \subseteq events', versions \subseteq versions', NEW id, NEW version
    PROVE  /\ \A s : AcceptedBefore(id, version, s) => AcceptedBefore(id, version, s)'
           /\ \A s : ReleasedBefore(id, version, s) => ReleasedBefore(id, version, s)'
           /\ CompletionRecorded(id, version) => CompletionRecorded(id, version)'
           /\ OwnVersion(id, version) => OwnVersion(id, version)'
  <1>1. \A s : AcceptedBefore(id, version, s) => AcceptedBefore(id, version, s)'
    BY DEF AcceptedBefore, EventsOf
  <1>2. \A s : ReleasedBefore(id, version, s) => ReleasedBefore(id, version, s)'
    BY <1>1 DEF ReleasedBefore, EventsOf
  <1>3. CompletionRecorded(id, version) => CompletionRecorded(id, version)'
    BY <1>2 DEF CompletionRecorded, EventsOf
  <1>4. OwnVersion(id, version) => OwnVersion(id, version)'
    BY DEF OwnVersion, VersionsOf
  <1> QED
    BY <1>1, <1>2, <1>3, <1>4

(* ... and counts as recorded before every later sequence number.            *)
LEMMA RecordsEarlier ==
    ASSUME RepoTypeOK, NEW id, NEW version, NEW s \in Nat, NEW t \in Nat, s <= t
    PROVE  /\ AcceptedBefore(id, version, s) => AcceptedBefore(id, version, t)
           /\ ReleasedBefore(id, version, s) => ReleasedBefore(id, version, t)
  <1>1. \A e \in events : e.sequence \in Nat
    BY DEF RepoTypeOK, EventRow
  <1> QED
    BY <1>1 DEF AcceptedBefore, ReleasedBefore, EventsOf

(* Only a recorded decline declines a run.                                   *)
LEMMA DeclinedStays ==
    ASSUME NEW id, ~ Declined(id),
           \A e \in events' \ events :
                e.run = id => ~ (e.type = "approval_resolved" /\ e.detail = "declined")
    PROVE  ~ Declined(id)'
  BY DEF Declined, EventsOf

(* A runner that does not move keeps its path, whatever others record.       *)
Still(o) ==
    /\ pc[o] \in Working
    /\ pc'[o] = pc[o]
    /\ context'[o] = context[o]
    /\ current'[o] = current[o]
    /\ asking'[o] = asking[o]
    /\ reply'[o] = reply[o]
    /\ eventSequence'[o] = eventSequence[o]
    /\ \A e \in events' \ events : e.run # RunOf(o)

(* A runner that is still keeps its place on the path.                       *)
LEMMA StillPath ==
    ASSUME events \subseteq events', versions \subseteq versions',
           NEW o \in Runner, Still(o), PathAt(o, pc[o])
    PROVE  PathAt(o, pc[o])'
  <1>1. RunOf(o)' = RunOf(o) /\ current'[o] = current[o]
            /\ eventSequence'[o] = eventSequence[o] /\ pc'[o] = pc[o]
    BY DEF Still, RunOf
  <1>2. ~ Declined(RunOf(o)) => ~ Declined(RunOf(o))'
    <2>1. ~ Declined(RunOf(o)) => ~ Declined(context[o].run)'
      BY DeclinedStays DEF Still, RunOf, Declined, EventsOf
    <2> QED
      BY <2>1, <1>1 DEF RunOf, Declined, EventsOf
  <1>3. /\ DraftedAt(o, pc[o])' => DraftedAt(o, pc[o])
        /\ AcceptedAt(o, pc[o])' => AcceptedAt(o, pc[o])
    BY DEF Still, DraftedAt, AcceptedAt
  <1> QED
    BY <1>1, <1>2, <1>3, RecordsStay
       DEF PathAt, RunOf, Declined, OwnVersion, AcceptedBefore, ReleasedBefore,
           CompletionRecorded, EventsOf, VersionsOf

(* The invariant survives a step that records nothing for a completed run,   *)
(* completes only approved runs, and leaves every active runner still or on  *)
(* its path.                                                                 *)
LEMMA CompletionFrame ==
    ASSUME CompletionInv, events \subseteq events', versions \subseteq versions',
           \A id \in RunId : StatusOf(id)' = "completed" =>
                /\ ApprovedRun(id)
                /\ \A e \in events' \ events : e.run # id,
           \A o \in Runner : pc'[o] \in Working => Still(o) \/ PathAt(o, pc[o])'
    PROVE  CompletionInv'
  <1>1. ASSUME NEW id \in RunId, StatusOf(id)' = "completed" PROVE ApprovedRun(id)'
    <2>1. ApprovedRun(id) /\ \A e \in events' \ events : e.run # id
      BY <1>1
    <2>2. ~ Declined(id)'
      BY <2>1, DeclinedStays DEF ApprovedRun
    <2> QED
      BY <2>1, <2>2, RecordsStay DEF ApprovedRun
  <1>2. ASSUME NEW o \in Runner, pc'[o] \in Working PROVE PathAt(o, pc[o])'
    BY <1>2, StillPath DEF CompletionInv, Still
  <1> QED
    BY <1>1, <1>2 DEF CompletionInv

(* A step of a runner that records no event leads from one point of the path *)
(* to another.                                                               *)
Calm(r) ==
    /\ pc[r] \in Working
    /\ pc[r] \in EndPoints => pc'[r] \in EndPoints
    /\ DraftedAt(r, pc[r])' => DraftedAt(r, pc[r])
    /\ AcceptedAt(r, pc[r])' => AcceptedAt(r, pc[r])
    /\ pc'[r] \notin {"emit_completed", "set_completed"}
    /\ current'[r] = current[r]

(* A calm step keeps its runner on the path.                                 *)
LEMMA CalmPath ==
    ASSUME TypeInv, NEW r \in Runner, Calm(r), PathAt(r, pc[r]),
           UNCHANGED <<context, events, versions>>,
           eventSequence'[r] \in Nat, eventSequence[r] <= eventSequence'[r]
    PROVE  PathAt(r, pc[r])'
  <1>1. RunOf(r)' = RunOf(r)
    BY DEF RunOf
  <1>2. Declined(RunOf(r))' = Declined(RunOf(r))
    BY DEF Declined, EventsOf, RunOf
  <1>3. OwnVersion(RunOf(r), current[r])' = OwnVersion(RunOf(r), current[r])
    BY DEF OwnVersion, VersionsOf, RunOf, Calm
  <1>4. AcceptedBefore(RunOf(r), current[r], eventSequence[r] + 1) =>
            AcceptedBefore(RunOf(r), current[r], eventSequence[r] + 1)'
    <2>1. /\ RepoTypeOK /\ eventSequence[r] + 1 \in Nat /\ eventSequence'[r] + 1 \in Nat
          /\ eventSequence[r] + 1 <= eventSequence'[r] + 1
      BY DEF TypeInv, LocalTypeOK
    <2>2. AcceptedBefore(RunOf(r), current[r], eventSequence[r] + 1) =>
            AcceptedBefore(RunOf(r), current[r], eventSequence'[r] + 1)
      BY <2>1, RecordsEarlier
    <2> QED
      BY <2>2 DEF AcceptedBefore, EventsOf, RunOf, Calm
  <1> QED
    BY <1>2, <1>3, <1>4 DEF PathAt, Calm

(* An event leads from one point of the path to another.                     *)
LEMMA EmissionPath ==
    ASSUME TypeInv, NEW r \in Runner, NEW from, NEW type, NEW version, NEW detail,
           NEW to, EmissionFrom(r, from, type, version, detail, to), PathAt(r, from)
    PROVE  PathAt(r, pc[r])'
  <1>1. PICK id, v, s, e :
            /\ id = RunOf(r) /\ v = current[r] /\ s = eventSequence[r]
            /\ e = [run |-> RunOf(r), sequence |-> eventSequence[r] + 1,
                    type |-> type, version |-> version, detail |-> detail]
    OBVIOUS
  <1>2. /\ e.run = id /\ e.sequence = s + 1 /\ e.type = type
        /\ e.version = version /\ e.detail = detail
    BY <1>1
  <1>3. /\ pc'[r] = to
        /\ eventSequence'[r] = s + 1
        /\ s \in Nat
        /\ events' = events \cup {e}
        /\ UNCHANGED <<context, current, asking, reply, versions>>
    BY <1>1 DEF EmissionFrom, Emit, GoTo, AppendEvent, progress, replyVars, TypeInv,
           LocalTypeOK
  <1>4. Leads(r, from, type, version, detail, to)
    BY DEF EmissionFrom
  <1>5. /\ RunOf(r)' = id
        /\ current'[r] = v
        /\ events \subseteq events'
        /\ versions \subseteq versions'
        /\ e \in events'
        /\ DraftedAt(r, pc[r])' <=> DraftedAt(r, to)
        /\ AcceptedAt(r, pc[r])' <=> AcceptedAt(r, to)
    BY <1>1, <1>3 DEF RunOf, DraftedAt, AcceptedAt
  <1>6. to \notin EndPoints => ~ Declined(id)'
    <2>1. SUFFICES ASSUME to \notin EndPoints PROVE ~ Declined(id)'
      OBVIOUS
    <2>2. ~ Declined(id) /\ ~ (type = "approval_resolved" /\ detail = "declined")
      BY <1>1, <1>4, <2>1 DEF Leads, PathAt
    <2> QED
      BY <1>2, <1>3, <2>2 DEF Declined, EventsOf
  <1>7. DraftedAt(r, to) => OwnVersion(id, v)'
    BY <1>1, <1>4, <1>5, RecordsStay DEF Leads, PathAt
  <1>8. AcceptedAt(r, from) => AcceptedBefore(id, v, s + 1)'
    BY <1>1, <1>5, RecordsStay DEF PathAt
  <1>9. AcceptedAt(r, to) => AcceptedBefore(id, v, s + 2)'
    <2>1. CASE AcceptedAt(r, from)
      <3>1. RepoTypeOK'
        BY EmissionTypeInv, EmitTypeInv DEF EmissionFrom, TypeInv, EmitPoints, Points
      <3>2. \A x \in events' : x.sequence \in Nat
        BY <3>1 DEF RepoTypeOK, EventRow
      <3> QED
        BY <1>3, <1>8, <2>1, <3>2 DEF AcceptedBefore, EventsOf
    <2>2. CASE type = "critic_review_completed" /\ version = current[r]
                    /\ detail = "accept"
      BY <1>1, <1>2, <1>3, <1>5, <2>2 DEF AcceptedBefore, EventsOf, Records
    <2> QED
      BY <1>4, <2>1, <2>2 DEF Leads
  <1>10. to = "emit_completed" => ReleasedBefore(id, v, s + 2)'
    <2>1. SUFFICES ASSUME to = "emit_completed" PROVE ReleasedBefore(id, v, s + 2)'
      OBVIOUS
    <2>2. /\ AcceptedBefore(id, v, s + 1)'
          /\ type = "approval_resolved" /\ version = v /\ detail = "approved"
      BY <1>1, <1>4, <1>8, <2>1 DEF Leads
    <2> QED
      BY <1>2, <1>3, <1>5, <2>2 DEF ReleasedBefore, EventsOf, Records
  <1>11. to = "set_completed" => CompletionRecorded(id, v)'
    <2>1. SUFFICES ASSUME to = "set_completed" PROVE CompletionRecorded(id, v)'
      OBVIOUS
    <2>2. /\ ReleasedBefore(id, v, s + 1)
          /\ type = "run_completed" /\ version = v
      BY <1>1, <1>4, <2>1 DEF Leads, PathAt
    <2>3. ReleasedBefore(id, v, s + 1)'
      BY <1>5, <2>2, RecordsStay
    <2> QED
      BY <1>2, <1>5, <2>2, <2>3 DEF CompletionRecorded, EventsOf
  <1>12. eventSequence'[r] + 1 = s + 2
    BY <1>3
  <1>13. /\ Declined(RunOf(r))' <=> Declined(id)'
         /\ OwnVersion(RunOf(r), current[r])' <=> OwnVersion(id, v)'
         /\ AcceptedBefore(RunOf(r), current[r], eventSequence[r] + 1)'
                <=> AcceptedBefore(id, v, s + 2)'
         /\ ReleasedBefore(RunOf(r), current[r], eventSequence[r] + 1)'
                <=> ReleasedBefore(id, v, s + 2)'
         /\ CompletionRecorded(RunOf(r), current[r])' <=> CompletionRecorded(id, v)'
    BY <1>5, <1>12
  <1> QED
    BY <1>3, <1>5, <1>6, <1>7, <1>9, <1>10, <1>11, <1>13 DEF PathAt

(* A step of one runner leaves the others' pc and locals alone.              *)
Local(r) ==
    \A o \in Runner : o # r =>
        /\ pc'[o] = pc[o]
        /\ context'[o] = context[o]
        /\ current'[o] = current[o]
        /\ asking'[o] = asking[o]
        /\ reply'[o] = reply[o]
        /\ draft'[o] = draft[o]
        /\ revisionCount'[o] = revisionCount[o]
        /\ eventSequence'[o] = eventSequence[o]
        /\ handoffSequence'[o] = handoffSequence[o]
        /\ pushed'[o] = pushed[o]
        /\ result'[o] = result[o]

(* Every step of a runner's process is local to it.                          *)
LEMMA LocalStep ==
    ASSUME TypeInv, NEW r \in Runner, Step(r) \/ Call(r) \/ CallFails(r) \/ Crash(r)
    PROVE  Local(r)
  <1> USE DEF TypeInv, LocalTypeOK, Local, localVars, counters, progress, reading, replyVars,
          Decide, GoTo, Returns
  <1>1. CASE Emission(r)
    <2>1. PICK from, type, version, detail, to :
            Emit(r, from, type, version, detail, to)
      BY <1>1, EmissionShape DEF EmissionFrom
    <2> QED
      BY <2>1 DEF Emit
  <1>2. CASE Decision(r)
    BY <1>2 DEF Decision, RoleFails, GateFails, ExecutorCompletes, ExecutorBlocks,
         ExecutorOutcome, CriticAccepts, CriticRevises, CriticBlocks, CriticOutcome,
         AcceptDraft, ReachRevisionLimit, StallRevision, RequestRevision, Reply
  <1>3. CASE HandoffToCritic(r) \/ HandoffToExecutor(r) \/ HandoffAcceptance(r)
    BY <1>3 DEF HandoffToCritic, HandoffToExecutor, HandoffAcceptance, Handoff
  <1>4. CASE SetCompleted(r) \/ SetBlocked(r) \/ SetFailed(r)
    BY <1>4 DEF SetCompleted, SetBlocked, SetFailed, SetStatus
  <1>5. CASE StartRun(r) \/ RunRefused(r)
    BY <1>5 DEF StartRun, RunRefused
  <1>6. CASE PushExecutorContext(r) \/ PushCriticContext(r) \/ ReadRefused(r)
                \/ SaveFact(r)
    BY <1>6 DEF PushExecutorContext, PushCriticContext, Push, ReadRefused, SaveFact
  <1>7. CASE ReadLatest(r) \/ PersistDraft(r) \/ DraftRefused(r)
    BY <1>7 DEF ReadLatest, PersistDraft, DraftRefused
  <1>8. CASE Call(r)
    BY <1>8 DEF Call
  <1>9. CASE CallFails(r)
    BY <1>9 DEF CallFails
  <1>10. CASE Crash(r)
    BY <1>10 DEF Crash
  <1> QED
    BY <1>1, <1>2, <1>3, <1>4, <1>5, <1>6, <1>7, <1>8, <1>9, <1>10 DEF Step, OtherCall

(* A step that records at most events of its own run leaves the others still. *)
LEMMA OthersStill ==
    ASSUME TypeInv, WriterInv, NEW r \in Runner,
           Step(r) \/ Call(r) \/ CallFails(r) \/ Crash(r),
           \A e \in events' \ events : pc[r] \in Working /\ e.run = RunOf(r)
    PROVE  \A o \in Runner : o # r /\ pc'[o] \in Working => Still(o)
  BY LocalStep DEF Local, Still, WriterInv, Alone

(* Handoffs, decisions, reads and failures are calm.                         *)
CalmAction(r) ==
    \/ Decision(r) \/ CallFails(r)
    \/ HandoffToCritic(r) \/ HandoffToExecutor(r) \/ HandoffAcceptance(r)
    \/ PushExecutorContext(r) \/ PushCriticContext(r) \/ ReadRefused(r)
    \/ SaveFact(r) \/ ReadLatest(r) \/ DraftRefused(r)

(* If the runner is still active afterwards, such a step is calm.            *)
LEMMA CalmSteps ==
    ASSUME TypeInv, NEW r \in Runner, CalmAction(r), pc'[r] \in Working
    PROVE  Calm(r)
  <1> USE DEF TypeInv, LocalTypeOK, localVars, counters, progress, replyVars,
          Decide, GoTo, Calm, DraftedAt, AcceptedAt, EndPoints, DraftedPoints,
          ApprovalPoints, AcceptancePoints
  <1>1. /\ \A point \in {"returned", "idle", "crashed", "create_run"} :
                point \notin Working
        /\ {"executor_reply", "critic_reply", "executor_outcome", "critic_outcome",
            "transition", "approval_gate", "executor_turn", "critic_turn",
            "push_executor", "push_critic", "read_latest", "save_fact",
            "create_version", "handoff_critic", "handoff_executor",
            "handoff_acceptance"} \subseteq Working
    BY DEF Working, CallPoints, DecisionPoints, EmitPoints, HandoffPoints,
           ReadPoints, StatusPoints
  <1>2. CASE pc[r] \in Working /\ pc'[r] = "emit_failed" /\ current'[r] = current[r]
    BY <1>2
  <1>3. CASE RoleFails(r) \/ GateFails(r)
    <2>1. pc[r] \in Working /\ pc'[r] = "emit_failed" /\ current'[r] = current[r]
      BY <1>1, <1>3 DEF RoleFails, GateFails
    <2> QED
      BY <1>2, <2>1
  <1>4. CASE ReadRefused(r) \/ DraftRefused(r)
    <2>1. pc[r] \in Working /\ pc'[r] = "emit_failed" /\ current'[r] = current[r]
      BY <1>1, <1>4 DEF ReadRefused, DraftRefused, ReadPoints
    <2> QED
      BY <1>2, <2>1
  <1>5. CASE CallFails(r)
    <2>1. pc'[r] = "emit_failed" /\ pc[r] \in CallPoints /\ current'[r] = current[r]
      BY <1>1, <1>5 DEF CallFails, Returns
    <2> QED
      BY <1>2, <2>1 DEF Working
  <1>6. CASE ExecutorCompletes(r) \/ ExecutorBlocks(r)
    BY <1>1, <1>6 DEF ExecutorCompletes, ExecutorBlocks, Reply
  <1>7. CASE ExecutorOutcome(r)
    BY <1>1, <1>7 DEF ExecutorOutcome
  <1>8. CASE CriticAccepts(r) \/ CriticRevises(r) \/ CriticBlocks(r)
    BY <1>1, <1>8 DEF CriticAccepts, CriticRevises, CriticBlocks, Reply
  <1>9. CASE CriticOutcome(r)
    BY <1>1, <1>9 DEF CriticOutcome
  <1>10. CASE AcceptDraft(r)
    BY <1>1, <1>10 DEF AcceptDraft
  <1>11. CASE ReachRevisionLimit(r) \/ StallRevision(r) \/ RequestRevision(r)
    BY <1>1, <1>11 DEF ReachRevisionLimit, StallRevision, RequestRevision
  <1>12. CASE HandoffToCritic(r) \/ HandoffToExecutor(r) \/ HandoffAcceptance(r)
    BY <1>1, <1>12 DEF HandoffToCritic, HandoffToExecutor, HandoffAcceptance, Handoff
  <1>13. CASE PushExecutorContext(r) \/ PushCriticContext(r)
    BY <1>1, <1>13 DEF PushExecutorContext, PushCriticContext, Push
  <1>14. CASE SaveFact(r) \/ ReadLatest(r)
    BY <1>1, <1>14 DEF SaveFact, ReadLatest
  <1> QED
    BY <1>3, <1>4, <1>5, <1>6, <1>7, <1>8, <1>9, <1>10, <1>11, <1>12, <1>13, <1>14
       DEF CalmAction, Decision

(* At first no run has completed.                                            *)
LEMMA InitCompletion == Init => CompletionInv
  BY DEF Init, CompletionInv, StatusOf, Working, CallPoints, DecisionPoints,
         EmitPoints, HandoffPoints, ReadPoints, StatusPoints

(* A step that leaves events and statuses alone.                             *)
LEMMA SilentCompletion ==
    ASSUME CompletionInv, UNCHANGED <<events, runs>>, versions \subseteq versions',
           \A o \in Runner : pc'[o] \in Working => Still(o) \/ PathAt(o, pc[o])'
    PROVE  CompletionInv'
  <1>1. \A id \in RunId : StatusOf(id)' = "completed" =>
            ApprovedRun(id) /\ \A e \in events' \ events : e.run # id
    BY DEF CompletionInv, StatusOf
  <1> QED
    BY <1>1, CompletionFrame

(* Every emission keeps the completion invariant.                            *)
LEMMA EmissionCompletion ==
    ASSUME TypeInv, WriterInv, CompletionInv, NEW r \in Runner, Emission(r)
    PROVE  CompletionInv'
  <1>1. PICK from, type, version, detail, to :
            EmissionFrom(r, from, type, version, detail, to)
    BY EmissionShape
  <1>2. pc[r] = from /\ pc[r] \in Working
    BY <1>1 DEF EmissionFrom, Emit, GoTo, Working, CallPoints
  <1>3. /\ UNCHANGED <<runs, versions>>
        /\ \A e \in events' \ events : e.run = RunOf(r)
        /\ events \subseteq events'
    BY <1>1 DEF EmissionFrom, Emit, AppendEvent
  <1>4. PathAt(r, pc[r])'
    BY <1>1, <1>2, EmissionPath DEF CompletionInv
  <1>5. \A o \in Runner : o # r /\ pc'[o] \in Working => Still(o)
    BY <1>2, <1>3, OthersStill DEF Step
  <1>6. \A id \in RunId : StatusOf(id)' = "completed" =>
            ApprovedRun(id) /\ \A e \in events' \ events : e.run # id
    <2>1. StatusOf(RunOf(r)) = "running"
      BY <1>2 DEF WriterInv, OwnsRun, StatusOf
    <2> QED
      BY <1>3, <2>1 DEF CompletionInv, StatusOf
  <1> QED
    BY <1>3, <1>4, <1>5, <1>6, CompletionFrame

(* So does every calm action.                                                *)
LEMMA CalmCompletion ==
    ASSUME TypeInv, TypeInv', WriterInv, CompletionInv, NEW r \in Runner, CalmAction(r)
    PROVE  CompletionInv'
  <1>1. UNCHANGED <<events, runs, versions, context>>
            /\ eventSequence[r] <= eventSequence'[r]
    <2>1. CASE HandoffToCritic(r) \/ HandoffToExecutor(r) \/ HandoffAcceptance(r)
      BY <2>1 DEF HandoffToCritic, HandoffToExecutor, HandoffAcceptance, Handoff,
            TypeInv, LocalTypeOK
    <2>2. CASE ~ (HandoffToCritic(r) \/ HandoffToExecutor(r) \/ HandoffAcceptance(r))
      <3>1. Quiet(r)
        BY <2>2, QuietSteps DEF CalmAction
      <3> QED
        BY <3>1 DEF Quiet, repoVars
    <2> QED
      BY <2>1, <2>2
  <1>2. pc'[r] \in Working => PathAt(r, pc[r])'
    <2>1. SUFFICES ASSUME pc'[r] \in Working PROVE PathAt(r, pc[r])'
      OBVIOUS
    <2>2. Calm(r)
      BY <2>1, CalmSteps
    <2>3. PathAt(r, pc[r])
      BY <2>2 DEF Calm, CompletionInv
    <2>4. eventSequence'[r] \in Nat
      BY DEF TypeInv, LocalTypeOK
    <2> QED
      BY <1>1, <2>2, <2>3, <2>4, CalmPath
  <1>3. \A o \in Runner : o # r /\ pc'[o] \in Working => Still(o)
    BY <1>1, OthersStill DEF CalmAction, Step, OtherCall
  <1> QED
    BY <1>1, <1>2, <1>3, SilentCompletion

(* So does a step after which its runner is not active.                      *)
LEMMA PassiveCompletion ==
    ASSUME TypeInv, WriterInv, CompletionInv, NEW r \in Runner,
           RunRefused(r) \/ Crash(r) \/ Call(r)
    PROVE  CompletionInv'
  <1>1. UNCHANGED repoVars /\ \E to \in {"returned", "crashed", "create_run"} :
                                    pc' = [pc EXCEPT ![r] = to]
    BY DEF RunRefused, Returns, Crash, Call
  <1>2. pc'[r] \notin Working
    BY <1>1 DEF TypeInv, LocalTypeOK, Working, CallPoints, DecisionPoints, EmitPoints,
        HandoffPoints, ReadPoints, StatusPoints
  <1>3. UNCHANGED <<events, runs, versions>>
    BY <1>1 DEF repoVars
  <1>4. \A o \in Runner : o # r /\ pc'[o] \in Working => Still(o)
    BY <1>3, OthersStill DEF Step, OtherCall
  <1> QED
    BY <1>2, <1>3, <1>4, SilentCompletion

(* A created run has declined nothing.                                       *)
LEMMA StartRunCompletion ==
    ASSUME TypeInv, WriterInv, CompletionInv, NEW r \in Runner, StartRun(r)
    PROVE  CompletionInv'
  <1>1. /\ pc[r] = "create_run" /\ pc'[r] = "emit_started"
        /\ RunOf(r) \in RunId
        /\ runs[RunOf(r)] = NoRun
        /\ UNCHANGED <<events, versions, context>>
        /\ \A id \in RunId : id # RunOf(r) => runs'[id] = runs[id]
    BY ContextType DEF StartRun, GoTo, CreateRun, CanCreateRun, TypeInv, LocalTypeOK,
          RepoTypeOK, localVars
  <1>2. runs'[RunOf(r)].status = "running"
    BY <1>1 DEF StartRun, CreateRun, TypeInv, RepoTypeOK
  <1>3. \A e \in events : e.run # RunOf(r)
    BY <1>1 DEF WriterInv, Unborn
  <1>4. PathAt(r, pc[r])'
    BY <1>1, <1>3 DEF PathAt, Declined, EventsOf, RunOf, DraftedAt, AcceptedAt,
          DraftedPoints, AcceptancePoints, ApprovalPoints
  <1>5. \A o \in Runner : o # r /\ pc'[o] \in Working => Still(o)
    BY <1>1, OthersStill DEF Step, OtherCall
  <1>6. \A id \in RunId : StatusOf(id)' = "completed" =>
            ApprovedRun(id) /\ \A e \in events' \ events : e.run # id
    BY <1>1, <1>2 DEF CompletionInv, StatusOf
  <1> QED
    BY <1>1, <1>4, <1>5, <1>6, CompletionFrame

(* A stored draft is a version of the run.                                   *)
LEMMA PersistDraftCompletion ==
    ASSUME TypeInv, WriterInv, CompletionInv, NEW r \in Runner, PersistDraft(r)
    PROVE  CompletionInv'
  <1>1. /\ pc[r] = "create_version" /\ pc'[r] = "emit_version_created"
        /\ UNCHANGED <<events, runs, context>>
        /\ versions' = versions \cup {DraftRow(r)}
        /\ current'[r] = Ref(DraftRow(r))
    BY DEF PersistDraft, GoTo, CreateVersion, TypeInv, LocalTypeOK, runTables
  <1>2. PathAt(r, pc[r])
    BY <1>1 DEF CompletionInv, Working, CallPoints
  <1>3. ~ Declined(RunOf(r))'
    BY <1>1, <1>2 DEF PathAt, EndPoints, Declined, EventsOf, RunOf
  <1>4. OwnVersion(RunOf(r), current[r])'
    <2>1. DraftRow(r).run = RunOf(r)
      BY DEF DraftRow
    <2>2. PICK v \in versions' : v.run = RunOf(r) /\ Ref(v) = current'[r]
      BY <1>1, <2>1
    <2> QED
      BY <1>1, <2>2 DEF OwnVersion, VersionsOf, RunOf, Ref
  <1>5. PathAt(r, pc[r])'
    BY <1>1, <1>3, <1>4 DEF PathAt, AcceptedAt, AcceptancePoints, ApprovalPoints
  <1>6. \A o \in Runner : o # r /\ pc'[o] \in Working => Still(o)
    BY <1>1, OthersStill DEF Step, OtherCall
  <1> QED
    BY <1>1, <1>5, <1>6, SilentCompletion

(* The status completed is set at the end of the path only.                  *)
LEMMA SetStatusCompletion ==
    ASSUME TypeInv, WriterInv, CompletionInv, NEW r \in Runner,
           SetCompleted(r) \/ SetBlocked(r) \/ SetFailed(r)
    PROVE  CompletionInv'
  <1>1. PICK from \in StatusPoints, status \in Terminal :
            /\ SetStatus(r, from, status)
            /\ status = "completed" => from = "set_completed"
    BY DEF SetCompleted, SetBlocked, SetFailed, StatusPoints, Terminal
  <1>2. /\ pc[r] = from /\ pc[r] \in Working /\ pc'[r] = "returned"
        /\ UNCHANGED <<events, versions>>
        /\ RunOf(r) \in RunId
    BY <1>1, ActiveContext DEF SetStatus, Returns, Working, CallPoints, TypeInv,
          LocalTypeOK
  <1>3. \A id \in RunId : id # RunOf(r) => runs'[id] = runs[id]
    BY <1>1, <1>2 DEF SetStatus, SetRunStatus, TypeInv, RepoTypeOK
  <1>4. StatusOf(RunOf(r))' = "completed" => ApprovedRun(RunOf(r))
    <2>1. runs'[RunOf(r)].status = status /\ runs'[RunOf(r)] # NoRun
      <3>1. runs[RunOf(r)] \in RunRow
        BY <1>2 DEF WriterInv, OwnsRun, TypeInv, RepoTypeOK
      <3>2. runs' = [runs EXCEPT ![RunOf(r)].status = status,
                                 ![RunOf(r)].completedAt = TRUE]
        BY <1>1 DEF SetStatus, SetRunStatus
      <3>3. runs'[RunOf(r)] \in RunRow /\ runs'[RunOf(r)].status = status
        BY <1>2, <3>1, <3>2 DEF TypeInv, RepoTypeOK, RunRow, RunStatus
      <3> QED
        BY <3>3, NoRunIsNoRow
    <2>2. CASE status # "completed"
      <3>1. UNCHANGED context
        BY <1>1 DEF SetStatus
      <3> QED
        BY <2>1, <2>2, <3>1 DEF StatusOf, RunOf
    <2>3. CASE status = "completed"
      <3>1. PathAt(r, "set_completed")
        BY <1>1, <1>2, <2>3 DEF CompletionInv
      <3>2. /\ CompletionRecorded(RunOf(r), current[r])
            /\ OwnVersion(RunOf(r), current[r])
            /\ ~ Declined(RunOf(r))
        BY <3>1 DEF PathAt, EndPoints, DraftedAt, DraftedPoints
      <3> QED
        BY <3>2 DEF ApprovedRun
    <2> QED
      BY <2>2, <2>3
  <1>5. \A id \in RunId : StatusOf(id)' = "completed" =>
            ApprovedRun(id) /\ \A e \in events' \ events : e.run # id
    <2>1. UNCHANGED context
      BY <1>1 DEF SetStatus
    <2> QED
      BY <1>2, <1>3, <1>4, <2>1 DEF CompletionInv, StatusOf, RunOf
  <1>6. pc'[r] \notin Working
    BY <1>2 DEF Working, CallPoints, DecisionPoints, EmitPoints, HandoffPoints,
          ReadPoints, StatusPoints
  <1>7. \A o \in Runner : o # r /\ pc'[o] \in Working => Still(o)
    BY <1>2, OthersStill DEF Step, OtherCall
  <1> QED
    BY <1>2, <1>5, <1>6, <1>7, CompletionFrame

(* Other users change no event and no status.                                *)
LEMMA OutsideCompletion ==
    ASSUME CompletionInv, NEW u \in User, NEW d \in Document,
           EditorWrites(u, d) \/ OwnerGrants(u, d)
    PROVE  CompletionInv'
  <1>1. /\ UNCHANGED <<events, runs, pc, context, current, asking, reply, eventSequence>>
        /\ versions \subseteq versions'
    BY DEF EditorWrites, CreateVersion, OwnerGrants, runTables, localVars, counters,
          progress, replyVars
  <1>2. \A o \in Runner : pc'[o] \in Working => Still(o)
    BY <1>1 DEF Still
  <1> QED
    BY <1>1, <1>2, SilentCompletion

(* Every step keeps completed runs approved and active ones on their path.   *)
LEMMA CompletionStep ==
    ASSUME TypeInv, TypeInv', WriterInv, CompletionInv, [Next]_vars
    PROVE  CompletionInv'
  <1>1. ASSUME NEW r \in Runner, Step(r) \/ Call(r) \/ CallFails(r) \/ Crash(r)
        PROVE  CompletionInv'
    BY <1>1, EmissionCompletion, CalmCompletion, PassiveCompletion,
       StartRunCompletion, PersistDraftCompletion, SetStatusCompletion
       DEF Step, OtherCall, CalmAction
  <1>2. CASE UNCHANGED vars
    <2>1. /\ UNCHANGED <<events, runs, versions>>
          /\ UNCHANGED <<pc, context, current, asking, reply, eventSequence>>
      BY <1>2 DEF vars, repoVars, localVars, counters, progress, replyVars
    <2>2. \A o \in Runner : pc'[o] \in Working => Still(o)
      BY <2>1 DEF Still
    <2> QED
      BY <2>1, <2>2, SilentCompletion
  <1> QED
    BY <1>1, <1>2, OutsideCompletion DEF Next

(* So they are in every reachable state.                                     *)
THEOREM CompletionInvariant == Spec => []CompletionInv
  <1>1. TypeInv /\ TypeInv' /\ WriterInv /\ CompletionInv /\ [Next]_vars => CompletionInv'
    BY CompletionStep
  <1> QED
    BY <1>1, InitCompletion, WriterInvariant, PTL DEF Spec

(* A completed run has recorded the completion of a version of its own, after *)
(* the Critic's acceptance of that version and after a human approval that   *)
(* followed the acceptance, and nothing of it was ever declined: for any     *)
(* number of runners, faults, crashes and other editors.                     *)
THEOREM CompletionApproved == Spec => []CompletionIsApproved
  <1>1. CompletionInv => CompletionIsApproved
    <2> SUFFICES ASSUME CompletionInv, NEW id \in RunId, StatusOf(id) = "completed"
                 PROVE  /\ \E e \in EventsOf(id) :
                            /\ e.type = "run_completed"
                            /\ ReleasedBefore(id, e.version, e.sequence)
                            /\ \E v \in VersionsOf(id) : Ref(v) = e.version
                        /\ ~ Declined(id)
      BY DEF CompletionIsApproved
    <2>1. ApprovedRun(id)
      BY DEF CompletionInv
    <2>2. PICK version : CompletionRecorded(id, version) /\ OwnVersion(id, version)
      BY <2>1 DEF ApprovedRun
    <2>3. PICK e \in EventsOf(id) :
            /\ e.type = "run_completed"
            /\ e.version = version
            /\ ReleasedBefore(id, version, e.sequence)
      BY <2>2 DEF CompletionRecorded
    <2> QED
      BY <2>1, <2>2, <2>3 DEF ApprovedRun, OwnVersion
  <1> QED
    BY <1>1, CompletionInvariant, PTL

-----------------------------------------------------------------------------
(* The end of a run.  Before it sets a status, a runner has appended the     *)
(* event of that status as the last one of its run; the status is the last   *)
(* thing it writes.                                                          *)

Announced ==
    [set_completed |-> "run_completed", set_blocked |-> "run_blocked",
     set_failed |-> "run_failed"]

EndsWith(id, type) ==
    \E e \in EventsOf(id) :
        /\ e.type = type
        /\ \A other \in EventsOf(id) : other.sequence <= e.sequence

EndingInv ==
    /\ TerminalMatchesLog
    /\ \A r \in Runner : pc[r] \in StatusPoints => EndsWith(RunOf(r), Announced[pc[r]])
    /\ ResultIsPersisted

(* At first no run exists and nobody has returned.                           *)
LEMMA InitEnding == Init => EndingInv
  BY DEF Init, EndingInv, TerminalMatchesLog, ResultIsPersisted, StatusOf, Terminal,
         StatusPoints

(* The log of a run to which nothing is added ends as before.                *)
LEMMA EndsWithStays ==
    ASSUME events \subseteq events', NEW id, NEW type, EndsWith(id, type),
           \A e \in events' \ events : e.run # id
    PROVE  EndsWith(id, type)'
  BY DEF EndsWith, EventsOf

(* The invariant survives a step that ends runs, and brings runners to the   *)
(* point of ending one, only after the matching event, and lets runners      *)
(* return only what is persisted.                                            *)
LEMMA EndingFrame ==
    ASSUME EndingInv, events \subseteq events',
           \A id \in RunId : StatusOf(id) \in Terminal => Untouched(id),
           \A id \in RunId : StatusOf(id)' \in Terminal =>
                \/ StatusOf(id) \in Terminal
                \/ EndsWith(id, TerminalEvent[StatusOf(id)])',
           \A o \in Runner : pc'[o] \in StatusPoints =>
                \/ /\ pc[o] = pc'[o] /\ RunOf(o)' = RunOf(o)
                   /\ \A e \in events' \ events : e.run # RunOf(o)
                \/ EndsWith(RunOf(o), Announced[pc[o]])',
           \A o \in Runner : pc'[o] = "returned" =>
                \/ /\ pc[o] = "returned" /\ RunOf(o)' = RunOf(o) /\ result'[o] = result[o]
                   /\ result[o] \in {"completed", "blocked"} => RunOf(o) \in RunId
                \/ result'[o] = "failed"
                \/ StatusOf(RunOf(o))' = result'[o]
    PROVE  EndingInv'
  <1>1. TerminalMatchesLog'
    <2> SUFFICES ASSUME NEW id \in RunId, StatusOf(id)' \in Terminal
                 PROVE  EndsWith(id, TerminalEvent[StatusOf(id)])'
      BY DEF TerminalMatchesLog, EndsWith
    <2>1. CASE StatusOf(id) \in Terminal
      <3>1. EndsWith(id, TerminalEvent[StatusOf(id)])
        BY <2>1 DEF EndingInv, TerminalMatchesLog, EndsWith
      <3>2. StatusOf(id)' = StatusOf(id) /\ \A e \in events' \ events : e.run # id
        BY <2>1 DEF Untouched, StatusOf
      <3>3. EndsWith(id, TerminalEvent[StatusOf(id)']) = EndsWith(id, TerminalEvent[StatusOf(id)])
        BY <3>2
      <3> QED
        BY <3>1, <3>2, <3>3, EndsWithStays DEF EndsWith, EventsOf
    <2> QED
      BY <2>1
  <1>2. ASSUME NEW o \in Runner, pc'[o] \in StatusPoints
        PROVE  EndsWith(RunOf(o), Announced[pc[o]])'
    <2>1. CASE /\ pc[o] = pc'[o] /\ RunOf(o)' = RunOf(o)
               /\ \A e \in events' \ events : e.run # RunOf(o)
      <3>1. EndsWith(RunOf(o), Announced[pc[o]])
        BY <1>2, <2>1 DEF EndingInv
      <3> QED
        BY <2>1, <3>1 DEF EndsWith, EventsOf
    <2> QED
      BY <1>2, <2>1
  <1>3. ResultIsPersisted'
    <2> SUFFICES ASSUME NEW o \in Runner, pc'[o] = "returned",
                        result'[o] \in {"completed", "blocked"}
                 PROVE  StatusOf(RunOf(o))' = result'[o]
      BY DEF ResultIsPersisted
    <2>1. CASE /\ pc[o] = "returned" /\ RunOf(o)' = RunOf(o) /\ result'[o] = result[o]
               /\ RunOf(o) \in RunId
      <3>1. StatusOf(RunOf(o)) = result[o] /\ StatusOf(RunOf(o)) \in Terminal
        BY <2>1 DEF EndingInv, ResultIsPersisted, Terminal
      <3>2. Untouched(RunOf(o))
        BY <2>1, <3>1
      <3> QED
        BY <2>1, <3>1, <3>2 DEF Untouched, StatusOf
    <2> QED
      BY <2>1
  <1> QED
    BY <1>1, <1>2, <1>3 DEF EndingInv

(* Who has returned has a request.                                           *)
LEMMA ReturnedContext ==
    ASSUME TypeInv, NEW r \in Runner, pc[r] = "returned" PROVE RunOf(r) \in RunId
  BY ContextType

(* A runner that does not move keeps what the frame asks of it.              *)
LEMMA OthersEnding ==
    ASSUME TypeInv, WriterInv, NEW r \in Runner,
           Step(r) \/ Call(r) \/ CallFails(r) \/ Crash(r),
           \A e \in events' \ events : pc[r] \in Working /\ e.run = RunOf(r),
           NEW o \in Runner, o # r
    PROVE  /\ pc'[o] \in StatusPoints =>
                /\ pc[o] = pc'[o] /\ RunOf(o)' = RunOf(o)
                /\ \A e \in events' \ events : e.run # RunOf(o)
           /\ pc'[o] = "returned" =>
                /\ pc[o] = "returned" /\ RunOf(o)' = RunOf(o) /\ result'[o] = result[o]
                /\ RunOf(o) \in RunId
  <1>1. /\ pc'[o] = pc[o] /\ context'[o] = context[o] /\ result'[o] = result[o]
        /\ RunOf(o)' = RunOf(o)
    BY LocalStep DEF Local, RunOf
  <1>2. pc[o] \in StatusPoints => \A e \in events' \ events : e.run # RunOf(o)
    BY DEF WriterInv, Alone, Working, CallPoints
  <1> QED
    BY <1>1, <1>2, ReturnedContext

(* An event of a runner is the last of its run, and leads to a status only   *)
(* if it announces that status.                                              *)
LEMMA EmissionEnding ==
    ASSUME TypeInv, WriterInv, EndingInv, NEW r \in Runner, Emission(r),
           \A id \in RunId : StatusOf(id) \in Terminal => Untouched(id)
    PROVE  EndingInv'
  <1>1. PICK from, type, version, detail, to :
            EmissionFrom(r, from, type, version, detail, to)
    BY EmissionShape
  <1>2. PICK e : /\ events' = events \cup {e}
                 /\ e.run = RunOf(r) /\ e.type = type
                 /\ e.sequence = eventSequence[r] + 1
    BY <1>1 DEF EmissionFrom, Emit, AppendEvent
  <1>3. /\ pc[r] \in Working /\ pc'[r] = to /\ to \in Working
        /\ UNCHANGED <<runs, context, result>>
        /\ RunOf(r)' = RunOf(r)
    BY <1>1 DEF EmissionFrom, Emit, GoTo, Working, CallPoints, TypeInv, LocalTypeOK, RunOf
  <1>4. to \in StatusPoints => type = Announced[to]
    BY <1>1 DEF EmissionFrom, Leads, StatusPoints, Announced
  <1>5. EndsWith(RunOf(r), type)'
    <2>1. \A x \in events : x.run = RunOf(r) => x.sequence <= eventSequence[r]
      BY <1>3 DEF WriterInv, OwnsRun
    <2>2. eventSequence[r] \in Nat /\ \A x \in events : x.sequence \in Nat
      BY DEF TypeInv, LocalTypeOK, RepoTypeOK, EventRow
    <2>3. \A x \in events' : x.run = RunOf(r) => x.sequence <= e.sequence
      BY <1>2, <2>1, <2>2
    <2> QED
      BY <1>2, <1>3, <2>3 DEF EndsWith, EventsOf
  <1>6. "returned" \notin Working
    BY DEF Working, CallPoints, DecisionPoints, EmitPoints, HandoffPoints, ReadPoints,
           StatusPoints
  <1>7. \A id \in RunId : StatusOf(id)' = StatusOf(id)
    BY <1>3 DEF StatusOf
  <1>8. \A x \in events' \ events : pc[r] \in Working /\ x.run = RunOf(r)
    BY <1>2, <1>3
  <1>9. Announced[pc[r]]' = Announced[to] /\ EndsWith(RunOf(r), Announced[pc[r]])' <=>
            EndsWith(RunOf(r), Announced[to])'
    BY <1>3 DEF EndsWith, EventsOf
  <1>10. \A o \in Runner : o # r =>
            /\ pc'[o] \in StatusPoints =>
                /\ pc[o] = pc'[o] /\ RunOf(o)' = RunOf(o)
                /\ \A x \in events' \ events : x.run # RunOf(o)
            /\ pc'[o] = "returned" =>
                /\ pc[o] = "returned" /\ RunOf(o)' = RunOf(o) /\ result'[o] = result[o]
                /\ RunOf(o) \in RunId
    BY <1>8, OthersEnding DEF Step
  <1> QED
    BY <1>2, <1>3, <1>4, <1>5, <1>6, <1>7, <1>9, <1>10, EndingFrame

(* The status is the one the last event announced.                           *)
LEMMA SetStatusEnding ==
    ASSUME TypeInv, WriterInv, EndingInv, NEW r \in Runner,
           SetCompleted(r) \/ SetBlocked(r) \/ SetFailed(r),
           \A id \in RunId : StatusOf(id) \in Terminal => Untouched(id)
    PROVE  EndingInv'
  <1>1. PICK from \in StatusPoints, status \in Terminal :
            /\ SetStatus(r, from, status)
            /\ TerminalEvent[status] = Announced[from]
    BY DEF SetCompleted, SetBlocked, SetFailed, StatusPoints, Terminal, TerminalEvent,
           Announced
  <1>2. /\ pc[r] = from /\ pc'[r] = "returned" /\ result'[r] = status
        /\ UNCHANGED <<events, context>>
        /\ \A id \in RunId : id # RunOf(r) => runs'[id] = runs[id]
        /\ RunOf(r) \in RunId
    BY <1>1, ActiveContext DEF SetStatus, Returns, SetRunStatus, TypeInv, LocalTypeOK, RepoTypeOK,
           Working, CallPoints
  <1>3. runs'[RunOf(r)] # NoRun /\ runs'[RunOf(r)].status = status
    <2>1. pc[r] \in Working
      BY <1>1, <1>2 DEF Working, CallPoints
    <2>2. runs[RunOf(r)] # NoRun /\ runs[RunOf(r)].status = "running"
      BY <2>1 DEF WriterInv, OwnsRun
    <2>3. runs[RunOf(r)] \in RunRow
      BY <1>2, <2>2 DEF TypeInv, RepoTypeOK
    <2>4. [runs[RunOf(r)] EXCEPT !.status = status, !.completedAt = TRUE] \in RunRow
      BY <2>3 DEF RunRow, RunStatus
    <2>5. runs'[RunOf(r)] = [runs[RunOf(r)] EXCEPT !.status = status, !.completedAt = TRUE]
      BY <1>1, <1>2 DEF SetStatus, SetRunStatus, TypeInv, RepoTypeOK
    <2> QED
      BY <2>3, <2>4, <2>5, NoRunIsNoRow DEF RunRow
  <1>4. StatusOf(RunOf(r))' = status /\ \A id \in RunId : id # RunOf(r) => StatusOf(id)' = StatusOf(id)
    BY <1>2, <1>3 DEF StatusOf, RunOf
  <1>5. EndsWith(RunOf(r), TerminalEvent[status])'
    BY <1>1, <1>2 DEF EndingInv, EndsWith, EventsOf, RunOf
  <1>6. \A id \in RunId : StatusOf(id)' \in Terminal =>
            StatusOf(id) \in Terminal \/ EndsWith(id, TerminalEvent[StatusOf(id)])'
    <2> SUFFICES ASSUME NEW id \in RunId, StatusOf(id)' \in Terminal, StatusOf(id) \notin Terminal
                 PROVE  EndsWith(id, TerminalEvent[StatusOf(id)])'
      OBVIOUS
    <2>1. id = RunOf(r) /\ StatusOf(id)' = status
      BY <1>2, <1>4 DEF RunOf
    <2> QED
      BY <1>2, <1>5, <2>1 DEF EndsWith, EventsOf, RunOf
  <1>7. "returned" \notin StatusPoints
    BY DEF StatusPoints
  <1>8. Step(r) /\ events' \ events = {}
    BY <1>2 DEF Step, OtherCall
  <1>9. \A o \in Runner : o # r =>
            /\ pc'[o] \in StatusPoints =>
                /\ pc[o] = pc'[o] /\ RunOf(o)' = RunOf(o)
                /\ \A x \in events' \ events : x.run # RunOf(o)
            /\ pc'[o] = "returned" =>
                /\ pc[o] = "returned" /\ RunOf(o)' = RunOf(o) /\ result'[o] = result[o]
                /\ RunOf(o) \in RunId
    BY <1>8, OthersEnding
  <1> QED
    BY <1>2, <1>4, <1>6, <1>7, <1>9, EndingFrame

(* Every other step of a runner leaves the events and the ends of runs alone, *)
(* brings it to no status and lets it return a failure only.                 *)
LEMMA OtherSteps ==
    ASSUME TypeInv, NEW r \in Runner,
           Step(r) \/ Call(r) \/ CallFails(r) \/ Crash(r),
           ~ Emission(r), ~ (SetCompleted(r) \/ SetBlocked(r) \/ SetFailed(r))
    PROVE  /\ UNCHANGED events
           /\ \A id \in RunId : StatusOf(id)' \in Terminal => StatusOf(id) \in Terminal
           /\ pc'[r] \notin StatusPoints
           /\ pc'[r] = "returned" => result'[r] = "failed"
  <1> USE DEF TypeInv, LocalTypeOK, StatusPoints, Decide, GoTo
  <1>1. CASE Decision(r)
    BY <1>1 DEF Decision, RoleFails, GateFails, ExecutorCompletes, ExecutorBlocks,
         ExecutorOutcome, CriticAccepts, CriticRevises, CriticBlocks, CriticOutcome,
         AcceptDraft, ReachRevisionLimit, StallRevision, RequestRevision, Reply, repoVars, runTables,
         StatusOf
  <1>2. CASE HandoffToCritic(r) \/ HandoffToExecutor(r) \/ HandoffAcceptance(r)
    BY <1>2 DEF HandoffToCritic, HandoffToExecutor, HandoffAcceptance, Handoff, StatusOf
  <1>3. CASE StartRun(r)
    BY <1>3 DEF StartRun, CreateRun, StatusOf, Terminal, RepoTypeOK
  <1>4. CASE RunRefused(r) \/ Call(r)
    BY <1>4 DEF RunRefused, Call, Returns, repoVars, runTables, StatusOf
  <1>5. CASE PushExecutorContext(r) \/ PushCriticContext(r) \/ ReadRefused(r) \/ SaveFact(r)
    BY <1>5 DEF PushExecutorContext, PushCriticContext, Push, ReadRefused, SaveFact,
         repoVars, runTables, StatusOf
  <1>6. CASE ReadLatest(r) \/ PersistDraft(r) \/ DraftRefused(r)
    BY <1>6 DEF ReadLatest, PersistDraft, DraftRefused, repoVars, runTables, StatusOf
  <1>7. CASE CallFails(r)
    BY <1>7 DEF CallFails, Returns, repoVars, runTables, StatusOf
  <1>8. CASE Crash(r)
    BY <1>8 DEF Crash, repoVars, runTables, StatusOf
  <1> QED
    BY <1>1, <1>2, <1>3, <1>4, <1>5, <1>6, <1>7, <1>8 DEF Step, OtherCall

(* Such a step keeps the ends of all runs.                                   *)
LEMMA OtherEnding ==
    ASSUME TypeInv, WriterInv, EndingInv, NEW r \in Runner,
           Step(r) \/ Call(r) \/ CallFails(r) \/ Crash(r),
           ~ Emission(r), ~ (SetCompleted(r) \/ SetBlocked(r) \/ SetFailed(r)),
           \A id \in RunId : StatusOf(id) \in Terminal => Untouched(id)
    PROVE  EndingInv'
  <1>1. /\ events' = events
        /\ \A id \in RunId : StatusOf(id)' \in Terminal => StatusOf(id) \in Terminal
        /\ pc'[r] \notin StatusPoints
        /\ pc'[r] = "returned" => result'[r] = "failed"
    BY OtherSteps
  <1>2. \A o \in Runner : o # r =>
            /\ pc'[o] \in StatusPoints =>
                /\ pc[o] = pc'[o] /\ RunOf(o)' = RunOf(o)
                /\ \A x \in events' \ events : x.run # RunOf(o)
            /\ pc'[o] = "returned" =>
                /\ pc[o] = "returned" /\ RunOf(o)' = RunOf(o) /\ result'[o] = result[o]
                /\ RunOf(o) \in RunId
    BY <1>1, OthersEnding
  <1> QED
    BY <1>1, <1>2, EndingFrame

(* Steps outside the runners, and stuttering.                                *)
LEMMA OutsideEnding ==
    ASSUME TypeInv, EndingInv,
           \/ \E u \in User, d \in Document : EditorWrites(u, d) \/ OwnerGrants(u, d)
           \/ UNCHANGED vars
    PROVE  EndingInv'
  <1>1. UNCHANGED <<events, runs, pc, context, result>>
    BY DEF EditorWrites, OwnerGrants, runTables, localVars, vars, repoVars
  <1> QED
    BY <1>1 DEF EndingInv, TerminalMatchesLog, ResultIsPersisted, EndsWith, EventsOf,
         StatusOf, RunOf

(* Every step keeps log, status and result in agreement.                     *)
LEMMA EndingStep ==
    ASSUME TypeInv, WriterInv, EndingInv, [Next]_vars PROVE EndingInv'
  <1>1. \A id \in RunId : StatusOf(id) \in Terminal => Untouched(id)
    BY ClosedRuns
  <1>2. ASSUME NEW r \in Runner, Step(r) \/ Call(r) \/ CallFails(r) \/ Crash(r)
        PROVE  EndingInv'
    BY <1>1, <1>2, EmissionEnding, SetStatusEnding, OtherEnding
  <1> QED
    BY <1>2, OutsideEnding DEF Next

(* They agree in every reachable state.                                      *)
THEOREM EndingInvariant == Spec => []EndingInv
  <1>1. TypeInv /\ WriterInv /\ EndingInv /\ [Next]_vars => EndingInv'
    BY EndingStep
  <1> QED
    BY <1>1, InitEnding, WriterInvariant, PTL DEF Spec

(* The last event of a run that ended is the terminal event of its status,   *)
(* whatever calls failed and whatever process died on the way.               *)
THEOREM LogMatchesStatus == Spec => []TerminalMatchesLog
  <1>1. EndingInv => TerminalMatchesLog
    BY DEF EndingInv
  <1> QED
    BY <1>1, EndingInvariant, PTL

(* run() returns a success or a block only if the database holds it, and for *)
(* as long as the caller does not call run() again.                          *)
THEOREM ResultsArePersisted == Spec => []ResultIsPersisted
  <1>1. EndingInv => ResultIsPersisted
    BY DEF EndingInv
  <1> QED
    BY <1>1, EndingInvariant, PTL

-----------------------------------------------------------------------------
(* The workflow implements RunLifecycle.  Its state is read off the tables:  *)
(* the versions accepted and released in a run, and the declined runs.       *)

AcceptedIn(id) ==
    {e.version : e \in {x \in EventsOf(id) :
        x.type = "critic_review_completed" /\ x.detail = "accept"}}

ReleasedIn(id) ==
    {e.version : e \in {x \in EventsOf(id) :
        /\ x.type = "approval_resolved"
        /\ x.detail = "approved"
        /\ AcceptedBefore(id, x.version, x.sequence)}}

Lives(id) == <<StatusOf(id), AcceptedIn(id), ReleasedIn(id), Declined(id)>>

(* What is accepted is a version. *)
Named ==
    \A e \in events :
        e.type = "critic_review_completed" /\ e.detail = "accept" => e.version \in VersionRef

(* A step that changes no run in this sense is a stuttering step of it.      *)
LEMMA LivesStill ==
    ASSUME \A id \in RunId : Lives(id)' = Lives(id)
    PROVE  UNCHANGED Life!lifeVars
  <1>1. \A id \in RunId : /\ StatusOf(id)' = StatusOf(id)
                          /\ AcceptedIn(id)' = AcceptedIn(id)
                          /\ ReleasedIn(id)' = ReleasedIn(id)
                          /\ Declined(id)' = Declined(id)
    BY DEF Lives
  <1>2. [id \in RunId |-> StatusOf(id)]' = [id \in RunId |-> StatusOf(id)]
    BY <1>1
  <1>3. [id \in RunId |-> AcceptedIn(id)]' = [id \in RunId |-> AcceptedIn(id)]
    BY <1>1
  <1>4. [id \in RunId |-> ReleasedIn(id)]' = [id \in RunId |-> ReleasedIn(id)]
    BY <1>1
  <1>5. {id \in RunId : Declined(id)}' = {id \in RunId : Declined(id)}
    BY <1>1
  <1> QED
    BY <1>2, <1>3, <1>4, <1>5 DEF Life!lifeVars, AcceptedIn, ReleasedIn

(* Nothing that is read off the tables changes while they do not.            *)
LEMMA TablesStill ==
    ASSUME UNCHANGED <<events, runs>>, NEW id \in RunId
    PROVE  Lives(id)' = Lives(id)
  <1>1. EventsOf(id)' = EventsOf(id) /\ StatusOf(id)' = StatusOf(id)
    BY DEF EventsOf, StatusOf
  <1>2. \A v, s : AcceptedBefore(id, v, s)' = AcceptedBefore(id, v, s)
    BY <1>1 DEF AcceptedBefore
  <1> QED
    BY <1>1, <1>2 DEF Lives, AcceptedIn, ReleasedIn, Declined

(* A step that changes one run accepts, releases, declines, creates or ends. *)
LEMMA LifeSteps ==
    ASSUME Number = Nat \ {0}, NEW id \in RunId,
           \A o \in RunId \ {id} : Lives(o)' = Lives(o),
           \/ Lives(id)' = Lives(id)
           \/ \E v \in VersionRef :
                /\ StatusOf(id) = "running"
                /\ Lives(id)' = <<"running", AcceptedIn(id) \cup {v}, ReleasedIn(id),
                                  Declined(id)>>
           \/ \E v \in VersionRef :
                /\ StatusOf(id) = "running" /\ v \in AcceptedIn(id)
                /\ Lives(id)' = <<"running", AcceptedIn(id), ReleasedIn(id) \cup {v},
                                  Declined(id)>>
           \/ /\ StatusOf(id) = "running"
              /\ Lives(id)' = <<"running", AcceptedIn(id), ReleasedIn(id), TRUE>>
           \/ /\ StatusOf(id) = "absent"
              /\ Lives(id)' = <<"running", AcceptedIn(id), ReleasedIn(id), Declined(id)>>
           \/ \E status \in Terminal :
                /\ StatusOf(id) = "running"
                /\ status = "completed" => ReleasedIn(id) # {} /\ ~ Declined(id)
                /\ Lives(id)' = <<status, AcceptedIn(id), ReleasedIn(id), Declined(id)>>
    PROVE  [Life!LifeNext]_(Life!lifeVars)
  <1> DEFINE S == [o \in RunId |-> StatusOf(o)]
             A == [o \in RunId |-> AcceptedIn(o)]
             R == [o \in RunId |-> ReleasedIn(o)]
             D == {o \in RunId : Declined(o)}
  <1>1. \A o \in RunId \ {id} : /\ StatusOf(o)' = StatusOf(o)
                                /\ AcceptedIn(o)' = AcceptedIn(o)
                                /\ ReleasedIn(o)' = ReleasedIn(o)
                                /\ Declined(o)' = Declined(o)
    BY DEF Lives
  <1>2. CASE Lives(id)' = Lives(id)
    BY <1>2, LivesStill
  <1>3. ASSUME NEW v \in VersionRef, StatusOf(id) = "running",
               Lives(id)' = <<"running", AcceptedIn(id) \cup {v}, ReleasedIn(id),
                              Declined(id)>>
        PROVE  Life!LifeNext
    <2>1. /\ S' = S /\ R' = R /\ D' = D
          /\ A' = [A EXCEPT ![id] = @ \cup {v}]
      BY <1>1, <1>3 DEF Lives
    <2>2. Life!Accept(id, v)
      BY <1>3, <2>1 DEF Life!Accept, AcceptedIn, ReleasedIn
    <2> QED
      BY <2>2 DEF Life!LifeNext, VersionRef
  <1>4. ASSUME NEW v \in VersionRef, StatusOf(id) = "running", v \in AcceptedIn(id),
               Lives(id)' = <<"running", AcceptedIn(id), ReleasedIn(id) \cup {v},
                              Declined(id)>>
        PROVE  Life!LifeNext
    <2>1. /\ S' = S /\ A' = A /\ D' = D
          /\ R' = [R EXCEPT ![id] = @ \cup {v}]
      BY <1>1, <1>4 DEF Lives
    <2>2. Life!Release(id, v)
      BY <1>4, <2>1 DEF Life!Release, AcceptedIn, ReleasedIn
    <2> QED
      BY <2>2 DEF Life!LifeNext, VersionRef
  <1>5. ASSUME StatusOf(id) = "running",
               Lives(id)' = <<"running", AcceptedIn(id), ReleasedIn(id), TRUE>>
        PROVE  Life!LifeNext
    <2>1. /\ S' = S /\ A' = A /\ R' = R
          /\ D' = D \cup {id}
      BY <1>1, <1>5 DEF Lives
    <2>2. Life!Decline(id)
      BY <1>5, <2>1 DEF Life!Decline, AcceptedIn, ReleasedIn
    <2> QED
      BY <2>2 DEF Life!LifeNext
  <1>6. ASSUME StatusOf(id) = "absent",
               Lives(id)' = <<"running", AcceptedIn(id), ReleasedIn(id), Declined(id)>>
        PROVE  Life!LifeNext
    <2>1. /\ A' = A /\ R' = R /\ D' = D
          /\ S' = [S EXCEPT ![id] = "running"]
      BY <1>1, <1>6 DEF Lives
    <2>2. Life!Create(id)
      BY <1>6, <2>1 DEF Life!Create, AcceptedIn, ReleasedIn
    <2> QED
      BY <2>2 DEF Life!LifeNext
  <1>7. ASSUME NEW status \in Terminal, StatusOf(id) = "running",
               status = "completed" => ReleasedIn(id) # {} /\ ~ Declined(id),
               Lives(id)' = <<status, AcceptedIn(id), ReleasedIn(id), Declined(id)>>
        PROVE  Life!LifeNext
    <2>1. /\ A' = A /\ R' = R /\ D' = D
          /\ S' = [S EXCEPT ![id] = status]
      BY <1>1, <1>7 DEF Lives
    <2>2. CASE status = "completed"
      <3>1. Life!Complete(id)
        BY <1>7, <2>1, <2>2 DEF Life!Complete, AcceptedIn, ReleasedIn
      <3> QED
        BY <3>1 DEF Life!LifeNext
    <2>3. CASE status \in {"blocked", "failed"}
      <3>1. Life!End(id)
        BY <1>7, <2>1, <2>3 DEF Life!End, AcceptedIn, ReleasedIn
      <3> QED
        BY <3>1 DEF Life!LifeNext
    <2> QED
      BY <2>2, <2>3 DEF Terminal
  <1> QED
    BY <1>2, <1>3, <1>4, <1>5, <1>6, <1>7

(* The event of a runner comes last in its run, and names a version if it is *)
(* an acceptance.                                                            *)
LEMMA EmissionRow ==
    ASSUME TypeInv, WriterInv, CompletionInv, NEW r \in Runner, Emission(r)
    PROVE  \E e \in EventRow :
            /\ events' = events \cup {e}
            /\ UNCHANGED runs
            /\ e.run = RunOf(r)
            /\ StatusOf(RunOf(r)) = "running"
            /\ \A x \in EventsOf(RunOf(r)) : x.sequence < e.sequence
            /\ e.type = "critic_review_completed" => e.version \in VersionRef
  <1>1. PICK from, type, version, detail, to :
            EmissionFrom(r, from, type, version, detail, to)
    BY EmissionShape
  <1>2. pc[r] = from /\ pc[r] \in Working
    BY <1>1 DEF EmissionFrom, Emit, GoTo, Working, CallPoints
  <1>3. RunOf(r) \in RunId /\ OwnsRun(r)
    BY <1>2, ActiveContext DEF WriterInv
  <1> DEFINE e == [run |-> RunOf(r), sequence |-> eventSequence[r] + 1, type |-> type,
                   version |-> version, detail |-> detail]
  <1>4. e \in EventRow
    BY <1>1, <1>3, WorkflowConstants DEF EmissionFrom, EventRow, TypeInv, LocalTypeOK
  <1>5. events' = events \cup {e} /\ UNCHANGED runs
    BY <1>1 DEF EmissionFrom, Emit, AppendEvent
  <1>6. \A x \in EventsOf(RunOf(r)) : x.sequence < e.sequence
    BY <1>3 DEF OwnsRun, EventsOf, TypeInv, RepoTypeOK, EventRow, LocalTypeOK
  <1>7. type = "critic_review_completed" => version \in VersionRef
    <2> SUFFICES ASSUME type = "critic_review_completed" PROVE version \in VersionRef
      OBVIOUS
    <2>1. from = "emit_review" /\ version = current[r]
      BY <1>1 DEF EmissionFrom, Leads
    <2>2. OwnVersion(RunOf(r), current[r])
      BY <1>2, <2>1 DEF CompletionInv, PathAt, DraftedAt, DraftedPoints
    <2>3. PICK v \in versions : Ref(v) = current[r]
      BY <2>2 DEF OwnVersion, VersionsOf
    <2>4. v.document \in Document /\ v.number \in Nat \ {0}
      BY DEF TypeInv, RepoTypeOK, VersionRow
    <2> QED
      BY <2>1, <2>3, <2>4 DEF Ref, VersionRef
  <1>8. StatusOf(RunOf(r)) = "running"
    BY <1>3 DEF OwnsRun, StatusOf
  <1> QED
    BY <1>4, <1>5, <1>6, <1>7, <1>8

(* So it accepts, releases or declines, or changes nothing.                  *)
LEMMA EmissionLives ==
    ASSUME Number = Nat \ {0}, TypeInv, WriterInv, CompletionInv, Named,
           NEW r \in Runner, Emission(r)
    PROVE  [Life!LifeNext]_(Life!lifeVars) /\ Named'
  <1>1. PICK e \in EventRow :
            /\ events' = events \cup {e}
            /\ UNCHANGED runs
            /\ e.run = RunOf(r)
            /\ StatusOf(RunOf(r)) = "running"
            /\ \A x \in EventsOf(RunOf(r)) : x.sequence < e.sequence
            /\ e.type = "critic_review_completed" => e.version \in VersionRef
    BY EmissionRow
  <1>2. PICK id \in RunId : id = RunOf(r)
    BY <1>1 DEF EventRow
  <1>3. Named'
    BY <1>1 DEF Named
  <1>4. \A o \in RunId \ {id} : Lives(o)' = Lives(o)
    <2> SUFFICES ASSUME NEW o \in RunId \ {id} PROVE Lives(o)' = Lives(o)
      OBVIOUS
    <2>1. EventsOf(o)' = EventsOf(o) /\ StatusOf(o)' = StatusOf(o)
      BY <1>1, <1>2 DEF EventsOf, StatusOf
    <2>2. \A v, s : AcceptedBefore(o, v, s)' = AcceptedBefore(o, v, s)
      BY <2>1 DEF AcceptedBefore
    <2> QED
      BY <2>1, <2>2 DEF Lives, AcceptedIn, ReleasedIn, Declined
  <1>5. /\ EventsOf(id)' = EventsOf(id) \cup {e}
        /\ StatusOf(id)' = "running" /\ StatusOf(id) = "running"
        /\ \A x \in EventsOf(id) : x.sequence < e.sequence
        /\ \A x \in EventsOf(id) : x.sequence \in Nat
        /\ e.sequence \in Nat
    BY <1>1, <1>2 DEF EventsOf, StatusOf, TypeInv, RepoTypeOK, EventRow
  <1>6. \A v : \A x \in EventsOf(id) \cup {e} :
            AcceptedBefore(id, v, x.sequence)' <=> AcceptedBefore(id, v, x.sequence)
    BY <1>5 DEF AcceptedBefore
  <1>7. \A v, s : AcceptedBefore(id, v, s) => v \in AcceptedIn(id)
    BY DEF AcceptedBefore, AcceptedIn, Records
  <1>8. AcceptedIn(id) \subseteq VersionRef
    BY DEF AcceptedIn, Named, EventsOf
  <1>9. CASE e.type = "critic_review_completed" /\ e.detail = "accept"
    <2>1. AcceptedIn(id)' = AcceptedIn(id) \cup {e.version}
      BY <1>5, <1>9 DEF AcceptedIn
    <2>2. ReleasedIn(id)' = ReleasedIn(id)
      BY <1>5, <1>6, <1>9 DEF ReleasedIn
    <2>3. Declined(id)' = Declined(id)
      BY <1>5, <1>9 DEF Declined
    <2>4. Lives(id)' = <<"running", AcceptedIn(id) \cup {e.version}, ReleasedIn(id),
                         Declined(id)>>
      BY <1>5, <2>1, <2>2, <2>3 DEF Lives
    <2> QED
      BY <1>1, <1>3, <1>4, <1>5, <1>9, <2>4, LifeSteps
  <1>10. CASE e.type = "approval_resolved" /\ e.detail = "approved"
    <2>1. AcceptedIn(id)' = AcceptedIn(id)
      BY <1>5, <1>10 DEF AcceptedIn
    <2>2. Declined(id)' = Declined(id)
      BY <1>5, <1>10 DEF Declined
    <2>3. CASE AcceptedBefore(id, e.version, e.sequence)
      <3>1. ReleasedIn(id)' = ReleasedIn(id) \cup {e.version}
        BY <1>5, <1>6, <1>10, <2>3 DEF ReleasedIn
      <3>2. e.version \in AcceptedIn(id) /\ e.version \in VersionRef
        BY <1>7, <1>8, <2>3
      <3>3. Lives(id)' = <<"running", AcceptedIn(id), ReleasedIn(id) \cup {e.version},
                           Declined(id)>>
        BY <1>5, <2>1, <2>2, <3>1 DEF Lives
      <3> QED
        BY <1>3, <1>4, <1>5, <3>2, <3>3, LifeSteps
    <2>4. CASE ~ AcceptedBefore(id, e.version, e.sequence)
      <3>1. ReleasedIn(id)' = ReleasedIn(id)
        BY <1>5, <1>6, <1>10, <2>4 DEF ReleasedIn
      <3>2. Lives(id)' = Lives(id)
        BY <1>5, <2>1, <2>2, <3>1 DEF Lives
      <3> QED
        BY <1>3, <1>4, <3>2, LifeSteps
    <2> QED
      BY <2>3, <2>4
  <1>11. CASE ~ (e.type = "critic_review_completed" /\ e.detail = "accept")
                /\ ~ (e.type = "approval_resolved" /\ e.detail = "approved")
    <2>1. AcceptedIn(id)' = AcceptedIn(id)
      BY <1>5, <1>11 DEF AcceptedIn
    <2>2. ReleasedIn(id)' = ReleasedIn(id)
      BY <1>5, <1>6, <1>11 DEF ReleasedIn
    <2>3. CASE e.type = "approval_resolved" /\ e.detail = "declined"
      <3>1. Declined(id)' = TRUE
        BY <1>5, <2>3 DEF Declined
      <3>2. Lives(id)' = <<"running", AcceptedIn(id), ReleasedIn(id), TRUE>>
        BY <1>5, <2>1, <2>2, <3>1 DEF Lives
      <3> QED
        BY <1>3, <1>4, <1>5, <3>2, LifeSteps
    <2>4. CASE ~ (e.type = "approval_resolved" /\ e.detail = "declined")
      <3>1. Declined(id)' = Declined(id)
        BY <1>5, <2>4 DEF Declined
      <3>2. Lives(id)' = Lives(id)
        BY <1>5, <2>1, <2>2, <3>1 DEF Lives
      <3> QED
        BY <1>3, <1>4, <3>2, LifeSteps
    <2> QED
      BY <2>3, <2>4
  <1> QED
    BY <1>9, <1>10, <1>11

(* Creating a run and setting its status are the only changes of a status.   *)
LEMMA StatusLives ==
    ASSUME Number = Nat \ {0}, TypeInv, WriterInv, CompletionInv, NEW r \in Runner,
           StartRun(r) \/ SetCompleted(r) \/ SetBlocked(r) \/ SetFailed(r)
    PROVE  [Life!LifeNext]_(Life!lifeVars)
  <1>1. UNCHANGED events
    BY DEF StartRun, SetCompleted, SetBlocked, SetFailed, SetStatus
  <1>2. PICK id \in RunId : id = RunOf(r)
    BY ContextType DEF StartRun, SetCompleted, SetBlocked, SetFailed, SetStatus, GoTo
  <1>3. \A o \in RunId : /\ EventsOf(o)' = EventsOf(o)
                         /\ AcceptedIn(o)' = AcceptedIn(o)
                         /\ ReleasedIn(o)' = ReleasedIn(o)
                         /\ Declined(o)' = Declined(o)
    <2> SUFFICES ASSUME NEW o \in RunId
                 PROVE  /\ EventsOf(o)' = EventsOf(o)
                        /\ AcceptedIn(o)' = AcceptedIn(o)
                        /\ ReleasedIn(o)' = ReleasedIn(o)
                        /\ Declined(o)' = Declined(o)
      OBVIOUS
    <2>1. EventsOf(o)' = EventsOf(o)
      BY <1>1 DEF EventsOf
    <2>2. \A v, s : AcceptedBefore(o, v, s)' = AcceptedBefore(o, v, s)
      BY <2>1 DEF AcceptedBefore
    <2> QED
      BY <2>1, <2>2 DEF AcceptedIn, ReleasedIn, Declined
  <1>4. CASE StartRun(r)
    <2>1. /\ runs[id] = NoRun
          /\ \A o \in RunId \ {id} : runs'[o] = runs[o]
          /\ runs'[id] \in RunRow /\ runs'[id].status = "running"
      BY <1>2, <1>4, ContextType
         DEF StartRun, GoTo, CreateRun, CanCreateRun, TypeInv, RepoTypeOK, RunRow,
             RunStatus
    <2>2. StatusOf(id) = "absent" /\ StatusOf(id)' = "running"
      BY <2>1, NoRunIsNoRow DEF StatusOf
    <2>3. \A o \in RunId \ {id} : Lives(o)' = Lives(o)
      BY <1>3, <2>1 DEF Lives, StatusOf
    <2>4. Lives(id)' = <<"running", AcceptedIn(id), ReleasedIn(id), Declined(id)>>
      BY <1>3, <2>2 DEF Lives
    <2> QED
      BY <2>2, <2>3, <2>4, LifeSteps
  <1>5. CASE SetCompleted(r) \/ SetBlocked(r) \/ SetFailed(r)
    <2>1. PICK from \in StatusPoints, status \in Terminal :
            /\ SetStatus(r, from, status)
            /\ status = "completed" => from = "set_completed"
      BY <1>5 DEF SetCompleted, SetBlocked, SetFailed, StatusPoints, Terminal
    <2>2. pc[r] = from /\ pc[r] \in Working
      BY <2>1 DEF SetStatus, Working, CallPoints
    <2>3. /\ runs[id] \in RunRow /\ StatusOf(id) = "running"
          /\ runs' = [runs EXCEPT ![id].status = status, ![id].completedAt = TRUE]
      BY <1>2, <2>1, <2>2
         DEF WriterInv, OwnsRun, StatusOf, SetStatus, SetRunStatus, TypeInv, RepoTypeOK
    <2>4. /\ \A o \in RunId \ {id} : runs'[o] = runs[o]
          /\ runs'[id] \in RunRow /\ runs'[id].status = status
      BY <2>3 DEF TypeInv, RepoTypeOK, RunRow, RunStatus
    <2>5. StatusOf(id)' = status
      BY <2>4, NoRunIsNoRow DEF StatusOf
    <2>6. status = "completed" => ReleasedIn(id) # {} /\ ~ Declined(id)
      <3> SUFFICES ASSUME status = "completed" PROVE ReleasedIn(id) # {} /\ ~ Declined(id)
        OBVIOUS
      <3>1. PathAt(r, "set_completed")
        BY <2>1, <2>2 DEF CompletionInv
      <3>2. CompletionRecorded(id, current[r]) /\ ~ Declined(id)
        BY <1>2, <3>1 DEF PathAt, EndPoints
      <3> QED
        BY <3>2 DEF CompletionRecorded, ReleasedBefore, Records, ReleasedIn
    <2>7. \A o \in RunId \ {id} : Lives(o)' = Lives(o)
      BY <1>3, <2>4 DEF Lives, StatusOf
    <2>8. Lives(id)' = <<status, AcceptedIn(id), ReleasedIn(id), Declined(id)>>
      BY <1>3, <2>5 DEF Lives
    <2> QED
      BY <2>3, <2>6, <2>7, <2>8, LifeSteps
  <1> QED
    BY <1>4, <1>5

(* "A successful result identifies the exact accepted and approved version", *)
(* as a refinement: whatever runners, users, faults and crashes do, a reader *)
(* of the tables sees only runs that live as RunLifecycle says, if versions  *)
(* may have any number.                                                      *)
THEOREM ImplementsLifecycle ==
    ASSUME Number = Nat \ {0}
    PROVE  Spec => LifeSpec
  <1>1. Init => Life!LifeInit /\ Named
    <2> SUFFICES ASSUME Init PROVE Life!LifeInit /\ Named
      OBVIOUS
    <2>1. events = {} /\ \A id \in RunId : runs[id] = NoRun
      BY DEF Init
    <2> QED
      BY <2>1 DEF Life!LifeInit, Named, StatusOf, EventsOf, Declined
  <1>2. TypeInv /\ WriterInv /\ CompletionInv /\ Named /\ [Next]_vars
            => Named' /\ [Life!LifeNext]_(Life!lifeVars)
    <2> SUFFICES ASSUME TypeInv, WriterInv, CompletionInv, Named, [Next]_vars
                 PROVE  Named' /\ [Life!LifeNext]_(Life!lifeVars)
      OBVIOUS
    <2>1. CASE UNCHANGED <<events, runs>>
      BY <2>1, TablesStill, LivesStill DEF Named
    <2>2. ASSUME NEW r \in Runner, Emission(r)
          PROVE  Named' /\ [Life!LifeNext]_(Life!lifeVars)
      BY <2>2, EmissionLives
    <2>3. ASSUME NEW r \in Runner,
                 StartRun(r) \/ SetCompleted(r) \/ SetBlocked(r) \/ SetFailed(r)
          PROVE  Named' /\ [Life!LifeNext]_(Life!lifeVars)
      <3>1. UNCHANGED events
        BY <2>3 DEF StartRun, SetCompleted, SetBlocked, SetFailed, SetStatus
      <3> QED
        BY <2>3, <3>1, StatusLives DEF Named
    <2>4. ASSUME NEW r \in Runner, HandoffToCritic(r) \/ HandoffToExecutor(r)
                                        \/ HandoffAcceptance(r)
          PROVE  UNCHANGED <<events, runs>>
      BY <2>4 DEF HandoffToCritic, HandoffToExecutor, HandoffAcceptance, Handoff
    <2>5. ASSUME NEW r \in Runner, PersistDraft(r) PROVE UNCHANGED <<events, runs>>
      BY <2>5 DEF PersistDraft, runTables
    <2>6. ASSUME NEW r \in Runner,
                 \/ RunRefused(r) \/ PushExecutorContext(r) \/ PushCriticContext(r)
                 \/ ReadRefused(r) \/ SaveFact(r) \/ ReadLatest(r) \/ DraftRefused(r)
                 \/ Decision(r) \/ Call(r) \/ CallFails(r) \/ Crash(r)
          PROVE  UNCHANGED <<events, runs>>
      BY <2>6, DecisionKeepsTables
         DEF RunRefused, PushExecutorContext, PushCriticContext, Push, ReadRefused,
             SaveFact, ReadLatest, DraftRefused, Decide, Call, CallFails, Crash, repoVars
    <2>7. ASSUME NEW u \in User, NEW d \in Document, EditorWrites(u, d) \/ OwnerGrants(u, d)
          PROVE  UNCHANGED <<events, runs>>
      BY <2>7 DEF EditorWrites, OwnerGrants, runTables
    <2>8. CASE UNCHANGED vars
      BY <2>1, <2>8 DEF vars, repoVars
    <2> QED
      BY <2>1, <2>2, <2>3, <2>4, <2>5, <2>6, <2>7, <2>8 DEF Next, Step, OtherCall
  <1> QED
    BY <1>1, <1>2, WriterInvariant, CompletionInvariant, PTL
       DEF Spec, LifeSpec, Life!LifeSpec

-----------------------------------------------------------------------------
(* The rounds of a run.  What a run has written is counted and compared run  *)
(* by run: a step of another runner, or of another user, keeps all of it.    *)

Kept(id) ==
    /\ {e \in events' : e.run = id} = EventsOf(id)
    /\ {v \in versions' : v.run = id} = VersionsOf(id)
    /\ {h \in handoffs' : h.run = id} = HandoffsOf(id)
    /\ facts'[id] = facts[id]

(* What a step writes comes on top of what there is.                         *)
TablesGrow ==
    events \subseteq events' /\ versions \subseteq versions' /\ handoffs \subseteq handoffs'

(* Runners only add to the tables.                                           *)
LEMMA StepsGrow ==
    ASSUME TypeInv, NEW r \in Runner, Step(r) \/ Call(r) \/ CallFails(r) \/ Crash(r)
    PROVE  TablesGrow
  <1> USE DEF TablesGrow
  <1>1. CASE Emission(r)
    <2>1. PICK from, type, version, detail, to :
            Emit(r, from, type, version, detail, to)
      BY <1>1, EmissionShape DEF EmissionFrom
    <2> QED
      BY <2>1 DEF Emit, AppendEvent
  <1>2. CASE HandoffToCritic(r) \/ HandoffToExecutor(r) \/ HandoffAcceptance(r)
    BY <1>2 DEF HandoffToCritic, HandoffToExecutor, HandoffAcceptance, Handoff,
         AppendHandoff
  <1>3. CASE SetCompleted(r) \/ SetBlocked(r) \/ SetFailed(r)
    BY <1>3 DEF SetCompleted, SetBlocked, SetFailed, SetStatus
  <1>4. CASE StartRun(r)
    BY <1>4 DEF StartRun
  <1>5. CASE PersistDraft(r)
    BY <1>5 DEF PersistDraft, CreateVersion, runTables
  <1>6. CASE ~ (\/ Emission(r) \/ PersistDraft(r) \/ StartRun(r)
                \/ HandoffToCritic(r) \/ HandoffToExecutor(r) \/ HandoffAcceptance(r)
                \/ SetCompleted(r) \/ SetBlocked(r) \/ SetFailed(r))
    <2>1. UNCHANGED repoVars
      BY <1>6, DecisionKeepsTables
         DEF Step, OtherCall, RunRefused, PushExecutorContext, PushCriticContext, Push,
             ReadRefused, SaveFact, ReadLatest, DraftRefused, Decide, Call, CallFails, Crash
    <2> QED
      BY <2>1 DEF repoVars
  <1> QED
    BY <1>1, <1>2, <1>3, <1>4, <1>5, <1>6

(* A step of a runner keeps every run but its own.                           *)
LEMMA OthersKept ==
    ASSUME TypeInv, NEW r \in Runner, Step(r) \/ Call(r) \/ CallFails(r) \/ Crash(r),
           NEW id \in RunId, id # RunOf(r) \/ pc[r] \notin Working
    PROVE  Kept(id)
  <1>1. CASE StartRun(r)
    BY <1>1 DEF StartRun, Kept, EventsOf, VersionsOf, HandoffsOf
  <1>2. CASE ~ StartRun(r)
    <2>1. Untouched(id)
      BY <1>2, OwnRecordsOnly
    <2> QED
      BY <2>1, StepsGrow DEF TablesGrow, Untouched, Kept, EventsOf, VersionsOf, HandoffsOf
  <1> QED
    BY <1>1, <1>2

(* Other users keep every run, and so does a stuttering step.                *)
LEMMA OutsideKept ==
    ASSUME \/ \E u \in User, d \in Document : EditorWrites(u, d) \/ OwnerGrants(u, d)
           \/ UNCHANGED vars,
           NEW id \in RunId
    PROVE  Kept(id)
  <1>1. CASE UNCHANGED vars
    BY <1>1 DEF vars, repoVars, Kept, EventsOf, VersionsOf, HandoffsOf
  <1>2. ASSUME NEW u \in User, NEW d \in Document, OwnerGrants(u, d) PROVE Kept(id)
    BY <1>2 DEF OwnerGrants, runTables, Kept, EventsOf, VersionsOf, HandoffsOf
  <1>3. ASSUME NEW u \in User, NEW d \in Document, EditorWrites(u, d) PROVE Kept(id)
    <2>1. PICK row : row.run = NoRun /\ versions' = versions \cup {row}
      BY <1>3 DEF EditorWrites, CreateVersion
    <2>2. {v \in versions' : v.run = id} = VersionsOf(id)
      BY <2>1, RepositoryConstants DEF VersionsOf
    <2> QED
      BY <1>3, <2>2 DEF EditorWrites, runTables, Kept, EventsOf, HandoffsOf
  <1> QED
    BY <1>1, <1>2, <1>3

(* What a runner works with, and what its run has written, stay as they are  *)
(* when the step is not its own.                                             *)
Steady(o) ==
    /\ pc[o] \in Working
    /\ pc'[o] = pc[o]
    /\ context'[o] = context[o]
    /\ current'[o] = current[o]
    /\ asking'[o] = asking[o]
    /\ draft'[o] = draft[o]
    /\ revisionCount'[o] = revisionCount[o]
    /\ eventSequence'[o] = eventSequence[o]
    /\ handoffSequence'[o] = handoffSequence[o]
    /\ pushed'[o] = pushed[o]
    /\ RunOf(o) \in RunId
    /\ Kept(RunOf(o))

(* Another runner's step leaves a runner and its run as they are ...         *)
LEMMA OthersSteady ==
    ASSUME TypeInv, WriterInv, NEW r \in Runner,
           Step(r) \/ Call(r) \/ CallFails(r) \/ Crash(r),
           NEW o \in Runner, o # r, pc'[o] \in Working
    PROVE  Steady(o)
  <1>1. /\ pc'[o] = pc[o] /\ context'[o] = context[o] /\ current'[o] = current[o]
        /\ asking'[o] = asking[o] /\ draft'[o] = draft[o]
        /\ revisionCount'[o] = revisionCount[o] /\ pushed'[o] = pushed[o]
        /\ eventSequence'[o] = eventSequence[o] /\ handoffSequence'[o] = handoffSequence[o]
    BY LocalStep DEF Local
  <1>2. RunOf(o) \in RunId
    BY <1>1, ActiveContext
  <1>3. RunOf(o) # RunOf(r) \/ pc[r] \notin Working
    BY <1>1 DEF WriterInv, Alone
  <1>4. Kept(RunOf(o))
    BY <1>2, <1>3, OthersKept
  <1> QED
    BY <1>1, <1>2, <1>4 DEF Steady

(* ... and so do other users and a stuttering step.                          *)
LEMMA OutsideSteady ==
    ASSUME TypeInv,
           \/ \E u \in User, d \in Document : EditorWrites(u, d) \/ OwnerGrants(u, d)
           \/ UNCHANGED vars,
           NEW o \in Runner, pc'[o] \in Working
    PROVE  Steady(o)
  <1>1. /\ UNCHANGED <<pc, context, current, asking, draft, revisionCount>>
        /\ UNCHANGED <<eventSequence, handoffSequence, pushed>>
    BY DEF EditorWrites, OwnerGrants, localVars, vars, progress, replyVars, counters, reading
  <1>2. RunOf(o) \in RunId
    BY <1>1, ActiveContext
  <1> QED
    BY <1>1, <1>2, OutsideKept DEF Steady

(* A step that writes no record leads on within a round.                     *)
Turn(r) ==
    /\ pc[r] \in Working
    /\ Kept(RunOf(r))
    /\ UNCHANGED <<repoVars, facts>>
    /\ context'[r] = context[r]
    /\ current'[r] = current[r]
    /\ OpenAt(r, pc[r])' => OpenAt(r, pc[r])
    /\ MadeAt(r, pc[r])' => MadeAt(r, pc[r])
    /\ HandedAt(r, pc[r])' => HandedAt(r, pc[r])
    /\ IF pc'[r] = "handoff_executor"
       THEN /\ pc[r] = "transition"
            /\ revisionCount[r] < MaxRevisions
            /\ revisionCount'[r] = revisionCount[r] + 1
       ELSE revisionCount'[r] = revisionCount[r]
    /\ pc'[r] \in DraftPoints =>
            /\ draft'[r] = draft[r]
            /\ pc[r] \notin DraftPoints =>
                    /\ pc[r] = "executor_outcome"
                    /\ current[r] # NoVersion => ~ DraftUnchanged(r)
    /\ pc'[r] \notin DraftPoints \cup EndPoints => pc[r] \notin DraftPoints \cup EndPoints
    /\ pc'[r] \notin {"save_fact", "emit_fact_saved", "set_completed"}
    /\ pc'[r] = "emit_memory_decided" =>
            pc[r] = "executor_outcome" /\ current[r] = NoVersion
    /\ pc'[r] = "read_latest" =>
            pc[r] = "executor_outcome" /\ current[r] # NoVersion
    /\ pc'[r] = "create_version" => pc[r] = "read_latest"
    /\ pc[r] \in StartPoints => pc'[r] \in {"emit_executor_context"} \cup EndPoints
    /\ pc[r] \in EndPoints => pc'[r] \in EndPoints
    /\ pc'[r] \notin {"emit_started", "push_executor", "approval_gate"}
    /\ pc'[r] = "emit_executor_context" =>
            \E v \in versions : v.document = DocumentOf(r) /\ pushed'[r] = Ref(v)

TurnAction(r) ==
    \/ Decision(r) \/ CallFails(r) \/ PushExecutorContext(r) \/ PushCriticContext(r)
    \/ ReadRefused(r) \/ ReadLatest(r) \/ DraftRefused(r)

(* Decisions, reads and failures are such steps.                             *)
LEMMA TurnSteps ==
    ASSUME TypeInv, NEW r \in Runner, TurnAction(r), pc'[r] \in Working
    PROVE  Turn(r)
  <1>1. UNCHANGED <<repoVars, facts>> /\ Kept(RunOf(r))
    <2>1. UNCHANGED <<repoVars, facts>>
      BY DecisionKeepsTables
         DEF TurnAction, CallFails, PushExecutorContext, PushCriticContext, Push,
             ReadRefused, ReadLatest, DraftRefused, Decide
    <2> QED
      BY <2>1 DEF repoVars, Kept, EventsOf, VersionsOf, HandoffsOf
  <1> USE <1>1 DEF TypeInv, LocalTypeOK, localVars, counters, progress, reading,
          replyVars, Decide, GoTo, Turn, OpenAt, MadeAt, HandedAt, DraftedPoints,
          DraftPoints, StartPoints, EndPoints, ApprovalPoints, AcceptancePoints
  <1>2. /\ \A point \in {"returned", "idle", "crashed", "create_run"} :
                point \notin Working
        /\ {"executor_reply", "critic_reply", "executor_outcome", "critic_outcome",
            "transition", "approval_gate", "executor_turn", "critic_turn",
            "push_executor", "push_critic", "read_latest", "create_version"}
                \subseteq Working
    BY DEF Working, CallPoints, DecisionPoints, EmitPoints, HandoffPoints,
           ReadPoints, StatusPoints
  <1>3. CASE /\ pc[r] \in Working /\ pc'[r] = "emit_failed" /\ current'[r] = current[r]
             /\ context'[r] = context[r] /\ revisionCount'[r] = revisionCount[r]
    BY <1>3
  <1>4. CASE RoleFails(r) \/ GateFails(r)
    <2>1. /\ pc[r] \in Working /\ pc'[r] = "emit_failed" /\ current'[r] = current[r]
          /\ context'[r] = context[r] /\ revisionCount'[r] = revisionCount[r]
      BY <1>2, <1>4 DEF RoleFails, GateFails
    <2> QED
      BY <1>3, <2>1
  <1>5. CASE ReadRefused(r) \/ DraftRefused(r)
    <2>1. /\ pc[r] \in Working /\ pc'[r] = "emit_failed" /\ current'[r] = current[r]
          /\ context'[r] = context[r] /\ revisionCount'[r] = revisionCount[r]
      BY <1>2, <1>5 DEF ReadRefused, DraftRefused, ReadPoints
    <2> QED
      BY <1>3, <2>1
  <1>6. CASE CallFails(r)
    <2>1. /\ pc'[r] = "emit_failed" /\ pc[r] \in CallPoints /\ current'[r] = current[r]
          /\ context'[r] = context[r] /\ revisionCount'[r] = revisionCount[r]
      BY <1>2, <1>6 DEF CallFails, Returns
    <2> QED
      BY <1>3, <2>1 DEF Working
  <1>7. CASE ExecutorCompletes(r) \/ ExecutorBlocks(r)
    BY <1>2, <1>7 DEF ExecutorCompletes, ExecutorBlocks, Reply
  <1>8. CASE ExecutorOutcome(r)
    BY <1>2, <1>8 DEF ExecutorOutcome
  <1>9. CASE CriticAccepts(r) \/ CriticRevises(r) \/ CriticBlocks(r)
    BY <1>2, <1>9 DEF CriticAccepts, CriticRevises, CriticBlocks, Reply
  <1>10. CASE CriticOutcome(r)
    BY <1>2, <1>10 DEF CriticOutcome
  <1>11. CASE AcceptDraft(r)
    BY <1>2, <1>11 DEF AcceptDraft
  <1>12. CASE ReachRevisionLimit(r) \/ StallRevision(r)
    BY <1>2, <1>12 DEF ReachRevisionLimit, StallRevision
  <1>13. CASE RequestRevision(r)
    BY <1>2, <1>13, WorkflowConstants DEF RequestRevision, LimitReached
  <1>14. CASE PushExecutorContext(r) \/ PushCriticContext(r)
    <2>1. PICK v \in versions :
            IsLatest(DocumentOf(r), v) /\ pushed' = [pushed EXCEPT ![r] = Ref(v)]
      BY <1>14 DEF PushExecutorContext, PushCriticContext, Push
    <2>2. v.document = DocumentOf(r) /\ pushed'[r] = Ref(v)
      BY <2>1 DEF IsLatest
    <2> QED
      BY <1>2, <1>14, <2>2 DEF PushExecutorContext, PushCriticContext, Push
  <1>15. CASE ReadLatest(r)
    BY <1>2, <1>15 DEF ReadLatest
  <1> QED
    BY <1>4, <1>5, <1>6, <1>7, <1>8, <1>9, <1>10, <1>11, <1>12, <1>13, <1>14, <1>15
       DEF TurnAction, Decision

(* Steps that write no record of a run at all, and those of them after which *)
(* their runner is not active.                                               *)
Rest(r) ==
    \/ RunRefused(r) \/ Crash(r) \/ Call(r)
    \/ SetCompleted(r) \/ SetBlocked(r) \/ SetFailed(r)

(* They keep what every run has written.                                     *)
LEMMA RecordlessSteps ==
    ASSUME TypeInv, NEW r \in Runner, Rest(r) \/ TurnAction(r) \/ StartRun(r),
           NEW id \in RunId
    PROVE  Kept(id)
  <1>1. UNCHANGED <<events, versions, handoffs, facts>>
    <2>1. CASE Decision(r)
      BY <2>1, DecisionKeepsTables DEF repoVars
    <2>2. CASE Rest(r) \/ StartRun(r)
      BY <2>2 DEF Rest, RunRefused, Crash, Call, SetCompleted, SetBlocked, SetFailed,
           SetStatus, StartRun, repoVars
    <2>3. CASE TurnAction(r) /\ ~ Decision(r)
      BY <2>3 DEF TurnAction, CallFails, PushExecutorContext, PushCriticContext, Push,
           ReadRefused, ReadLatest, DraftRefused, Decide, repoVars
    <2> QED
      BY <2>1, <2>2, <2>3
  <1> QED
    BY <1>1 DEF Kept, EventsOf, VersionsOf, HandoffsOf

(* After the latter, their runner is not active.                             *)
LEMMA RestingSteps ==
    ASSUME TypeInv, NEW r \in Runner, Rest(r) PROVE pc'[r] \notin Working
  <1>1. \A point \in {"returned", "crashed", "create_run"} : point \notin Working
    BY DEF Working, CallPoints, DecisionPoints, EmitPoints, HandoffPoints, ReadPoints,
           StatusPoints
  <1> QED
    BY <1>1 DEF Rest, RunRefused, Crash, Call, Returns, SetCompleted, SetBlocked,
          SetFailed, SetStatus, TypeInv, LocalTypeOK

(* The steps of a runner, by what they write.                                *)
LEMMA RoundSteps ==
    ASSUME NEW r \in Runner, Step(r) \/ Call(r) \/ CallFails(r) \/ Crash(r)
    PROVE  \/ Emission(r) \/ Rest(r) \/ TurnAction(r) \/ StartRun(r)
           \/ PersistDraft(r) \/ SaveFact(r)
           \/ HandoffToCritic(r) \/ HandoffToExecutor(r) \/ HandoffAcceptance(r)
  BY DEF Step, OtherCall, Rest, TurnAction

(* A runner that creates its run has no version and no revision yet, and     *)
(* numbers nothing.                                                          *)
FreshInv ==
    \A r \in Runner : pc[r] = "create_run" =>
        /\ revisionCount[r] = 0 /\ current[r] = NoVersion
        /\ eventSequence[r] = 0 /\ handoffSequence[r] = 0

(* Every step of a runner preserves that.                                    *)
LEMMA FreshSteps ==
    ASSUME TypeInv, FreshInv, NEW r \in Runner,
           Step(r) \/ Call(r) \/ CallFails(r) \/ Crash(r)
    PROVE  FreshInv'
  <1>1. \A o \in Runner : o # r =>
            /\ pc'[o] = pc[o] /\ revisionCount'[o] = revisionCount[o]
            /\ current'[o] = current[o]
            /\ eventSequence'[o] = eventSequence[o] /\ handoffSequence'[o] = handoffSequence[o]
    BY LocalStep DEF Local
  <1>2. "create_run" \notin Working
    BY DEF Working, CallPoints, DecisionPoints, EmitPoints, HandoffPoints, ReadPoints,
           StatusPoints
  <1>3. pc'[r] = "create_run" =>
            /\ revisionCount'[r] = 0 /\ current'[r] = NoVersion
            /\ eventSequence'[r] = 0 /\ handoffSequence'[r] = 0
    <2> USE DEF TypeInv, LocalTypeOK, Decide, GoTo, Returns
    <2>1. CASE Emission(r)
      <3>1. PICK from, type, version, detail, to :
                EmissionFrom(r, from, type, version, detail, to)
        BY <2>1, EmissionShape
      <3> QED
        BY <1>2, <3>1 DEF EmissionFrom, Emit
    <2>2. CASE Call(r)
      BY <2>2 DEF Call
    <2>3. CASE Decision(r)
      BY <2>3 DEF Decision, RoleFails, GateFails, ExecutorCompletes, ExecutorBlocks,
           ExecutorOutcome, CriticAccepts, CriticRevises, CriticBlocks, CriticOutcome,
           AcceptDraft, ReachRevisionLimit, StallRevision, RequestRevision, Reply
    <2>4. CASE CallFails(r) \/ Crash(r) \/ RunRefused(r) \/ StartRun(r) \/ SaveFact(r)
      BY <2>4 DEF CallFails, Crash, RunRefused, StartRun, SaveFact
    <2>5. CASE SetCompleted(r) \/ SetBlocked(r) \/ SetFailed(r)
      BY <2>5 DEF SetCompleted, SetBlocked, SetFailed, SetStatus
    <2>6. CASE HandoffToCritic(r) \/ HandoffToExecutor(r) \/ HandoffAcceptance(r)
      BY <2>6 DEF HandoffToCritic, HandoffToExecutor, HandoffAcceptance, Handoff
    <2>7. CASE \/ PushExecutorContext(r) \/ PushCriticContext(r) \/ ReadRefused(r)
               \/ ReadLatest(r) \/ DraftRefused(r) \/ PersistDraft(r)
      BY <2>7 DEF PushExecutorContext, PushCriticContext, Push, ReadRefused, ReadLatest,
           DraftRefused, PersistDraft
    <2> QED
      BY <2>1, <2>2, <2>3, <2>4, <2>5, <2>6, <2>7 DEF Step, OtherCall
  <1> QED
    BY <1>1, <1>3 DEF FreshInv

(* ... and so does every other step.                                         *)
LEMMA FreshStep ==
    ASSUME TypeInv, FreshInv, [Next]_vars PROVE FreshInv'
  <1>1. CASE \/ \E u \in User, d \in Document : EditorWrites(u, d) \/ OwnerGrants(u, d)
             \/ UNCHANGED vars
    <2>1. UNCHANGED <<pc, revisionCount, current, eventSequence, handoffSequence>>
      BY <1>1 DEF EditorWrites, OwnerGrants, localVars, vars, progress, counters
    <2> QED
      BY <2>1 DEF FreshInv
  <1> QED
    BY <1>1, FreshSteps DEF Next

(* So it is in every reachable state, for any number of runners.             *)
THEOREM FreshInvariant == Spec => [](TypeInv /\ WriterInv /\ FreshInv)
  <1>1. Init => FreshInv
    BY DEF Init, FreshInv
  <1>2. TypeInv /\ FreshInv /\ [Next]_vars => FreshInv'
    BY FreshStep
  <1> QED
    BY <1>1, <1>2, WriterInvariant, PTL DEF Spec

-----------------------------------------------------------------------------
(* The revision budget.  A round begins with a revision handed back to the   *)
(* Executor (the first one with the run) and has at most one version; a      *)
(* revision is counted before it is handed back.                             *)

Returned(id) == {h \in handoffs : h.run = id /\ h.to = "executor"}

BudgetOf(id) ==
    /\ IsFiniteSet(Returned(id)) /\ IsFiniteSet(VersionsOf(id))
    /\ Cardinality(Returned(id)) <= MaxRevisions
    /\ Cardinality(VersionsOf(id)) <= 1 + Cardinality(Returned(id))

CountAt(r, point) ==
    /\ IF point = "handoff_executor"
       THEN Cardinality(Returned(RunOf(r))) < revisionCount[r]
       ELSE Cardinality(Returned(RunOf(r))) <= revisionCount[r]
    /\ revisionCount[r] <= MaxRevisions
    /\ OpenAt(r, point) =>
            Cardinality(VersionsOf(RunOf(r))) <= Cardinality(Returned(RunOf(r)))

BudgetInv ==
    /\ \A id \in RunId : BudgetOf(id)
    /\ \A r \in Runner : pc[r] \in Working => CountAt(r, pc[r])

(* It is enough to look at the runs written to and the runners that moved.   *)
LEMMA BudgetFrame ==
    ASSUME BudgetInv,
           \A id \in RunId : Kept(id) \/ BudgetOf(id)',
           \A o \in Runner : pc'[o] \in Working => Steady(o) \/ CountAt(o, pc[o])'
    PROVE  BudgetInv'
  <1>1. \A id \in RunId : Kept(id) =>
            Returned(id)' = Returned(id) /\ VersionsOf(id)' = VersionsOf(id)
    BY DEF Kept, Returned, VersionsOf, HandoffsOf
  <1>2. ASSUME NEW id \in RunId PROVE BudgetOf(id)'
    BY <1>1 DEF BudgetInv, BudgetOf
  <1>3. ASSUME NEW o \in Runner, Steady(o) PROVE CountAt(o, pc[o])'
    <2>1. PICK id \in RunId : id = RunOf(o) /\ Kept(id)
      BY <1>3 DEF Steady
    <2>2. /\ RunOf(o)' = id /\ pc'[o] = pc[o] /\ revisionCount'[o] = revisionCount[o]
          /\ OpenAt(o, pc[o])' <=> OpenAt(o, pc[o])
      BY <1>3, <2>1 DEF Steady, RunOf, OpenAt
    <2>3. Returned(RunOf(o))' = Returned(RunOf(o)) /\ VersionsOf(RunOf(o))' = VersionsOf(RunOf(o))
      BY <1>1, <2>1, <2>2
    <2>4. CountAt(o, pc[o])
      BY <1>3 DEF Steady, BudgetInv
    <2> QED
      BY <2>2, <2>3, <2>4 DEF CountAt
  <1> QED
    BY <1>2, <1>3 DEF BudgetInv

(* At first nothing is written.                                              *)
LEMMA InitBudget == Init => BudgetInv
  <1> SUFFICES ASSUME Init PROVE BudgetInv
    OBVIOUS
  <1>1. \A id \in RunId : Returned(id) = {} /\ VersionsOf(id) = {}
    BY WorkflowConstants, RepositoryConstants DEF Init, Returned, VersionsOf
  <1>2. \A r \in Runner : pc[r] \notin Working
    BY DEF Init, Working, CallPoints, DecisionPoints, EmitPoints, HandoffPoints,
           ReadPoints, StatusPoints
  <1>3. IsFiniteSet({}) /\ Cardinality({}) = 0
    BY FS_EmptySet
  <1>4. \A id \in RunId : BudgetOf(id)
    <2> SUFFICES ASSUME NEW id \in RunId PROVE BudgetOf(id)
      OBVIOUS
    <2>1. Returned(id) = {} /\ VersionsOf(id) = {}
      BY <1>1
    <2>2. MaxRevisions \in Nat
      BY WorkflowConstants
    <2>3. /\ IsFiniteSet(Returned(id)) /\ IsFiniteSet(VersionsOf(id))
          /\ Cardinality(Returned(id)) = 0 /\ Cardinality(VersionsOf(id)) = 0
      BY <1>3, <2>1
    <2> QED
      BY <2>2, <2>3 DEF BudgetOf
  <1> QED
    BY <1>2, <1>4 DEF BudgetInv

(* An event is neither a version nor a handoff.                              *)
LEMMA EmissionBudget ==
    ASSUME TypeInv, WriterInv, BudgetInv, NEW r \in Runner, Emission(r)
    PROVE  BudgetInv'
  <1>1. PICK from, type, version, detail, to :
            EmissionFrom(r, from, type, version, detail, to)
    BY EmissionShape
  <1>2. /\ pc[r] = from /\ pc[r] \in Working /\ pc'[r] = to
        /\ UNCHANGED <<versions, handoffs, context, revisionCount, asking>>
    BY <1>1 DEF EmissionFrom, Emit, GoTo, Working, CallPoints, TypeInv, LocalTypeOK,
          progress, replyVars
  <1>3. \A id \in RunId : BudgetOf(id)'
    BY <1>2 DEF BudgetInv, BudgetOf, Returned, VersionsOf
  <1>4. CountAt(r, pc[r])'
    <2>1. CountAt(r, from)
      BY <1>2 DEF BudgetInv
    <2>2. (OpenAt(r, to) => OpenAt(r, from)) /\ to # "handoff_executor"
      BY <1>1 DEF EmissionFrom, Leads, RoundLeads
    <2>3. /\ Returned(RunOf(r))' = Returned(RunOf(r))
          /\ VersionsOf(RunOf(r))' = VersionsOf(RunOf(r))
          /\ OpenAt(r, pc[r])' <=> OpenAt(r, to)
      BY <1>2 DEF Returned, VersionsOf, RunOf, OpenAt
    <2>4. revisionCount[r] \in Nat /\ Cardinality(Returned(RunOf(r))) \in Nat
      BY <1>2, ActiveContext, FS_CardinalityType
         DEF TypeInv, LocalTypeOK, BudgetInv, BudgetOf
    <2>5. Cardinality(Returned(RunOf(r))) <= revisionCount[r]
      BY <2>1, <2>4 DEF CountAt
    <2> QED
      BY <1>2, <2>1, <2>2, <2>3, <2>5 DEF CountAt
  <1>5. \A o \in Runner : o # r /\ pc'[o] \in Working => Steady(o)
    BY OthersSteady DEF Step
  <1> QED
    BY <1>3, <1>4, <1>5, BudgetFrame

(* A revision is counted before it is handed back, and below the limit.      *)
LEMMA TurnBudget ==
    ASSUME TypeInv, WriterInv, BudgetInv, NEW r \in Runner, Rest(r) \/ TurnAction(r)
    PROVE  BudgetInv'
  <1>1. \A id \in RunId : Kept(id)
    BY RecordlessSteps
  <1>2. \A o \in Runner : o # r /\ pc'[o] \in Working => Steady(o)
    BY OthersSteady DEF Step, OtherCall, Rest, TurnAction
  <1>3. ASSUME pc'[r] \in Working PROVE CountAt(r, pc[r])'
    <2>1. Turn(r)
      BY <1>3, RestingSteps, TurnSteps
    <2>2. CountAt(r, pc[r])
      BY <2>1 DEF Turn, BudgetInv
    <2>3. /\ Returned(RunOf(r))' = Returned(RunOf(r))
          /\ VersionsOf(RunOf(r))' = VersionsOf(RunOf(r))
      BY <2>1 DEF Turn, repoVars, Returned, VersionsOf, RunOf
    <2>4. /\ revisionCount[r] \in Nat /\ Cardinality(Returned(RunOf(r))) \in Nat
          /\ MaxRevisions \in Nat
      BY <2>1, ActiveContext, FS_CardinalityType, WorkflowConstants
         DEF TypeInv, LocalTypeOK, BudgetInv, BudgetOf, Turn
    <2>5. Cardinality(Returned(RunOf(r))) <= revisionCount[r]
      BY <2>2, <2>4 DEF CountAt
    <2>6. "handoff_executor" # "transition"
      OBVIOUS
    <2> QED
      BY <2>1, <2>2, <2>3, <2>4, <2>5 DEF CountAt, Turn
  <1> QED
    BY <1>1, <1>2, <1>3, BudgetFrame

(* A created run has nothing.                                                *)
LEMMA StartRunBudget ==
    ASSUME TypeInv, WriterInv, FreshInv, BudgetInv, NEW r \in Runner, StartRun(r)
    PROVE  BudgetInv'
  <1>1. \A id \in RunId : Kept(id)
    BY RecordlessSteps
  <1>2. \A o \in Runner : o # r /\ pc'[o] \in Working => Steady(o)
    BY OthersSteady DEF Step, OtherCall
  <1>3. CountAt(r, pc[r])'
    <2>1. /\ RunOf(r) \in RunId /\ runs[RunOf(r)] = NoRun /\ pc'[r] = "emit_started"
          /\ UNCHANGED <<versions, handoffs, context, revisionCount>>
          /\ revisionCount[r] = 0
      BY ContextType DEF StartRun, GoTo, CreateRun, CanCreateRun, localVars, progress, FreshInv, TypeInv,
            LocalTypeOK
    <2>2. Returned(RunOf(r))' = {} /\ VersionsOf(RunOf(r))' = {}
      BY <2>1 DEF WriterInv, Unborn, Returned, VersionsOf, RunOf
    <2> QED
      BY <2>1, <2>2, FS_EmptySet, WorkflowConstants DEF CountAt
  <1> QED
    BY <1>1, <1>2, <1>3, BudgetFrame

(* The only version of a round ends the part in which there may be one.      *)
LEMMA PersistDraftBudget ==
    ASSUME TypeInv, WriterInv, BudgetInv, NEW r \in Runner, PersistDraft(r)
    PROVE  BudgetInv'
  <1>1. /\ pc[r] = "create_version" /\ pc[r] \in Working /\ pc'[r] = "emit_version_created"
        /\ UNCHANGED <<handoffs, context, revisionCount>>
        /\ versions' = versions \cup {DraftRow(r)}
        /\ DraftRow(r).run = RunOf(r)
    BY DEF PersistDraft, GoTo, CreateVersion, runTables, DraftRow, Working, CallPoints,
           TypeInv, LocalTypeOK
  <1>2. PICK id \in RunId : id = RunOf(r)
    BY <1>1, ActiveContext
  <1>3. \A x \in RunId : x # id => Kept(x)
    BY <1>2, OthersKept DEF Step, OtherCall
  <1>4. Returned(id)' = Returned(id) /\ VersionsOf(id)' = VersionsOf(id) \cup {DraftRow(r)}
    BY <1>1, <1>2 DEF Returned, VersionsOf
  <1>5. BudgetOf(id) /\ CountAt(r, "create_version")
    BY <1>1, <1>2 DEF BudgetInv
  <1>6. Cardinality(VersionsOf(id)) <= Cardinality(Returned(id))
    BY <1>2, <1>5 DEF CountAt, OpenAt, DraftPoints
  <1>7. /\ IsFiniteSet(VersionsOf(id)')
        /\ Cardinality(VersionsOf(id)') <= Cardinality(VersionsOf(id)) + 1
    <2>1. IsFiniteSet(VersionsOf(id)) /\ Cardinality(VersionsOf(id)) \in Nat
      BY <1>5, FS_CardinalityType DEF BudgetOf
    <2>2. /\ IsFiniteSet(VersionsOf(id) \cup {DraftRow(r)})
          /\ \/ Cardinality(VersionsOf(id) \cup {DraftRow(r)}) = Cardinality(VersionsOf(id))
             \/ Cardinality(VersionsOf(id) \cup {DraftRow(r)}) = Cardinality(VersionsOf(id)) + 1
      BY <2>1, FS_AddElement
    <2> QED
      BY <1>4, <2>1, <2>2
  <1>8. /\ Cardinality(VersionsOf(id)) \in Nat /\ Cardinality(Returned(id)) \in Nat
        /\ Cardinality(VersionsOf(id)') \in Nat
    BY <1>5, <1>7, FS_CardinalityType DEF BudgetOf
  <1>9. BudgetOf(id)'
    BY <1>4, <1>5, <1>6, <1>7, <1>8 DEF BudgetOf
  <1>10. CountAt(r, pc[r])'
    <2>1. RunOf(r)' = id
      BY <1>1, <1>2 DEF RunOf
    <2>2. ~ OpenAt(r, pc[r])'
      BY <1>1 DEF OpenAt, DraftPoints, ApprovalPoints
    <2> QED
      BY <1>1, <1>2, <1>4, <1>5, <2>1, <2>2 DEF CountAt
  <1>11. \A o \in Runner : o # r /\ pc'[o] \in Working => Steady(o)
    BY OthersSteady DEF Step, OtherCall
  <1> QED
    BY <1>3, <1>9, <1>10, <1>11, BudgetFrame

(* A fact is neither a version nor a handoff.                                *)
LEMMA SaveFactBudget ==
    ASSUME TypeInv, WriterInv, BudgetInv, NEW r \in Runner, SaveFact(r)
    PROVE  BudgetInv'
  <1>1. /\ pc[r] = "save_fact" /\ pc[r] \in Working /\ pc'[r] = "emit_fact_saved"
        /\ UNCHANGED <<versions, handoffs, context, revisionCount>>
    BY DEF SaveFact, GoTo, repoVars, localVars, progress, Working, CallPoints, TypeInv,
           LocalTypeOK
  <1>2. \A id \in RunId : BudgetOf(id)'
    BY <1>1 DEF BudgetInv, BudgetOf, Returned, VersionsOf
  <1>3. CountAt(r, pc[r])'
    <2>1. CountAt(r, "save_fact")
      BY <1>1 DEF BudgetInv
    <2> QED
      BY <1>1, <2>1 DEF CountAt, OpenAt, DraftPoints, Returned, VersionsOf, RunOf
  <1>4. \A o \in Runner : o # r /\ pc'[o] \in Working => Steady(o)
    BY OthersSteady DEF Step, OtherCall
  <1> QED
    BY <1>2, <1>3, <1>4, BudgetFrame

(* A revision handed back opens a round; the other handoffs end a part of it. *)
LEMMA HandoffBudget ==
    ASSUME TypeInv, WriterInv, BudgetInv, NEW r \in Runner,
           HandoffToCritic(r) \/ HandoffToExecutor(r) \/ HandoffAcceptance(r)
    PROVE  BudgetInv'
  <1>1. PICK from, sender, receiver, to :
            /\ from \in HandoffPoints /\ Handoff(r, from, sender, receiver, to)
            /\ to \in {"emit_handoff_critic", "emit_handoff_executor", "emit_handoff_acceptance"}
            /\ from = "handoff_executor" <=> to = "emit_handoff_executor"
            /\ receiver = "executor" <=> to = "emit_handoff_executor"
    BY DEF HandoffToCritic, HandoffToExecutor, HandoffAcceptance, HandoffPoints
  <1>2. PICK row : /\ handoffs' = handoffs \cup {row}
                   /\ row.run = RunOf(r) /\ row.to = receiver
                   /\ row \notin handoffs
    BY <1>1 DEF Handoff, AppendHandoff, CanAppendHandoff
  <1>3. /\ pc[r] = from /\ pc[r] \in Working /\ pc'[r] = to
        /\ UNCHANGED <<versions, context, revisionCount>>
    BY <1>1 DEF Handoff, GoTo, progress, Working, CallPoints, TypeInv, LocalTypeOK
  <1>4. PICK id \in RunId : id = RunOf(r)
    BY <1>3, ActiveContext
  <1>5. \A x \in RunId : x # id => Kept(x)
    BY <1>4, OthersKept DEF Step, OtherCall
  <1>6. BudgetOf(id) /\ CountAt(r, from) /\ VersionsOf(id)' = VersionsOf(id)
    BY <1>3, <1>4 DEF BudgetInv, VersionsOf
  <1>7. /\ Cardinality(VersionsOf(id)) \in Nat /\ Cardinality(Returned(id)) \in Nat
        /\ revisionCount[r] \in Nat /\ MaxRevisions \in Nat
    BY <1>6, FS_CardinalityType, WorkflowConstants DEF BudgetOf, TypeInv, LocalTypeOK
  <1>8. BudgetOf(id)' /\ CountAt(r, pc[r])'
    <2>1. RunOf(r)' = id /\ pc'[r] = to
      BY <1>3, <1>4 DEF RunOf
    <2>2. CASE receiver = "executor"
      <3>1. Returned(id)' = Returned(id) \cup {row} /\ row \notin Returned(id)
        BY <1>2, <1>4, <2>2 DEF Returned
      <3>2. /\ IsFiniteSet(Returned(id)')
            /\ Cardinality(Returned(id)') = Cardinality(Returned(id)) + 1
        BY <1>6, <3>1, FS_AddElement DEF BudgetOf
      <3>3. Cardinality(Returned(id)) < revisionCount[r] /\ revisionCount[r] <= MaxRevisions
        BY <1>1, <1>4, <1>6, <2>2 DEF CountAt
      <3>4. BudgetOf(id)'
        BY <1>6, <1>7, <3>2, <3>3 DEF BudgetOf
      <3>5. CountAt(r, pc[r])'
        BY <1>1, <1>3, <1>6, <1>7, <2>1, <2>2, <3>2, <3>3 DEF CountAt, BudgetOf
      <3> QED
        BY <3>4, <3>5
    <2>3. CASE receiver # "executor"
      <3>1. Returned(id)' = Returned(id)
        BY <1>2, <2>3 DEF Returned
      <3>2. ~ OpenAt(r, pc[r])' /\ to # "handoff_executor" /\ from # "handoff_executor"
        BY <1>1, <2>1, <2>3 DEF OpenAt, DraftPoints, ApprovalPoints
      <3> QED
        BY <1>3, <1>4, <1>6, <2>1, <3>1, <3>2 DEF BudgetOf, CountAt
    <2> QED
      BY <2>2, <2>3
  <1>9. \A o \in Runner : o # r /\ pc'[o] \in Working => Steady(o)
    BY OthersSteady DEF Step, OtherCall
  <1> QED
    BY <1>5, <1>8, <1>9, BudgetFrame

(* Every step keeps the budget.                                              *)
LEMMA BudgetStep ==
    ASSUME TypeInv, WriterInv, FreshInv, BudgetInv, [Next]_vars PROVE BudgetInv'
  <1>1. ASSUME NEW r \in Runner, Step(r) \/ Call(r) \/ CallFails(r) \/ Crash(r)
        PROVE  BudgetInv'
    BY <1>1, RoundSteps, EmissionBudget, TurnBudget, StartRunBudget, PersistDraftBudget,
       SaveFactBudget, HandoffBudget
  <1>2. CASE \/ \E u \in User, d \in Document : EditorWrites(u, d) \/ OwnerGrants(u, d)
             \/ UNCHANGED vars
    <2>1. \A id \in RunId : Kept(id)
      BY <1>2, OutsideKept
    <2>2. \A o \in Runner : pc'[o] \in Working => Steady(o)
      BY <1>2, OutsideSteady
    <2> QED
      BY <2>1, <2>2, BudgetFrame
  <1> QED
    BY <1>1, <1>2 DEF Next

(* No run has more versions than one for the source and one for each         *)
(* revision handed back to the Executor, nor more of those than              *)
(* max_revisions, for every limit and any number of runners.                 *)
THEOREM RevisionsInBudget == Spec => []RevisionBudget
  <1>1. BudgetInv => RevisionBudget
    BY DEF BudgetInv, BudgetOf, RevisionBudget, Returned
  <1>2. Init => BudgetInv
    BY InitBudget
  <1>3. TypeInv /\ WriterInv /\ FreshInv /\ BudgetInv /\ [Next]_vars => BudgetInv'
    BY BudgetStep
  <1> QED
    BY <1>1, <1>2, <1>3, FreshInvariant, PTL DEF Spec

-----------------------------------------------------------------------------
(* The version under review.  Between the announcement of a version and the  *)
(* end of its round the current version is the one announced last, and from  *)
(* its handoff on it has been handed to the Critic.                          *)

Announcement(e) == e.type = "document_version_created"

AnnouncedLast(id, version) ==
    \E made \in EventsOf(id) :
        /\ Announcement(made)
        /\ made.version = version
        /\ \A later \in EventsOf(id) : Announcement(later) => later.sequence <= made.sequence

HandedToCritic(id, version) ==
    \E h \in HandoffsOf(id) : h.to = "critic" /\ h.version = version

ReviewsOf(id) ==
    \A e \in EventsOf(id) : e.type = "critic_review_completed" =>
        /\ HandedToCritic(id, e.version)
        /\ \E made \in EventsOf(id) :
                /\ Announcement(made)
                /\ made.version = e.version
                /\ made.sequence < e.sequence
                /\ \A later \in EventsOf(id) :
                        Announcement(later) /\ later.sequence < e.sequence
                        => later.sequence <= made.sequence

ReviewedAt(r, point) ==
    /\ MadeAt(r, point) => AnnouncedLast(RunOf(r), current[r])
    /\ HandedAt(r, point) => HandedToCritic(RunOf(r), current[r])

ReviewInv ==
    /\ \A id \in RunId : ReviewsOf(id)
    /\ \A r \in Runner : pc[r] \in Working => ReviewedAt(r, pc[r])

(* It is enough to look at the runs written to and the runners that moved.   *)
LEMMA ReviewFrame ==
    ASSUME ReviewInv,
           \A id \in RunId : Kept(id) \/ ReviewsOf(id)',
           \A o \in Runner : pc'[o] \in Working => Steady(o) \/ ReviewedAt(o, pc[o])'
    PROVE  ReviewInv'
  <1>1. \A id \in RunId : Kept(id) =>
            EventsOf(id)' = EventsOf(id) /\ HandoffsOf(id)' = HandoffsOf(id)
    BY DEF Kept, EventsOf, HandoffsOf
  <1>2. ASSUME NEW id \in RunId PROVE ReviewsOf(id)'
    BY <1>1 DEF ReviewInv, ReviewsOf, HandedToCritic, Announcement
  <1>3. ASSUME NEW o \in Runner, Steady(o) PROVE ReviewedAt(o, pc[o])'
    <2>1. PICK id, v : id \in RunId /\ id = RunOf(o) /\ v = current[o] /\ Kept(id)
      BY <1>3 DEF Steady
    <2>2. /\ RunOf(o)' = id /\ pc'[o] = pc[o] /\ current'[o] = v
          /\ MadeAt(o, pc[o])' <=> MadeAt(o, pc[o])
          /\ HandedAt(o, pc[o])' <=> HandedAt(o, pc[o])
      BY <1>3, <2>1 DEF Steady, RunOf, MadeAt, HandedAt
    <2>3. /\ AnnouncedLast(id, v)' <=> AnnouncedLast(id, v)
          /\ HandedToCritic(id, v)' <=> HandedToCritic(id, v)
      BY <1>1, <2>1 DEF AnnouncedLast, HandedToCritic
    <2>4. /\ AnnouncedLast(RunOf(o), current[o])' <=> AnnouncedLast(id, v)'
          /\ HandedToCritic(RunOf(o), current[o])' <=> HandedToCritic(id, v)'
      BY <2>2
    <2>5. ReviewedAt(o, pc[o])
      BY <1>3 DEF Steady, ReviewInv
    <2> QED
      BY <2>1, <2>2, <2>3, <2>4, <2>5 DEF ReviewedAt
  <1> QED
    BY <1>2, <1>3 DEF ReviewInv

(* At first nothing is reviewed.                                             *)
LEMMA InitReview == Init => ReviewInv
  BY DEF Init, ReviewInv, ReviewsOf, EventsOf, Working, CallPoints, DecisionPoints,
         EmitPoints, HandoffPoints, ReadPoints, StatusPoints

(* An event is the last of its run so far: an announcement becomes the last  *)
(* one, and a review comes after the announcement it is about.               *)
LEMMA EmissionReview ==
    ASSUME TypeInv, WriterInv, ReviewInv, NEW r \in Runner, Emission(r)
    PROVE  ReviewInv'
  <1>1. PICK from, type, version, detail, to :
            EmissionFrom(r, from, type, version, detail, to)
    BY EmissionShape
  <1>2. /\ pc[r] = from /\ pc[r] \in Working /\ pc'[r] = to
        /\ UNCHANGED <<handoffs, context, current, asking>>
    BY <1>1 DEF EmissionFrom, Emit, GoTo, Working, CallPoints, TypeInv, LocalTypeOK,
          progress, replyVars
  <1>3. PICK id, v : id \in RunId /\ id = RunOf(r) /\ v = current[r]
    BY <1>2, ActiveContext
  <1>4. PICK e : /\ events' = events \cup {e}
                 /\ e.run = id /\ e.type = type /\ e.version = version
                 /\ e.sequence = eventSequence[r] + 1
    BY <1>1, <1>3 DEF EmissionFrom, Emit, AppendEvent
  <1>5. EventsOf(id)' = EventsOf(id) \cup {e} /\ HandoffsOf(id)' = HandoffsOf(id)
    BY <1>2, <1>4 DEF EventsOf, HandoffsOf
  <1>6. /\ \A x \in EventsOf(id) : x.sequence \in Nat /\ x.sequence < e.sequence
        /\ e.sequence \in Nat
    <2>1. \A x \in EventsOf(id) : x.sequence <= eventSequence[r]
      BY <1>2, <1>3 DEF WriterInv, OwnsRun, EventsOf
    <2>2. eventSequence[r] \in Nat /\ \A x \in EventsOf(id) : x.sequence \in Nat
      BY DEF TypeInv, LocalTypeOK, RepoTypeOK, EventRow, EventsOf
    <2> QED
      BY <1>4, <2>1, <2>2
  <1>7. ReviewsOf(id) /\ ReviewedAt(r, from)
    BY <1>2, <1>3 DEF ReviewInv
  <1>8. RoundLeads(r, from, type, version, detail, to) /\
            (type = "critic_review_completed" => from = "emit_review" /\ version = v)
    BY <1>1, <1>3 DEF EmissionFrom, Leads
  <1>9. HandedToCritic(id, v) => HandedToCritic(id, v)'
    BY <1>5 DEF HandedToCritic
  <1>10. type # "document_version_created" /\ AnnouncedLast(id, v) => AnnouncedLast(id, v)'
    BY <1>4, <1>5 DEF AnnouncedLast, Announcement
  <1>11. type = "document_version_created" => AnnouncedLast(id, v)'
    <2>1. type = "document_version_created" => version = v
      BY <1>3, <1>8 DEF RoundLeads
    <2> QED
      BY <1>4, <1>5, <1>6, <2>1 DEF AnnouncedLast, Announcement
  <1>12. ReviewedAt(r, pc[r])'
    <2>1. /\ RunOf(r)' = id /\ current'[r] = v
          /\ MadeAt(r, pc[r])' <=> MadeAt(r, to)
          /\ HandedAt(r, pc[r])' <=> HandedAt(r, to)
      BY <1>2, <1>3 DEF RunOf, MadeAt, HandedAt
    <2>2. MadeAt(r, to) => AnnouncedLast(id, v)'
      BY <1>3, <1>7, <1>8, <1>10, <1>11 DEF RoundLeads, ReviewedAt
    <2>3. HandedAt(r, to) => HandedToCritic(id, v)'
      BY <1>3, <1>7, <1>8, <1>9 DEF RoundLeads, ReviewedAt
    <2>4. /\ AnnouncedLast(RunOf(r), current[r])' <=> AnnouncedLast(id, v)'
          /\ HandedToCritic(RunOf(r), current[r])' <=> HandedToCritic(id, v)'
      BY <2>1
    <2> QED
      BY <2>1, <2>2, <2>3, <2>4 DEF ReviewedAt
  <1>13. ReviewsOf(id)'
    <2>1. SUFFICES ASSUME NEW x \in EventsOf(id) \cup {e}, x.type = "critic_review_completed"
                   PROVE  /\ HandedToCritic(id, x.version)'
                          /\ \E made \in EventsOf(id) :
                                /\ Announcement(made)
                                /\ made.version = x.version
                                /\ made.sequence < x.sequence
                                /\ \A later \in EventsOf(id) \cup {e} :
                                        Announcement(later) /\ later.sequence < x.sequence
                                        => later.sequence <= made.sequence
      BY <1>5 DEF ReviewsOf, Announcement
    <2>2. CASE x \in EventsOf(id)
      <3>1. ~ (e.sequence < x.sequence)
        BY <1>6, <2>2
      <3>2. HandedToCritic(id, x.version)'
        BY <1>5, <1>7, <2>1, <2>2 DEF ReviewsOf, HandedToCritic
      <3> QED
        BY <1>7, <2>1, <2>2, <3>1, <3>2 DEF ReviewsOf
    <2>3. CASE x = e
      <3>1. MadeAt(r, from) /\ HandedAt(r, from) /\ x.version = v
        BY <1>4, <1>8, <2>1, <2>3 DEF MadeAt, HandedAt, DraftedPoints
      <3>2. AnnouncedLast(id, v) /\ HandedToCritic(id, v)'
        BY <1>3, <1>7, <1>9, <3>1 DEF ReviewedAt
      <3>3. ~ (e.sequence < x.sequence)
        BY <1>6, <2>3
      <3> QED
        BY <1>6, <2>3, <3>1, <3>2, <3>3 DEF AnnouncedLast
    <2> QED
      BY <2>2, <2>3
  <1>14. \A x \in RunId : x # id => Kept(x)
    BY <1>3, OthersKept DEF Step
  <1>15. \A o \in Runner : o # r /\ pc'[o] \in Working => Steady(o)
    BY OthersSteady DEF Step
  <1> QED
    BY <1>12, <1>13, <1>14, <1>15, ReviewFrame

(* Steps that write neither events nor handoffs: the round does not go on to *)
(* a version that is not announced or handed over.                           *)
LEMMA OtherReview ==
    ASSUME TypeInv, WriterInv, ReviewInv, NEW r \in Runner,
           Rest(r) \/ TurnAction(r) \/ StartRun(r) \/ SaveFact(r) \/ PersistDraft(r)
    PROVE  ReviewInv'
  <1>1. \A id \in RunId : ReviewsOf(id)'
    <2>1. UNCHANGED <<events, handoffs>>
      <3>1. CASE Rest(r)
        BY <3>1 DEF Rest, RunRefused, Crash, Call, SetCompleted, SetBlocked, SetFailed,
             SetStatus, repoVars
      <3>2. CASE TurnAction(r)
        BY <3>2, DecisionKeepsTables
           DEF TurnAction, CallFails, PushExecutorContext, PushCriticContext, Push,
             ReadRefused, ReadLatest, DraftRefused, Decide, repoVars
      <3>3. CASE StartRun(r) \/ SaveFact(r) \/ PersistDraft(r)
        BY <3>3 DEF StartRun, SaveFact, PersistDraft, repoVars, runTables
      <3> QED
        BY <3>1, <3>2, <3>3
    <2> QED
      BY <2>1 DEF ReviewInv, ReviewsOf, EventsOf, HandedToCritic, HandoffsOf, Announcement
  <1>2. ASSUME pc'[r] \in Working PROVE ReviewedAt(r, pc[r])'
    <2>1. CASE TurnAction(r)
      <3>1. Turn(r)
        BY <1>2, <2>1, TurnSteps
      <3>2. ReviewedAt(r, pc[r])
        BY <3>1 DEF Turn, ReviewInv
      <3>3. /\ AnnouncedLast(RunOf(r), current[r])' <=> AnnouncedLast(RunOf(r), current[r])
            /\ HandedToCritic(RunOf(r), current[r])' <=> HandedToCritic(RunOf(r), current[r])
        BY <3>1 DEF Turn, repoVars, AnnouncedLast, HandedToCritic, EventsOf, HandoffsOf,
              RunOf
      <3> QED
        BY <3>1, <3>2, <3>3 DEF Turn, ReviewedAt
    <2>2. CASE StartRun(r) \/ SaveFact(r) \/ PersistDraft(r)
      <3>1. pc'[r] \in {"emit_started", "emit_fact_saved", "emit_version_created"}
        BY <2>2 DEF StartRun, SaveFact, PersistDraft, GoTo, TypeInv, LocalTypeOK
      <3> QED
        BY <3>1 DEF ReviewedAt, HandedAt, MadeAt, DraftedPoints, AcceptancePoints,
             ApprovalPoints
    <2> QED
      BY <1>2, <2>1, <2>2, RestingSteps
  <1>3. \A o \in Runner : o # r /\ pc'[o] \in Working => Steady(o)
    BY OthersSteady DEF Step, OtherCall, Rest, TurnAction
  <1> QED
    BY <1>1, <1>2, <1>3, ReviewFrame

(* The handoff to the Critic names the current version.                      *)
LEMMA HandoffReview ==
    ASSUME TypeInv, WriterInv, ReviewInv, NEW r \in Runner,
           HandoffToCritic(r) \/ HandoffToExecutor(r) \/ HandoffAcceptance(r)
    PROVE  ReviewInv'
  <1>1. PICK from, sender, receiver, to :
            /\ from \in HandoffPoints /\ Handoff(r, from, sender, receiver, to)
            /\ \/ from = "handoff_critic" /\ receiver = "critic" /\ to = "emit_handoff_critic"
               \/ from = "handoff_acceptance" /\ to = "emit_handoff_acceptance"
               \/ to = "emit_handoff_executor"
    BY DEF HandoffToCritic, HandoffToExecutor, HandoffAcceptance, HandoffPoints
  <1>2. /\ pc[r] = from /\ pc[r] \in Working /\ pc'[r] = to
        /\ UNCHANGED <<events, context, current, asking>>
    BY <1>1 DEF Handoff, GoTo, progress, replyVars, Working, CallPoints, TypeInv, LocalTypeOK
  <1>3. PICK id, v : id \in RunId /\ id = RunOf(r) /\ v = current[r]
    BY <1>2, ActiveContext
  <1>4. PICK row : /\ handoffs' = handoffs \cup {row}
                   /\ row.run = id /\ row.to = receiver /\ row.version = v
    BY <1>1, <1>3 DEF Handoff, AppendHandoff
  <1>5. \A x, version : HandedToCritic(x, version) => HandedToCritic(x, version)'
    BY <1>4 DEF HandedToCritic, HandoffsOf
  <1>6. \A x \in RunId : ReviewsOf(x)'
    <2> SUFFICES ASSUME NEW x \in RunId PROVE ReviewsOf(x)'
      OBVIOUS
    <2>1. EventsOf(x)' = EventsOf(x) /\ ReviewsOf(x)
      BY <1>2 DEF EventsOf, ReviewInv
    <2> QED
      BY <1>5, <2>1 DEF ReviewsOf, Announcement
  <1>7. ReviewedAt(r, pc[r])'
    <2>1. /\ RunOf(r)' = id /\ current'[r] = v
          /\ MadeAt(r, pc[r])' <=> MadeAt(r, to)
          /\ HandedAt(r, pc[r])' <=> HandedAt(r, to)
      BY <1>2, <1>3 DEF RunOf, MadeAt, HandedAt
    <2>2. ReviewedAt(r, from)
      BY <1>2 DEF ReviewInv
    <2>3. AnnouncedLast(id, v) => AnnouncedLast(id, v)'
      BY <1>2 DEF AnnouncedLast, EventsOf
    <2>4. MadeAt(r, to) => AnnouncedLast(id, v)'
      BY <1>1, <1>3, <2>2, <2>3 DEF ReviewedAt, MadeAt, DraftedPoints, AcceptancePoints,
            ApprovalPoints
    <2>5. HandedAt(r, to) => HandedToCritic(id, v)'
      <3>1. CASE from = "handoff_critic" /\ receiver = "critic"
        BY <1>4, <3>1 DEF HandedToCritic, HandoffsOf
      <3>2. CASE from = "handoff_acceptance"
        BY <1>3, <1>5, <2>2, <3>2 DEF ReviewedAt, HandedAt, MadeAt, DraftedPoints,
              AcceptancePoints
      <3>3. CASE to = "emit_handoff_executor"
        BY <3>3 DEF HandedAt, MadeAt, DraftedPoints, AcceptancePoints, ApprovalPoints
      <3> QED
        BY <1>1, <3>1, <3>2, <3>3
    <2>6. /\ AnnouncedLast(RunOf(r), current[r])' <=> AnnouncedLast(id, v)'
          /\ HandedToCritic(RunOf(r), current[r])' <=> HandedToCritic(id, v)'
      BY <2>1
    <2> QED
      BY <2>1, <2>4, <2>5, <2>6 DEF ReviewedAt
  <1>8. \A o \in Runner : o # r /\ pc'[o] \in Working => Steady(o)
    BY OthersSteady DEF Step, OtherCall
  <1> QED
    BY <1>6, <1>7, <1>8, ReviewFrame

(* Every step keeps the reviews in order.                                    *)
LEMMA ReviewStep ==
    ASSUME TypeInv, WriterInv, ReviewInv, [Next]_vars PROVE ReviewInv'
  <1>1. ASSUME NEW r \in Runner, Step(r) \/ Call(r) \/ CallFails(r) \/ Crash(r)
        PROVE  ReviewInv'
    BY <1>1, RoundSteps, EmissionReview, OtherReview, HandoffReview
  <1>2. CASE \/ \E u \in User, d \in Document : EditorWrites(u, d) \/ OwnerGrants(u, d)
             \/ UNCHANGED vars
    <2>1. \A id \in RunId : Kept(id)
      BY <1>2, OutsideKept
    <2>2. \A o \in Runner : pc'[o] \in Working => Steady(o)
      BY <1>2, OutsideSteady
    <2> QED
      BY <2>1, <2>2, ReviewFrame
  <1> QED
    BY <1>1, <1>2 DEF Next

(* Every verdict of the Critic names a version that was handed to it and     *)
(* that was the last one its run had announced, whatever other runners and   *)
(* editors wrote to the document meanwhile.                                  *)
THEOREM ReviewsNameHandedVersion == Spec => []ReviewNamesHandedVersion
  <1>1. TypeInv /\ ReviewInv => ReviewNamesHandedVersion
    <2> SUFFICES ASSUME TypeInv, ReviewInv, NEW e \in events,
                        e.type = "critic_review_completed"
                 PROVE  /\ \E h \in handoffs :
                            h.run = e.run /\ h.to = "critic" /\ h.version = e.version
                        /\ \E made \in EventsOf(e.run) :
                            /\ made.type = "document_version_created"
                            /\ made.version = e.version
                            /\ made.sequence < e.sequence
                            /\ \A later \in EventsOf(e.run) :
                                    /\ later.type = "document_version_created"
                                    /\ later.sequence < e.sequence
                                    => later.sequence <= made.sequence
      BY DEF ReviewNamesHandedVersion
    <2>1. e.run \in RunId /\ e \in EventsOf(e.run)
      BY DEF TypeInv, RepoTypeOK, EventRow, EventsOf
    <2>2. ReviewsOf(e.run)
      BY <2>1 DEF ReviewInv
    <2>3. \E h \in handoffs : h.run = e.run /\ h.to = "critic" /\ h.version = e.version
      BY <2>1, <2>2 DEF ReviewsOf, HandedToCritic, HandoffsOf
    <2> QED
      BY <2>1, <2>2, <2>3 DEF ReviewsOf, Announcement
  <1>2. TypeInv /\ WriterInv /\ ReviewInv /\ [Next]_vars => ReviewInv'
    BY ReviewStep
  <1> QED
    BY <1>1, <1>2, InitReview, WriterInvariant, PTL DEF Spec

-----------------------------------------------------------------------------
(* The texts of a run.  The current version is the newest of the run, and    *)
(* from the Executor's outcome to the new version the draft differs from it. *)

DraftsDiffer(id) ==
    \A v, w \in VersionsOf(id) :
        /\ v.number < w.number
        /\ ~ \E x \in VersionsOf(id) : v.number < x.number /\ x.number < w.number
        => v.content # w.content

Newest(id, document, version) ==
    /\ version = NoVersion => VersionsOf(id) = {}
    /\ version # NoVersion =>
            \E w \in VersionsOf(id) :
                /\ Ref(w) = version
                /\ \A v \in VersionsOf(id) : v.number <= w.number
    /\ \A v \in VersionsOf(id) : v.document = document

NewDraft(id, version, text) ==
    \A v \in VersionsOf(id) : Ref(v) = version => v.content # text

TextAt(r, point) ==
    /\ Newest(RunOf(r), DocumentOf(r), current[r])
    /\ point \in DraftPoints => NewDraft(RunOf(r), current[r], draft[r])

TextInv ==
    /\ \A id \in RunId : DraftsDiffer(id)
    /\ \A r \in Runner : pc[r] \in Working => TextAt(r, pc[r])

(* It is enough to look at the runs written to and the runners that moved.   *)
LEMMA TextFrame ==
    ASSUME TextInv,
           \A id \in RunId : Kept(id) \/ DraftsDiffer(id)',
           \A o \in Runner : pc'[o] \in Working => Steady(o) \/ TextAt(o, pc[o])'
    PROVE  TextInv'
  <1>1. \A id \in RunId : Kept(id) => VersionsOf(id)' = VersionsOf(id)
    BY DEF Kept, VersionsOf
  <1>2. ASSUME NEW id \in RunId PROVE DraftsDiffer(id)'
    BY <1>1 DEF TextInv, DraftsDiffer
  <1>3. ASSUME NEW o \in Runner, Steady(o) PROVE TextAt(o, pc[o])'
    <2>1. PICK id \in RunId : id = RunOf(o) /\ Kept(id)
      BY <1>3 DEF Steady
    <2>2. /\ RunOf(o)' = id /\ DocumentOf(o)' = DocumentOf(o) /\ pc'[o] = pc[o]
          /\ current'[o] = current[o] /\ draft'[o] = draft[o]
      BY <1>3, <2>1 DEF Steady, RunOf, DocumentOf
    <2>3. VersionsOf(RunOf(o))' = VersionsOf(RunOf(o))
      BY <1>1, <2>1, <2>2
    <2>4. TextAt(o, pc[o])
      BY <1>3 DEF Steady, TextInv
    <2> QED
      BY <2>2, <2>3, <2>4 DEF TextAt, Newest, NewDraft
  <1> QED
    BY <1>2, <1>3 DEF TextInv

(* At first no run has a text.                                               *)
LEMMA InitText == Init => TextInv
  <1> SUFFICES ASSUME Init PROVE TextInv
    OBVIOUS
  <1>1. \A id \in RunId : VersionsOf(id) = {}
    BY WorkflowConstants, RepositoryConstants DEF Init, VersionsOf
  <1> QED
    BY <1>1 DEF Init, TextInv, DraftsDiffer, Working, CallPoints, DecisionPoints,
          EmitPoints, HandoffPoints, ReadPoints, StatusPoints

(* Steps that write no version of the run.  The draft of a round is compared *)
(* with the current version on its way to being stored.                      *)
LEMMA OtherText ==
    ASSUME TypeInv, WriterInv, FreshInv, TextInv, NEW r \in Runner,
           \/ Emission(r) \/ Rest(r) \/ TurnAction(r) \/ StartRun(r) \/ SaveFact(r)
           \/ HandoffToCritic(r) \/ HandoffToExecutor(r) \/ HandoffAcceptance(r)
    PROVE  TextInv'
  <1>1. UNCHANGED versions
    <2>1. CASE Emission(r)
      <3>1. PICK from, type, version, detail, to :
                Emit(r, from, type, version, detail, to)
        BY <2>1, EmissionShape DEF EmissionFrom
      <3> QED
        BY <3>1 DEF Emit
    <2>2. CASE Rest(r)
      BY <2>2 DEF Rest, RunRefused, Crash, Call, SetCompleted, SetBlocked, SetFailed,
           SetStatus, repoVars
    <2>3. CASE TurnAction(r)
      BY <2>3, DecisionKeepsTables
         DEF TurnAction, CallFails, PushExecutorContext, PushCriticContext, Push,
           ReadRefused, ReadLatest, DraftRefused, Decide, repoVars
    <2>4. CASE StartRun(r) \/ SaveFact(r)
      BY <2>4 DEF StartRun, SaveFact, repoVars
    <2>5. CASE HandoffToCritic(r) \/ HandoffToExecutor(r) \/ HandoffAcceptance(r)
      BY <2>5 DEF HandoffToCritic, HandoffToExecutor, HandoffAcceptance, Handoff
    <2> QED
      BY <2>1, <2>2, <2>3, <2>4, <2>5
  <1>2. \A id \in RunId : DraftsDiffer(id)'
    BY <1>1 DEF TextInv, DraftsDiffer, VersionsOf
  <1>3. ASSUME pc[r] \in Working, pc'[r] \in Working,
               context'[r] = context[r], current'[r] = current[r],
               pc'[r] \in DraftPoints =>
                    /\ draft'[r] = draft[r]
                    /\ pc[r] \in DraftPoints \/ NewDraft(RunOf(r), current[r], draft[r])
        PROVE  TextAt(r, pc[r])'
    <2>1. TextAt(r, pc[r])
      BY <1>3 DEF TextInv
    <2>2. /\ VersionsOf(RunOf(r))' = VersionsOf(RunOf(r)) /\ DocumentOf(r)' = DocumentOf(r)
          /\ RunOf(r)' = RunOf(r)
      BY <1>1, <1>3 DEF VersionsOf, RunOf, DocumentOf
    <2> QED
      BY <1>3, <2>1, <2>2 DEF TextAt, Newest, NewDraft
  <1>4. ASSUME pc'[r] \in Working PROVE TextAt(r, pc[r])'
    <2>1. CASE Emission(r)
      <3>1. PICK from, type, version, detail, to :
                EmissionFrom(r, from, type, version, detail, to)
        BY <2>1, EmissionShape
      <3>2. /\ pc[r] = from /\ pc[r] \in Working /\ pc'[r] = to
            /\ context' = context /\ current' = current /\ draft' = draft
        BY <3>1 DEF EmissionFrom, Emit, GoTo, Working, CallPoints, TypeInv, LocalTypeOK,
              progress, replyVars
      <3>3. to \in DraftPoints => from \in DraftPoints
        BY <3>1 DEF EmissionFrom, Leads, RoundLeads
      <3> QED
        BY <1>3, <1>4, <3>2, <3>3
    <2>2. CASE TurnAction(r)
      <3>1. Turn(r)
        BY <1>4, <2>2, TurnSteps
      <3>2. current[r] # NoVersion /\ ~ DraftUnchanged(r) =>
                NewDraft(RunOf(r), current[r], draft[r])
        BY DEF DraftUnchanged, NewDraft, VersionsOf
      <3>3. current[r] = NoVersion => NewDraft(RunOf(r), current[r], draft[r])
        BY <3>1 DEF Turn, TextInv, TextAt, Newest, NewDraft
      <3> QED
        BY <1>3, <1>4, <3>1, <3>2, <3>3 DEF Turn
    <2>3. CASE StartRun(r)
      <3>1. /\ RunOf(r) \in RunId /\ runs[RunOf(r)] = NoRun /\ pc'[r] = "emit_started"
            /\ UNCHANGED <<context, current>>
            /\ current[r] = NoVersion
        BY <2>3, ContextType
           DEF StartRun, GoTo, CreateRun, CanCreateRun, localVars, progress, FreshInv,
               TypeInv, LocalTypeOK
      <3>2. VersionsOf(RunOf(r))' = {}
        BY <1>1, <3>1 DEF WriterInv, Unborn, VersionsOf, RunOf
      <3> QED
        BY <3>1, <3>2 DEF TextAt, Newest, DraftPoints
    <2>4. CASE SaveFact(r)
      <3>1. /\ pc[r] = "save_fact" /\ pc[r] \in Working
            /\ context' = context /\ current' = current /\ draft' = draft
        BY <2>4 DEF SaveFact, GoTo, localVars, progress, replyVars, Working, CallPoints
      <3> QED
        BY <1>3, <1>4, <3>1 DEF DraftPoints
    <2>5. CASE HandoffToCritic(r) \/ HandoffToExecutor(r) \/ HandoffAcceptance(r)
      <3>1. /\ pc[r] \in Working /\ context' = context /\ current' = current
            /\ pc'[r] \notin DraftPoints
        BY <2>5 DEF HandoffToCritic, HandoffToExecutor, HandoffAcceptance, Handoff, GoTo,
              progress, Working, CallPoints, HandoffPoints, DraftPoints, TypeInv, LocalTypeOK
      <3> QED
        BY <1>3, <1>4, <3>1
    <2> QED
      BY <1>4, <2>1, <2>2, <2>3, <2>4, <2>5, RestingSteps
  <1>5. \A o \in Runner : o # r /\ pc'[o] \in Working => Steady(o)
    BY OthersSteady DEF Step, OtherCall, Rest, TurnAction
  <1> QED
    BY <1>2, <1>4, <1>5, TextFrame

(* A stored draft is numbered after everything the run has stored, and       *)
(* differs from the newest of that.                                          *)
LEMMA PersistDraftText ==
    ASSUME TypeInv, WriterInv, TextInv, NEW r \in Runner, PersistDraft(r)
    PROVE  TextInv'
  <1>1. /\ pc[r] = "create_version" /\ pc[r] \in Working /\ pc'[r] = "emit_version_created"
        /\ UNCHANGED context
        /\ versions' = versions \cup {DraftRow(r)}
        /\ current'[r] = Ref(DraftRow(r))
        /\ IsNextNumber(DocumentOf(r), DraftRow(r).number)
    BY DEF PersistDraft, GoTo, CreateVersion, CanCreateVersion, DraftRow, Working,
           CallPoints, TypeInv, LocalTypeOK
  <1>2. PICK id, row :
            /\ id \in RunId /\ id = RunOf(r) /\ row = DraftRow(r)
            /\ row.run = id /\ row.document = DocumentOf(r) /\ row.content = draft[r]
    BY <1>1, ActiveContext DEF DraftRow
  <1>3. /\ VersionsOf(id)' = VersionsOf(id) \cup {row}
        /\ \A v \in VersionsOf(id) : v \in versions /\ v.number \in Nat
        /\ row.number \in Nat
    BY <1>1, <1>2 DEF VersionsOf, DraftRow, TypeInv, RepoTypeOK, LocalTypeOK, VersionRow
  <1>4. TextAt(r, "create_version")
    BY <1>1 DEF TextInv
  <1>5. \A v \in VersionsOf(id) : v.document = DocumentOf(r) /\ v.number < row.number
    BY <1>1, <1>2, <1>3, <1>4 DEF TextAt, Newest, IsNextNumber
  <1>6. \A v \in VersionsOf(id) :
            (\A x \in VersionsOf(id) : x.number <= v.number) => v.content # row.content
    <2> SUFFICES ASSUME NEW v \in VersionsOf(id),
                        \A x \in VersionsOf(id) : x.number <= v.number
                 PROVE  v.content # row.content
      OBVIOUS
    <2>1. PICK w \in VersionsOf(id) :
            Ref(w) = current[r] /\ \A x \in VersionsOf(id) : x.number <= w.number
      BY <1>2, <1>4 DEF TextAt, Newest
    <2>2. v.number = w.number /\ v.document = w.document
      BY <1>3, <1>5, <2>1
    <2>3. Ref(v) = current[r]
      BY <2>1, <2>2 DEF Ref
    <2> QED
      BY <1>2, <1>4, <2>3 DEF TextAt, NewDraft, DraftPoints
  <1>7. DraftsDiffer(id)'
    <2> SUFFICES ASSUME NEW v \in VersionsOf(id) \cup {row}, NEW w \in VersionsOf(id) \cup {row},
                        v.number < w.number,
                        ~ \E x \in VersionsOf(id) \cup {row} :
                                v.number < x.number /\ x.number < w.number
                 PROVE  v.content # w.content
      BY <1>3 DEF DraftsDiffer
    <2>1. v \in VersionsOf(id)
      BY <1>3, <1>5
    <2>2. CASE w \in VersionsOf(id)
      BY <1>2, <2>1, <2>2 DEF TextInv, DraftsDiffer
    <2>3. CASE w = row
      <3>1. \A x \in VersionsOf(id) : x.number <= v.number
        BY <1>3, <1>5, <2>1, <2>3
      <3> QED
        BY <1>6, <2>1, <2>3, <3>1
    <2> QED
      BY <2>2, <2>3
  <1>8. TextAt(r, pc[r])'
    <2>1. /\ RunOf(r)' = id /\ DocumentOf(r)' = DocumentOf(r) /\ current'[r] = Ref(row)
      BY <1>1, <1>2 DEF RunOf, DocumentOf
    <2>2. Ref(row) # NoVersion
      BY <1>1, <1>2, ActiveContext, RepositoryConstants
         DEF Ref, DraftRow, VersionRef, TypeInv, LocalTypeOK
    <2>3. \A v \in VersionsOf(id) \cup {row} :
            v.number <= row.number /\ v.document = DocumentOf(r)
      BY <1>2, <1>3, <1>5
    <2>4. Ref(row)' = Ref(row)
      BY DEF Ref
    <2>5. Newest(RunOf(r), DocumentOf(r), current[r])'
      BY <1>3, <2>1, <2>2, <2>3, <2>4 DEF Newest
    <2> QED
      BY <1>1, <2>5 DEF TextAt, DraftPoints
  <1>9. \A x \in RunId : x # id => Kept(x)
    BY <1>2, OthersKept DEF Step, OtherCall
  <1>10. \A o \in Runner : o # r /\ pc'[o] \in Working => Steady(o)
    BY OthersSteady DEF Step, OtherCall
  <1> QED
    BY <1>7, <1>8, <1>9, <1>10, TextFrame

(* Every step keeps the texts apart.                                         *)
LEMMA TextStep ==
    ASSUME TypeInv, WriterInv, FreshInv, TextInv, [Next]_vars PROVE TextInv'
  <1>1. ASSUME NEW r \in Runner, Step(r) \/ Call(r) \/ CallFails(r) \/ Crash(r)
        PROVE  TextInv'
    BY <1>1, RoundSteps, OtherText, PersistDraftText
  <1>2. CASE \/ \E u \in User, d \in Document : EditorWrites(u, d) \/ OwnerGrants(u, d)
             \/ UNCHANGED vars
    <2>1. \A id \in RunId : Kept(id)
      BY <1>2, OutsideKept
    <2>2. \A o \in Runner : pc'[o] \in Working => Steady(o)
      BY <1>2, OutsideSteady
    <2> QED
      BY <2>1, <2>2, TextFrame
  <1> QED
    BY <1>1, <1>2 DEF Next

(* Two consecutive versions of one run differ in text, whatever versions     *)
(* others stored between them.                                               *)
THEOREM DraftsMakeProgress == Spec => []ConsecutiveDraftsDiffer
  <1>1. TextInv => ConsecutiveDraftsDiffer
    BY DEF TextInv, DraftsDiffer, ConsecutiveDraftsDiffer
  <1>2. TypeInv /\ WriterInv /\ FreshInv /\ TextInv /\ [Next]_vars => TextInv'
    BY TextStep
  <1> QED
    BY <1>1, <1>2, InitText, FreshInvariant, PTL DEF Spec

-----------------------------------------------------------------------------
(* The memory decision of a run, from before it is taken to the point where  *)
(* it is carried out and said to be.                                         *)

Decisions(id) == {e \in EventsOf(id) : e.type = "memory_save_decided"}
SaidSaved(id) == \E x \in EventsOf(id) : x.type = "private_fact_saved"

Decided(id, detail, saved) ==
    \E d : Decisions(id) = {d} /\ d.detail = detail /\ facts[id] = saved

Undecided(id) == Decisions(id) = {} /\ facts[id] = 0 /\ ~ SaidSaved(id)
ToSave(id) == Decided(id, "save", 0) /\ ~ SaidSaved(id)
ToSay(id) == Decided(id, "save", 1) /\ ~ SaidSaved(id)
Settled(id) ==
    \/ Decided(id, "save", 1) /\ SaidSaved(id)
    \/ Decided(id, "no_save", 0) /\ ~ SaidSaved(id)

MemoryOf(id) ==
    /\ Undecided(id) \/ ToSave(id) \/ ToSay(id) \/ Settled(id)
    /\ StatusOf(id) = "completed" => Settled(id)

(* The decision is taken when there is no version yet, and settled before    *)
(* there is one.                                                             *)
MemoryAt(r, point) ==
    /\ point = "emit_memory_decided" => Undecided(RunOf(r))
    /\ point = "save_fact" => ToSave(RunOf(r))
    /\ point = "emit_fact_saved" => ToSay(RunOf(r))
    /\ point \in {"read_latest", "create_version"} => Settled(RunOf(r))
    /\ point \notin DraftPoints \cup EndPoints =>
            IF current[r] = NoVersion THEN Undecided(RunOf(r)) ELSE Settled(RunOf(r))

MemoryInv ==
    /\ \A id \in RunId : MemoryOf(id)
    /\ \A r \in Runner : pc[r] \in Working => MemoryAt(r, pc[r])

Remembered(id) == {e \in events' : e.run = id} = EventsOf(id) /\ facts'[id] = facts[id]

(* What a run with the same events and facts has decided and done.           *)
LEMMA RememberedStages ==
    ASSUME NEW id, Remembered(id)
    PROVE  /\ Undecided(id)' <=> Undecided(id)
           /\ ToSave(id)' <=> ToSave(id)
           /\ ToSay(id)' <=> ToSay(id)
           /\ Settled(id)' <=> Settled(id)
  <1>1. /\ EventsOf(id)' = EventsOf(id) /\ facts'[id] = facts[id]
    BY DEF Remembered, EventsOf
  <1>2. Decisions(id)' = Decisions(id) /\ (SaidSaved(id)' <=> SaidSaved(id))
    BY <1>1 DEF Decisions, SaidSaved
  <1>3. \A detail, n : Decided(id, detail, n)' <=> Decided(id, detail, n)
    BY <1>1, <1>2 DEF Decided
  <1> QED
    BY <1>1, <1>2, <1>3 DEF Undecided, ToSave, ToSay, Settled

(* It is enough to look at the runs written to and the runners that moved.   *)
LEMMA MemoryFrame ==
    ASSUME MemoryInv,
           \A id \in RunId :
                \/ /\ Remembered(id)
                   /\ StatusOf(id)' = "completed" => StatusOf(id) = "completed" \/ Settled(id)
                \/ MemoryOf(id)',
           \A o \in Runner : pc'[o] \in Working => Steady(o) \/ MemoryAt(o, pc[o])'
    PROVE  MemoryInv'
  <1>1. ASSUME NEW id \in RunId PROVE MemoryOf(id)'
    <2>1. CASE /\ Remembered(id)
               /\ StatusOf(id)' = "completed" => StatusOf(id) = "completed" \/ Settled(id)
      BY <2>1, RememberedStages DEF MemoryInv, MemoryOf
    <2> QED
      BY <2>1
  <1>2. ASSUME NEW o \in Runner, Steady(o) PROVE MemoryAt(o, pc[o])'
    <2>1. PICK id \in RunId : id = RunOf(o) /\ Remembered(id)
      BY <1>2 DEF Steady, Kept, Remembered
    <2>2. RunOf(o)' = id /\ pc'[o] = pc[o] /\ current'[o] = current[o]
      BY <1>2, <2>1 DEF Steady, RunOf
    <2>3. /\ Undecided(RunOf(o))' <=> Undecided(id)'
          /\ ToSave(RunOf(o))' <=> ToSave(id)'
          /\ ToSay(RunOf(o))' <=> ToSay(id)'
          /\ Settled(RunOf(o))' <=> Settled(id)'
      BY <2>2
    <2>4. MemoryAt(o, pc[o])
      BY <1>2 DEF Steady, MemoryInv
    <2> QED
      BY <2>1, <2>2, <2>3, <2>4, RememberedStages DEF MemoryAt
  <1> QED
    BY <1>1, <1>2 DEF MemoryInv

(* At first nothing is decided.                                              *)
LEMMA InitMemory == Init => MemoryInv
  <1> SUFFICES ASSUME Init PROVE MemoryInv
    OBVIOUS
  <1>1. \A id \in RunId : Undecided(id) /\ StatusOf(id) # "completed"
    BY DEF Init, Undecided, Decisions, SaidSaved, EventsOf, StatusOf
  <1> QED
    BY <1>1 DEF Init, MemoryInv, MemoryOf, Working, CallPoints, DecisionPoints,
          EmitPoints, HandoffPoints, ReadPoints, StatusPoints

(* The only events about the memory are the decision and, once it has been   *)
(* carried out, the word of it.                                              *)
LEMMA EmissionMemory ==
    ASSUME TypeInv, WriterInv, MemoryInv, NEW r \in Runner, Emission(r)
    PROVE  MemoryInv'
  <1>1. PICK from, type, version, detail, to :
            EmissionFrom(r, from, type, version, detail, to)
    BY EmissionShape
  <1>2. /\ pc[r] = from /\ pc[r] \in Working /\ pc'[r] = to
        /\ UNCHANGED <<runs, facts, context, current>>
    BY <1>1 DEF EmissionFrom, Emit, GoTo, Working, CallPoints, TypeInv, LocalTypeOK,
          progress
  <1>3. PICK id \in RunId : id = RunOf(r)
    BY <1>2, ActiveContext
  <1>4. PICK e : /\ events' = events \cup {e}
                 /\ e.run = id /\ e.type = type /\ e.detail = detail
    BY <1>1, <1>3 DEF EmissionFrom, Emit, AppendEvent
  <1>5. EventsOf(id)' = EventsOf(id) \cup {e}
    BY <1>4 DEF EventsOf
  <1>6. MemoryOf(id) /\ MemoryAt(r, from)
    BY <1>2 DEF MemoryInv
  <1>7. /\ RoundLeads(r, from, type, version, detail, to)
        /\ to \notin EndPoints => from \notin EndPoints
    BY <1>1 DEF EmissionFrom, Leads
  <1>8. StatusOf(id)' # "completed"
    BY <1>2, <1>3 DEF WriterInv, OwnsRun, StatusOf
  <1>9. RunOf(r)' = id /\ current'[r] = current[r]
    BY <1>2, <1>3 DEF RunOf
  <1>10. MemoryOf(id)' /\ MemoryAt(r, pc[r])'
    <2>1. CASE type = "memory_save_decided"
      <3>1. Undecided(id)
        BY <1>3, <1>6, <1>7, <2>1 DEF RoundLeads, MemoryAt
      <3>2. Decisions(id)' = {e} /\ facts'[id] = 0 /\ ~ SaidSaved(id)'
        BY <1>2, <1>4, <1>5, <2>1, <3>1 DEF Undecided, Decisions, SaidSaved
      <3>3. \/ to = "save_fact" /\ detail = "save"
            \/ to = "read_latest" /\ detail = "no_save"
        BY <1>7, <2>1 DEF RoundLeads, DraftPoints
      <3>4. CASE to = "save_fact" /\ detail = "save"
        <4>1. ToSave(id)'
          BY <1>4, <3>2, <3>4 DEF ToSave, Decided
        <4>2. ToSave(RunOf(r))'
          BY <1>9, <4>1
        <4> QED
          BY <1>2, <1>8, <3>4, <4>1, <4>2 DEF MemoryOf, MemoryAt, DraftPoints
      <3>5. CASE to = "read_latest" /\ detail = "no_save"
        <4>1. Settled(id)'
          BY <1>4, <3>2, <3>5 DEF Settled, Decided
        <4>2. Settled(RunOf(r))'
          BY <1>9, <4>1
        <4> QED
          BY <1>2, <1>8, <3>5, <4>1, <4>2 DEF MemoryOf, MemoryAt, DraftPoints
      <3> QED
        BY <3>3, <3>4, <3>5
    <2>2. CASE type = "private_fact_saved"
      <3>1. ToSay(id)
        BY <1>3, <1>6, <1>7, <2>2 DEF RoundLeads, MemoryAt
      <3>2. Decisions(id)' = Decisions(id) /\ SaidSaved(id)' /\ facts'[id] = facts[id]
        BY <1>2, <1>4, <1>5, <2>2 DEF Decisions, SaidSaved
      <3>3. to = "read_latest"
        BY <1>7, <2>2 DEF RoundLeads, DraftPoints
      <3>4. Settled(id)'
        BY <3>1, <3>2 DEF ToSay, Settled, Decided
      <3>5. Settled(RunOf(r))'
        BY <1>9, <3>4
      <3> QED
        BY <1>2, <1>8, <3>3, <3>4, <3>5 DEF MemoryOf, MemoryAt, DraftPoints
    <2>3. CASE type \notin {"memory_save_decided", "private_fact_saved"}
      <3>1. /\ Decisions(id)' = Decisions(id) /\ (SaidSaved(id)' <=> SaidSaved(id))
            /\ facts'[id] = facts[id]
        BY <1>2, <1>4, <1>5, <2>3 DEF Decisions, SaidSaved
      <3>2. \A x, n : Decided(id, x, n)' <=> Decided(id, x, n)
        BY <3>1 DEF Decided
      <3>3. /\ Undecided(id)' <=> Undecided(id)
            /\ ToSave(id)' <=> ToSave(id)
            /\ ToSay(id)' <=> ToSay(id)
            /\ Settled(id)' <=> Settled(id)
        BY <3>1, <3>2 DEF Undecided, ToSave, ToSay, Settled
      <3>4. /\ to \notin DraftPoints /\ from \notin DraftPoints
            /\ to \notin EndPoints => from \notin EndPoints
        BY <1>7, <2>3 DEF RoundLeads, DraftPoints
      <3>5. /\ Undecided(RunOf(r))' <=> Undecided(id)'
            /\ Settled(RunOf(r))' <=> Settled(id)'
        BY <1>9
      <3>6. to \notin EndPoints =>
                IF current[r] = NoVersion THEN Undecided(id) ELSE Settled(id)
        BY <1>3, <1>6, <3>4 DEF MemoryAt
      <3> QED
        BY <1>2, <1>6, <1>8, <1>9, <3>3, <3>4, <3>5, <3>6 DEF MemoryOf, MemoryAt, DraftPoints
    <2> QED
      BY <2>1, <2>2, <2>3
  <1>11. \A x \in RunId : x # id => Remembered(x) /\ StatusOf(x)' = StatusOf(x)
    BY <1>2, <1>3, OthersKept DEF Step, Kept, Remembered, StatusOf
  <1>12. \A o \in Runner : o # r /\ pc'[o] \in Working => Steady(o)
    BY OthersSteady DEF Step
  <1> QED
    BY <1>10, <1>11, <1>12, MemoryFrame

(* The fact is saved once, after the decision.                               *)
LEMMA SaveFactMemory ==
    ASSUME TypeInv, WriterInv, MemoryInv, NEW r \in Runner, SaveFact(r)
    PROVE  MemoryInv'
  <1>1. /\ pc[r] = "save_fact" /\ pc[r] \in Working /\ pc'[r] = "emit_fact_saved"
        /\ UNCHANGED <<events, runs, context>>
    BY DEF SaveFact, GoTo, repoVars, localVars, Working, CallPoints, TypeInv, LocalTypeOK
  <1>2. PICK id \in RunId : id = RunOf(r)
    BY <1>1, ActiveContext
  <1>3. ToSave(id) /\ StatusOf(id) = "running"
    BY <1>1, <1>2 DEF MemoryInv, MemoryAt, WriterInv, OwnsRun, StatusOf
  <1>4. /\ facts'[id] = facts[id] + 1
        /\ Decisions(id)' = Decisions(id) /\ ~ SaidSaved(id)'
        /\ StatusOf(id)' = "running" /\ RunOf(r)' = id
    BY <1>1, <1>2, <1>3
       DEF SaveFact, TypeInv, LocalTypeOK, Decisions, SaidSaved, EventsOf, StatusOf, RunOf, ToSave
  <1>5. ToSay(id)'
    BY <1>3, <1>4 DEF ToSave, ToSay, Decided
  <1>6. ToSay(RunOf(r))'
    BY <1>4, <1>5
  <1>7. MemoryOf(id)' /\ MemoryAt(r, pc[r])'
    BY <1>1, <1>4, <1>5, <1>6 DEF MemoryOf, MemoryAt, DraftPoints
  <1>8. \A x \in RunId : x # id => Remembered(x) /\ StatusOf(x)' = StatusOf(x)
    BY <1>1, <1>2, OthersKept DEF Step, OtherCall, Kept, Remembered, StatusOf
  <1>9. \A o \in Runner : o # r /\ pc'[o] \in Working => Steady(o)
    BY OthersSteady DEF Step, OtherCall
  <1> QED
    BY <1>7, <1>8, <1>9, MemoryFrame

(* The other steps neither decide nor save, and store a version only once    *)
(* the decision is settled.                                                  *)
LEMMA OtherMemory ==
    ASSUME TypeInv, WriterInv, FreshInv, CompletionInv, MemoryInv, NEW r \in Runner,
           \/ Rest(r) \/ TurnAction(r) \/ StartRun(r) \/ PersistDraft(r)
           \/ HandoffToCritic(r) \/ HandoffToExecutor(r) \/ HandoffAcceptance(r),
           \A id \in RunId : StatusOf(id) \in Terminal => Untouched(id)
    PROVE  MemoryInv'
  <1>1. UNCHANGED <<events, facts>>
    <2>1. CASE Rest(r)
      BY <2>1 DEF Rest, RunRefused, Crash, Call, SetCompleted, SetBlocked, SetFailed,
           SetStatus, repoVars
    <2>2. CASE TurnAction(r)
      BY <2>2, DecisionKeepsTables
         DEF TurnAction, CallFails, PushExecutorContext, PushCriticContext, Push,
           ReadRefused, ReadLatest, DraftRefused, Decide, repoVars
    <2>3. CASE StartRun(r) \/ PersistDraft(r)
      BY <2>3 DEF StartRun, PersistDraft, runTables
    <2>4. CASE HandoffToCritic(r) \/ HandoffToExecutor(r) \/ HandoffAcceptance(r)
      BY <2>4 DEF HandoffToCritic, HandoffToExecutor, HandoffAcceptance, Handoff
    <2> QED
      BY <2>1, <2>2, <2>3, <2>4
  <1>2. \A id \in RunId : Remembered(id)
    BY <1>1 DEF Remembered, EventsOf
  <1>3. \A id \in RunId : StatusOf(id)' = "completed" =>
            StatusOf(id) = "completed" \/ Settled(id)
    <2> SUFFICES ASSUME NEW id \in RunId, StatusOf(id)' = "completed",
                        StatusOf(id) # "completed"
                 PROVE  Settled(id)
      OBVIOUS
    <2>1. StatusOf(id) \notin Terminal
      <3>1. Untouched(id) => StatusOf(id)' = StatusOf(id)
        BY DEF Untouched, StatusOf
      <3> QED
        BY <3>1
    <2>2. CASE SetCompleted(r)
      <3>1. /\ pc[r] = "set_completed" /\ pc[r] \in Working /\ RunOf(r) \in RunId
        BY <2>2, ActiveContext DEF SetCompleted, SetStatus, Working, CallPoints, StatusPoints
      <3>2. id = RunOf(r)
        <4>1. id # RunOf(r) => runs'[id] = runs[id]
          BY <2>2 DEF SetCompleted, SetStatus, SetRunStatus, TypeInv, RepoTypeOK
        <4> QED
          BY <4>1 DEF StatusOf
      <3>3. OwnVersion(RunOf(r), current[r])
        BY <3>1 DEF CompletionInv, PathAt, DraftedAt, DraftedPoints
      <3>4. current[r] # NoVersion
        <4>1. PICK v \in versions : Ref(v) = current[r]
          BY <3>3 DEF OwnVersion, VersionsOf
        <4>2. Ref(v) \in VersionRef
          BY DEF TypeInv, RepoTypeOK, VersionRow, VersionRef, Ref
        <4> QED
          BY <4>1, <4>2, RepositoryConstants
      <3> QED
        BY <3>1, <3>2, <3>4 DEF MemoryInv, MemoryAt, DraftPoints, EndPoints
    <2>3. CASE SetBlocked(r) \/ SetFailed(r)
      <3>1. \E status \in {"blocked", "failed"} :
                runs' = [runs EXCEPT ![RunOf(r)].status = status,
                                     ![RunOf(r)].completedAt = TRUE]
        BY <2>3 DEF SetBlocked, SetFailed, SetStatus, SetRunStatus
      <3>2. PICK status \in {"blocked", "failed"} :
                runs' = [runs EXCEPT ![RunOf(r)].status = status,
                                     ![RunOf(r)].completedAt = TRUE]
        BY <3>1
      <3>3. runs[id] # NoRun
        BY <2>3, <3>2 DEF StatusOf, SetBlocked, SetFailed, SetStatus, SetRunStatus,
              InRunScope, TypeInv, RepoTypeOK
      <3>4. runs[id] \in RunRow
        BY <3>3 DEF TypeInv, RepoTypeOK
      <3>5. id # RunOf(r) => runs'[id] = runs[id]
        BY <3>2 DEF TypeInv, RepoTypeOK
      <3>6. id = RunOf(r) => runs'[id].status = status
        BY <3>2, <3>4 DEF TypeInv, RepoTypeOK, RunRow
      <3> QED
        BY <3>5, <3>6 DEF StatusOf
    <2>4. CASE ~ (SetCompleted(r) \/ SetBlocked(r) \/ SetFailed(r)) /\ ~ Emission(r)
      <3>1. StatusOf(id)' \in Terminal => StatusOf(id) \in Terminal
        BY <2>4, OtherSteps DEF Rest, TurnAction, Step, OtherCall
      <3> QED
        BY <2>1, <3>1 DEF Terminal
    <2>5. CASE Emission(r)
      <3>1. UNCHANGED runs
        <4>1. PICK from, type, version, detail, to :
                Emit(r, from, type, version, detail, to)
          BY <2>5, EmissionShape DEF EmissionFrom
        <4> QED
          BY <4>1 DEF Emit
      <3> QED
        BY <3>1 DEF StatusOf
    <2> QED
      BY <2>2, <2>3, <2>4, <2>5
  <1>4. ASSUME pc[r] \in Working, context'[r] = context[r]
        PROVE  /\ Undecided(RunOf(r))' <=> Undecided(RunOf(r))
               /\ ToSave(RunOf(r))' <=> ToSave(RunOf(r))
               /\ ToSay(RunOf(r))' <=> ToSay(RunOf(r))
               /\ Settled(RunOf(r))' <=> Settled(RunOf(r))
    <2>1. PICK id \in RunId : id = RunOf(r) /\ RunOf(r)' = id
      BY <1>4, ActiveContext DEF RunOf
    <2>2. /\ Undecided(RunOf(r))' <=> Undecided(id)'
          /\ ToSave(RunOf(r))' <=> ToSave(id)'
          /\ ToSay(RunOf(r))' <=> ToSay(id)'
          /\ Settled(RunOf(r))' <=> Settled(id)'
      BY <2>1
    <2> QED
      BY <1>2, <2>1, <2>2, RememberedStages
  <1>5. ASSUME pc'[r] \in Working PROVE MemoryAt(r, pc[r])'
    <2>1. CASE TurnAction(r)
      <3>1. Turn(r)
        BY <1>5, <2>1, TurnSteps
      <3>2. MemoryAt(r, pc[r])
        BY <3>1 DEF Turn, MemoryInv
      <3>3. current'[r] = current[r]
        BY <3>1 DEF Turn
      <3>4. pc'[r] = "emit_memory_decided" => Undecided(RunOf(r))
        BY <3>1, <3>2 DEF Turn, MemoryAt, DraftPoints, EndPoints
      <3>5. pc'[r] \in {"read_latest", "create_version"} => Settled(RunOf(r))
        BY <3>1, <3>2 DEF Turn, MemoryAt, DraftPoints, EndPoints
      <3>6. pc'[r] \notin DraftPoints \cup EndPoints =>
                IF current[r] = NoVersion THEN Undecided(RunOf(r)) ELSE Settled(RunOf(r))
        BY <3>1, <3>2 DEF Turn, MemoryAt
      <3>7. pc'[r] \notin {"save_fact", "emit_fact_saved"}
        BY <3>1 DEF Turn
      <3> QED
        BY <1>4, <3>1, <3>3, <3>4, <3>5, <3>6, <3>7 DEF MemoryAt, Turn
    <2>2. CASE StartRun(r)
      <3>1. /\ RunOf(r) \in RunId /\ runs[RunOf(r)] = NoRun /\ pc'[r] = "emit_started"
            /\ UNCHANGED <<context, current>>
            /\ current[r] = NoVersion
        BY <2>2, ContextType
           DEF StartRun, GoTo, CreateRun, CanCreateRun, localVars, progress, FreshInv,
               TypeInv, LocalTypeOK
      <3>2. PICK id \in RunId : id = RunOf(r) /\ RunOf(r)' = id
        BY <3>1 DEF RunOf
      <3>3. EventsOf(id) = {}
        BY <3>1, <3>2 DEF WriterInv, Unborn, EventsOf
      <3>4. Decisions(id) = {} /\ MemoryOf(id)
        BY <3>3 DEF Decisions, MemoryInv
      <3>5. Undecided(id)
        BY <3>4 DEF MemoryOf, ToSave, ToSay, Settled, Decided
      <3>6. Undecided(id)'
        BY <1>2, <3>5, RememberedStages
      <3>7. Undecided(RunOf(r))'
        BY <3>2, <3>6
      <3> QED
        BY <3>1, <3>7 DEF MemoryAt, DraftPoints
    <2>3. CASE PersistDraft(r)
      <3>1. /\ pc[r] = "create_version" /\ pc[r] \in Working
            /\ pc'[r] = "emit_version_created"
            /\ context' = context /\ current'[r] = Ref(DraftRow(r))
        BY <2>3 DEF PersistDraft, GoTo, Working, CallPoints, TypeInv, LocalTypeOK
      <3>2. Ref(DraftRow(r)) # NoVersion
        BY <3>1, ActiveContext, RepositoryConstants
           DEF Ref, DraftRow, VersionRef, TypeInv, LocalTypeOK
      <3>3. Settled(RunOf(r))
        BY <3>1 DEF MemoryInv, MemoryAt
      <3> QED
        BY <1>4, <3>1, <3>2, <3>3 DEF MemoryAt, DraftPoints
    <2>4. CASE HandoffToCritic(r) \/ HandoffToExecutor(r) \/ HandoffAcceptance(r)
      <3>1. /\ pc[r] \in HandoffPoints /\ pc[r] \in Working
            /\ context' = context /\ current' = current
            /\ pc'[r] \notin DraftPoints
        BY <2>4 DEF HandoffToCritic, HandoffToExecutor, HandoffAcceptance, Handoff, GoTo,
              progress, Working, CallPoints, HandoffPoints, DraftPoints, TypeInv, LocalTypeOK
      <3>2. MemoryAt(r, pc[r]) /\ pc[r] \notin DraftPoints \cup EndPoints
        BY <3>1 DEF MemoryInv, HandoffPoints, DraftPoints, EndPoints
      <3> QED
        BY <1>4, <3>1, <3>2 DEF MemoryAt, DraftPoints
    <2>5. CASE Rest(r)
      BY <1>5, <2>5, RestingSteps
    <2> QED
      BY <2>1, <2>2, <2>3, <2>4, <2>5
  <1>6. \A o \in Runner : o # r /\ pc'[o] \in Working => Steady(o)
    BY OthersSteady DEF Step, OtherCall, Rest, TurnAction
  <1> QED
    BY <1>2, <1>3, <1>5, <1>6, MemoryFrame

(* Every step honours the decisions.                                         *)
LEMMA MemoryStep ==
    ASSUME TypeInv, WriterInv, FreshInv, CompletionInv, MemoryInv, [Next]_vars
    PROVE  MemoryInv'
  <1>1. \A id \in RunId : StatusOf(id) \in Terminal => Untouched(id)
    BY ClosedRuns
  <1>2. ASSUME NEW r \in Runner, Step(r) \/ Call(r) \/ CallFails(r) \/ Crash(r)
        PROVE  MemoryInv'
    BY <1>1, <1>2, RoundSteps, EmissionMemory, SaveFactMemory, OtherMemory
  <1>3. CASE \/ \E u \in User, d \in Document : EditorWrites(u, d) \/ OwnerGrants(u, d)
             \/ UNCHANGED vars
    <2>1. \A id \in RunId : Remembered(id)
      BY <1>3, OutsideKept DEF Kept, Remembered
    <2>2. \A o \in Runner : pc'[o] \in Working => Steady(o)
      BY <1>3, OutsideSteady
    <2>3. \A id \in RunId : StatusOf(id)' = StatusOf(id)
      BY <1>3 DEF EditorWrites, OwnerGrants, runTables, vars, repoVars, StatusOf
    <2> QED
      BY <2>1, <2>2, <2>3, MemoryFrame
  <1> QED
    BY <1>2, <1>3 DEF Next

(* A run decides about its private memory at most once, saves a fact at most *)
(* once and only after deciding so, and a completed run has carried its      *)
(* decision out and said so.                                                 *)
THEOREM MemoryDecisionKept == Spec => []MemoryDecisionHonoured
  <1>1. MemoryInv => MemoryDecisionHonoured
    <2> SUFFICES ASSUME MemoryInv, NEW id \in RunId
                 PROVE  /\ Cardinality(Decisions(id)) <= 1
                        /\ facts[id] <= Cardinality({e \in Decisions(id) : e.detail = "save"})
                        /\ StatusOf(id) = "completed" =>
                            /\ Cardinality(Decisions(id)) = 1
                            /\ \A e \in Decisions(id) :
                                (e.detail = "save") =
                                    (\E x \in EventsOf(id) : x.type = "private_fact_saved")
                            /\ \A e \in Decisions(id) : e.detail = "save" => facts[id] = 1
      BY DEF MemoryDecisionHonoured, Decisions
    <2>1. MemoryOf(id)
      BY DEF MemoryInv
    <2>2. CASE Undecided(id)
      <3>1. Decisions(id) = {} /\ {e \in Decisions(id) : e.detail = "save"} = {}
            /\ facts[id] = 0
        BY <2>2 DEF Undecided
      <3>2. ~ Settled(id)
        BY <3>1 DEF Settled, Decided
      <3>3. Cardinality({}) = 0
        BY FS_EmptySet
      <3> QED
        BY <2>1, <3>1, <3>2, <3>3 DEF MemoryOf
    <2>3. CASE \E n \in {0, 1} : Decided(id, "save", n)
      <3>1. PICK d : Decisions(id) = {d} /\ d.detail = "save" /\ facts[id] \in {0, 1}
        BY <2>3 DEF Decided
      <3>2. {e \in Decisions(id) : e.detail = "save"} = {d}
        BY <3>1
      <3>3. Cardinality({d}) = 1
        BY FS_Singleton
      <3>4. Settled(id) => facts[id] = 1 /\ SaidSaved(id)
        BY <3>1 DEF Settled, Decided
      <3>5. Cardinality(Decisions(id)) = 1 /\ facts[id] <= 1
        BY <3>1, <3>3
      <3>6. Settled(id) => \A e \in Decisions(id) :
                (e.detail = "save") = (\E x \in EventsOf(id) : x.type = "private_fact_saved")
        <4>1. \A e \in Decisions(id) : e.detail = "save"
          BY <3>1
        <4> QED
          BY <3>4, <4>1 DEF SaidSaved
      <3>7. facts[id] <= Cardinality({e \in Decisions(id) : e.detail = "save"})
        BY <3>2, <3>3, <3>5
      <3>8. Cardinality(Decisions(id)) <= 1
        BY <3>5
      <3>9. StatusOf(id) = "completed" => Settled(id) /\ facts[id] = 1
        BY <2>1, <3>4 DEF MemoryOf
      <3> QED
        BY ZenonT(30), <3>5, <3>6, <3>7, <3>8, <3>9
    <2>4. CASE Decided(id, "no_save", 0) /\ ~ SaidSaved(id)
      <3>1. PICK d : Decisions(id) = {d} /\ d.detail = "no_save" /\ facts[id] = 0
        BY <2>4 DEF Decided
      <3>2. {e \in Decisions(id) : e.detail = "save"} = {}
        BY <3>1
      <3>3. Cardinality({d}) = 1 /\ Cardinality({}) = 0
        BY FS_Singleton, FS_EmptySet
      <3>4. \A e \in Decisions(id) :
                (e.detail = "save") = (\E x \in EventsOf(id) : x.type = "private_fact_saved")
        <4>1. \A e \in Decisions(id) : e.detail # "save"
          BY <3>1
        <4> QED
          BY <2>4, <4>1 DEF SaidSaved
      <3>5. Cardinality(Decisions(id)) = 1 /\ \A e \in Decisions(id) : e.detail # "save"
        BY <3>1, <3>3
      <3>6. facts[id] <= Cardinality({e \in Decisions(id) : e.detail = "save"})
        BY <3>1, <3>2, <3>3
      <3>7. Cardinality(Decisions(id)) <= 1
        BY <3>5
      <3> QED
        BY ZenonT(30), <3>4, <3>5, <3>6, <3>7
    <2> QED
      BY <2>1, <2>2, <2>3, <2>4 DEF MemoryOf, ToSave, ToSay, Settled
  <1>2. TypeInv /\ WriterInv /\ FreshInv /\ CompletionInv /\ MemoryInv /\ [Next]_vars
            => MemoryInv'
    BY MemoryStep
  <1> QED
    BY <1>1, <1>2, InitMemory, FreshInvariant, CompletionInvariant, PTL DEF Spec
-----------------------------------------------------------------------------
(* Progress.  A run has a number of stages to go, which every step of its    *)
(* runner lowers and no step of another changes; and nothing that a run has  *)
(* to write is ever refused.                                                 *)

(* A revision starts a round, which is longer than what is left of the last  *)
(* one.                                                                      *)
RoundLength == 36

Stage ==
    [create_run |-> 36, emit_started |-> 35,
     handoff_executor |-> 35, emit_handoff_executor |-> 34, emit_revision_requested |-> 33,
     push_executor |-> 32, emit_executor_context |-> 31,
     executor_turn |-> 30, executor_reply |-> 29, executor_outcome |-> 26,
     emit_memory_decided |-> 25, save_fact |-> 24, emit_fact_saved |-> 23,
     read_latest |-> 22, create_version |-> 21, emit_version_created |-> 20,
     handoff_critic |-> 19, emit_handoff_critic |-> 18,
     push_critic |-> 17, emit_critic_context |-> 16,
     critic_turn |-> 15, critic_reply |-> 14, critic_outcome |-> 11,
     emit_review |-> 10, transition |-> 9,
     handoff_acceptance |-> 8, emit_handoff_acceptance |-> 7,
     emit_grounding_rejected |-> 5, emit_limit_reached |-> 5,
     emit_completed |-> 4, set_completed |-> 3,
     emit_blocked |-> 4, set_blocked |-> 3,
     emit_failed |-> 2, set_failed |-> 1]

(* Approvals are requested at three stages. *)
GateStage == [executor |-> 27, critic |-> 12, final |-> 5]

StageAt(r, point) ==
    IF point = "approval_gate" THEN GateStage[asking[r]]
    ELSE IF point = "emit_approval_requested" THEN GateStage[asking[r]] + 1
    ELSE Stage[point]

Running == Working \cup {"create_run"}

StepsLeft(r) ==
    IF pc[r] \in Running
    THEN RoundLength * (MaxRevisions - revisionCount[r]) + StageAt(r, pc[r])
    ELSE 0

StepsOfARun == RoundLength * (MaxRevisions + 1)

(* What a runner does by itself, or what happens to it, takes it to a later  *)
(* stage or to the next round, or ends its run().                            *)
GoesOn(r) ==
    /\ pc[r] \in Running
    /\ \/ pc'[r] \in {"returned", "crashed"}
       \/ /\ pc'[r] \in Working
          /\ revisionCount'[r] = revisionCount[r]
          /\ StageAt(r, pc[r])' < StageAt(r, pc[r])
       \/ /\ pc[r] = "transition" /\ pc'[r] = "handoff_executor"
          /\ revisionCount'[r] = revisionCount[r] + 1

(* There is a stage for every point, below the length of a round.            *)
LEMMA StageTypes ==
    ASSUME TypeInv, NEW r \in Runner, pc[r] \in Running
    PROVE  StageAt(r, pc[r]) \in 1 .. RoundLength
  <1>1. pc[r] \in ApprovalPoints => asking[r] \in {"executor", "critic", "final"}
    BY DEF TypeInv, Control, ControlAt
  <1>2. CASE pc[r] \in ApprovalPoints
    BY <1>1, <1>2 DEF ApprovalPoints, StageAt, GateStage, RoundLength
  <1>3. CASE pc[r] \notin ApprovalPoints
    BY <1>3 DEF Running, Working, CallPoints, DecisionPoints, EmitPoints, HandoffPoints,
       ReadPoints, StatusPoints, ApprovalPoints, StageAt, Stage, RoundLength
  <1> QED
    BY <1>2, <1>3

(* Every event is recorded on the way to a later stage.                      *)
LEMMA EmissionGoesOn ==
    ASSUME TypeInv, NEW r \in Runner, Emission(r) PROVE GoesOn(r)
  <1>1. ASSUME NEW from, NEW type, NEW version, NEW detail, NEW to,
               Emit(r, from, type, version, detail, to)
        PROVE  /\ pc[r] = from /\ pc'[r] = to
               /\ asking'[r] = asking[r] /\ revisionCount'[r] = revisionCount[r]
    BY <1>1 DEF Emit, GoTo, TypeInv, LocalTypeOK, replyVars, progress
  <1>2. pc[r] \in Working /\ pc'[r] \in Working
    BY EmissionShape, <1>1 DEF EmissionFrom, Working, CallPoints
  <1>3. /\ pc[r] \in ApprovalPoints => asking[r] \in {"executor", "critic", "final"}
        /\ pc[r] \in AcceptancePoints => asking[r] = "final"
    BY DEF TypeInv, Control, ControlAt
  <1> USE DEF StageAt, Stage, GateStage, ApprovalPoints, AcceptancePoints
  <1>4. CASE EmitRunStarted(r) \/ EmitExecutorContext(r) \/ EmitCriticContext(r)
                \/ ExecutorTurn(r) \/ CriticTurn(r)
    BY <1>1, <1>2, <1>4 DEF EmitRunStarted, EmitExecutorContext, EmitCriticContext,
       ExecutorTurn, CriticTurn, GoesOn, Running
  <1>5. CASE EmitMemoryDecided(r)
    <2>1. PICK save \in SavesFact :
            Emit(r, "emit_memory_decided", "memory_save_decided", NoVersion,
                 IF save THEN "save" ELSE "no_save",
                 IF save THEN "save_fact" ELSE "read_latest")
      BY <1>5 DEF EmitMemoryDecided
    <2>2. pc[r] = "emit_memory_decided" /\ pc'[r] \in {"save_fact", "read_latest"}
            /\ revisionCount'[r] = revisionCount[r]
      BY <1>1, <2>1
    <2> QED
      BY <1>2, <2>2 DEF GoesOn, Running
  <1>6. CASE EmitFactSaved(r) \/ EmitVersionCreated(r) \/ EmitHandoffToCritic(r)
                \/ EmitGroundingRejected(r) \/ EmitReview(r)
    BY <1>1, <1>2, <1>6 DEF EmitFactSaved, EmitVersionCreated, EmitHandoffToCritic,
       EmitGroundingRejected, EmitReview, GoesOn, Running
  <1>7. CASE EmitLimitReached(r) \/ EmitHandoffToExecutor(r) \/ EmitRevisionRequested(r)
    BY <1>1, <1>2, <1>7 DEF EmitLimitReached, EmitHandoffToExecutor, EmitRevisionRequested,
       GoesOn, Running
  <1>8. CASE EmitHandoffAcceptance(r) \/ EmitApprovalRequested(r)
    BY <1>1, <1>2, <1>3, <1>8 DEF EmitHandoffAcceptance, EmitApprovalRequested,
       GoesOn, Running
  <1>9. CASE Approve(r)
    BY <1>1, <1>2, <1>3, <1>9 DEF Approve, AfterApproval, GoesOn, Running
  <1>10. CASE Decline(r)
    BY <1>1, <1>2, <1>3, <1>10 DEF Decline, GoesOn, Running
  <1>11. CASE EmitRunCompleted(r) \/ EmitRunBlocked(r) \/ EmitRunFailed(r)
    BY <1>1, <1>2, <1>11 DEF EmitRunCompleted, EmitRunBlocked, EmitRunFailed, GoesOn, Running
  <1> QED
    BY <1>4, <1>5, <1>6, <1>7, <1>8, <1>9, <1>10, <1>11 DEF Emission

(* So do decisions; a revision that is requested starts the next round.      *)
LEMMA DecisionGoesOn ==
    ASSUME TypeInv, NEW r \in Runner, Decision(r) PROVE GoesOn(r)
  <1>1. {"executor_turn", "executor_reply", "executor_outcome", "critic_turn", "critic_reply",
         "critic_outcome", "transition", "approval_gate", "emit_approval_requested",
         "emit_failed", "emit_blocked", "emit_memory_decided", "read_latest",
         "emit_grounding_rejected", "emit_review", "handoff_acceptance",
         "handoff_executor", "emit_limit_reached"} \subseteq Working
    BY DEF Working, CallPoints, DecisionPoints, EmitPoints, HandoffPoints, ReadPoints
  <1>2. pc[r] \in ApprovalPoints => asking[r] \in {"executor", "critic", "final"}
    BY DEF TypeInv, Control, ControlAt
  <1> USE <1>1 DEF StageAt, Stage, GateStage, GoesOn, Running, Decide, GoTo,
          TypeInv, LocalTypeOK, localVars, counters, progress, replyVars
  <1>3. CASE RoleFails(r)
    BY <1>3 DEF RoleFails
  <1>4. CASE GateFails(r)
    BY <1>2, <1>4 DEF GateFails, ApprovalPoints
  <1>5. CASE ExecutorCompletes(r) \/ ExecutorBlocks(r)
    BY <1>5 DEF ExecutorCompletes, ExecutorBlocks, Reply
  <1>6. CASE ExecutorOutcome(r)
    BY <1>6 DEF ExecutorOutcome
  <1>7. CASE CriticAccepts(r) \/ CriticRevises(r) \/ CriticBlocks(r)
    BY <1>7 DEF CriticAccepts, CriticRevises, CriticBlocks, Reply
  <1>8. CASE CriticOutcome(r)
    BY <1>8 DEF CriticOutcome
  <1>9. CASE AcceptDraft(r)
    BY <1>9 DEF AcceptDraft
  <1>10. CASE ReachRevisionLimit(r) \/ StallRevision(r)
    BY <1>10 DEF ReachRevisionLimit, StallRevision
  <1>11. CASE RequestRevision(r)
    BY <1>11 DEF RequestRevision
  <1> QED
    BY <1>3, <1>4, <1>5, <1>6, <1>7, <1>8, <1>9, <1>10, <1>11 DEF Decision

(* So do the other calls and what fails of them, and a crash.                *)
LEMMA CallGoesOn ==
    ASSUME TypeInv, NEW r \in Runner, OtherCall(r) \/ CallFails(r) \/ Crash(r)
    PROVE  GoesOn(r)
  <1>1. /\ pc[r] \in ApprovalPoints => asking[r] \in {"executor", "critic", "final"}
        /\ CallPoints \subseteq Working
    BY DEF TypeInv, Control, ControlAt, Working
  <1> USE <1>1 DEF StageAt, Stage, GateStage, GoesOn, Running, Decide, GoTo, Returns,
          TypeInv, LocalTypeOK, localVars, counters, progress, replyVars
  <1>2. CASE StartRun(r) \/ RunRefused(r)
    BY <1>2 DEF StartRun, RunRefused, CallPoints, EmitPoints
  <1>3. CASE PushExecutorContext(r) \/ PushCriticContext(r)
    BY <1>3 DEF PushExecutorContext, PushCriticContext, Push, CallPoints, EmitPoints,
       ReadPoints
  <1>4. CASE ReadRefused(r)
    BY <1>4 DEF ReadRefused, CallPoints, EmitPoints, ReadPoints
  <1>5. CASE SaveFact(r)
    BY <1>5 DEF SaveFact, CallPoints, EmitPoints
  <1>6. CASE ReadLatest(r) \/ PersistDraft(r) \/ DraftRefused(r)
    BY <1>6 DEF ReadLatest, PersistDraft, DraftRefused, CallPoints, EmitPoints, ReadPoints
  <1>7. CASE HandoffToCritic(r) \/ HandoffToExecutor(r) \/ HandoffAcceptance(r)
    BY <1>7 DEF HandoffToCritic, HandoffToExecutor, HandoffAcceptance, Handoff, CallPoints,
       EmitPoints, HandoffPoints
  <1>8. CASE SetCompleted(r) \/ SetBlocked(r) \/ SetFailed(r)
    BY <1>8 DEF SetCompleted, SetBlocked, SetFailed, SetStatus, CallPoints, StatusPoints
  <1>9. CASE CallFails(r)
    <2>1. CASE /\ pc[r] \in CallPoints \ {"emit_failed", "set_failed"}
               /\ pc' = [pc EXCEPT ![r] = "emit_failed"]
      <3>1. StageAt(r, pc[r]) > 2
        BY <2>1 DEF CallPoints, EmitPoints, HandoffPoints, ReadPoints, StatusPoints,
           ApprovalPoints
      <3>2. /\ pc[r] \in Working /\ pc'[r] = "emit_failed" /\ "emit_failed" \in Working
            /\ revisionCount'[r] = revisionCount[r]
        BY <1>9, <2>1 DEF CallFails, CallPoints, EmitPoints
      <3> QED
        BY <3>1, <3>2
    <2>2. CASE ~ (/\ pc[r] \in CallPoints \ {"emit_failed", "set_failed"}
                  /\ pc' = [pc EXCEPT ![r] = "emit_failed"])
      BY <1>9, <2>2 DEF CallFails, CallPoints, EmitPoints, StatusPoints
    <2> QED
      BY <2>1, <2>2
  <1>10. CASE Crash(r)
    BY <1>10 DEF Crash
  <1> QED
    BY <1>2, <1>3, <1>4, <1>5, <1>6, <1>7, <1>8, <1>9, <1>10 DEF OtherCall


(* A runner is never behind its budget, so that it has steps left until it   *)
(* returns.                                                                  *)
LEMMA StepsLeftTypes ==
    ASSUME TypeInv, FreshInv, BudgetInv, NEW r \in Runner
    PROVE  /\ StepsLeft(r) \in 0 .. StepsOfARun
           /\ pc[r] \in Running => revisionCount[r] \in 0 .. MaxRevisions /\ StepsLeft(r) > 0
  <1>1. CASE pc[r] \in Running
    <2>1. revisionCount[r] \in Nat /\ MaxRevisions \in Nat
      BY WorkflowConstants DEF TypeInv, LocalTypeOK
    <2>2. revisionCount[r] <= MaxRevisions
      BY <1>1, <2>1 DEF Running, FreshInv, BudgetInv, CountAt
    <2>3. StageAt(r, pc[r]) \in 1 .. RoundLength
      BY <1>1, StageTypes
    <2> QED
      BY <1>1, <2>1, <2>2, <2>3 DEF StepsLeft, StepsOfARun, RoundLength
  <1>2. CASE pc[r] \notin Running
    BY <1>2, WorkflowConstants DEF StepsLeft, StepsOfARun, RoundLength
  <1> QED
    BY <1>1, <1>2

(* Every step of a runner, and every failure, lowers the number.             *)
LEMMA StepsLess ==
    ASSUME TypeInv, TypeInv', FreshInv, FreshInv', BudgetInv, BudgetInv',
           NEW r \in Runner, Step(r) \/ CallFails(r) \/ Crash(r)
    PROVE  StepsLeft(r)' < StepsLeft(r)
  <1>1. GoesOn(r)
    BY EmissionGoesOn, DecisionGoesOn, CallGoesOn DEF Step
  <1>2. /\ revisionCount[r] \in 0 .. MaxRevisions
        /\ StageAt(r, pc[r]) \in 1 .. RoundLength
        /\ StepsLeft(r) > 0
        /\ StepsLeft(r) = RoundLength * (MaxRevisions - revisionCount[r]) + StageAt(r, pc[r])
    BY <1>1, StepsLeftTypes, StageTypes DEF GoesOn, StepsLeft
  <1>3. MaxRevisions \in Nat
    BY WorkflowConstants
  <1>4. CASE pc'[r] \in {"returned", "crashed"}
    <2>1. pc'[r] \notin Running
      BY <1>4 DEF Running, Working, CallPoints, DecisionPoints, EmitPoints, HandoffPoints,
         ReadPoints, StatusPoints
    <2>2. StepsLeft(r)' = 0
      BY <2>1 DEF StepsLeft, Running, Working, CallPoints, DecisionPoints
    <2> QED
      BY <1>2, <2>2
  <1>5. ASSUME pc'[r] \in Working
        PROVE  /\ StageAt(r, pc[r])' \in 1 .. RoundLength
               /\ StepsLeft(r)' = RoundLength * (MaxRevisions - revisionCount'[r])
                                        + StageAt(r, pc[r])'
    <2>1. (pc[r] \in Running)'
      BY <1>5 DEF Running, Working, CallPoints, DecisionPoints
    <2>2. (StageAt(r, pc[r]) \in 1 .. RoundLength)'
      BY <2>1, StageTypes, PTL
    <2> QED
      BY <2>1, <2>2 DEF StepsLeft, RoundLength
  <1>6. CASE /\ pc'[r] \in Working
             /\ revisionCount'[r] = revisionCount[r]
             /\ StageAt(r, pc[r])' < StageAt(r, pc[r])
    BY <1>2, <1>3, <1>5, <1>6 DEF RoundLength
  <1>7. CASE /\ pc[r] = "transition" /\ pc'[r] = "handoff_executor"
             /\ revisionCount'[r] = revisionCount[r] + 1
    <2>1. pc'[r] \in Working
      BY <1>7 DEF Working, CallPoints, HandoffPoints
    <2>2. StageAt(r, pc[r]) = 9 /\ StageAt(r, pc[r])' = 35
      BY <1>7 DEF StageAt, Stage
    <2> QED
      BY <1>2, <1>3, <1>5, <1>7, <2>1, <2>2 DEF RoundLength
  <1> QED
    BY <1>1, <1>4, <1>6, <1>7 DEF GoesOn


(* Only a new call of run() raises it: whoever else acts, whatever fails.     *)
RunsShorten ==
    [][ \A r \in Runner :
            /\ Step(r) \/ CallFails(r) \/ Crash(r) => StepsLeft(r)' < StepsLeft(r)
            /\ Call(r) \/ StepsLeft(r)' <= StepsLeft(r)
      ]_vars

(* Steps of others leave it as it is.                                        *)
LEMMA StepsLeftFrame ==
    ASSUME TypeInv, [Next]_vars, NEW r \in Runner,
           ~ (Step(r) \/ Call(r) \/ CallFails(r) \/ Crash(r))
    PROVE  StepsLeft(r)' = StepsLeft(r)
  <1>1. pc'[r] = pc[r] /\ asking'[r] = asking[r] /\ revisionCount'[r] = revisionCount[r]
    <2>1. ASSUME NEW o \in Runner, Step(o) \/ Call(o) \/ CallFails(o) \/ Crash(o)
          PROVE  pc'[r] = pc[r] /\ asking'[r] = asking[r] /\ revisionCount'[r] = revisionCount[r]
      BY <2>1, LocalStep DEF Local
    <2>2. CASE \/ \E u \in User, d \in Document : EditorWrites(u, d) \/ OwnerGrants(u, d)
               \/ UNCHANGED vars
      BY <2>2 DEF EditorWrites, OwnerGrants, localVars, vars, progress, replyVars
    <2> QED
      BY <2>1, <2>2 DEF Next
  <1> QED
    BY <1>1 DEF StepsLeft, StageAt, Running, Working, CallPoints, DecisionPoints

(* One call of run() takes at most RoundLength steps for each round that the *)
(* revision limit leaves it, whatever roles, gate and database answer: this   *)
(* is what bounds it in RunReturns, for every limit.                          *)
THEOREM RunsAreBounded ==
    Spec => [](\A r \in Runner : StepsLeft(r) \in 0 .. StepsOfARun) /\ RunsShorten
  <1> DEFINE Inv == TypeInv /\ WriterInv /\ FreshInv /\ BudgetInv
             Shorten == \A r \in Runner :
                /\ Step(r) \/ CallFails(r) \/ Crash(r) => StepsLeft(r)' < StepsLeft(r)
                /\ Call(r) \/ StepsLeft(r)' <= StepsLeft(r)
  <1>1. Init => BudgetInv
    BY InitBudget
  <1>2. TypeInv /\ WriterInv /\ FreshInv /\ BudgetInv /\ [Next]_vars => BudgetInv'
    BY BudgetStep
  <1>3. Spec => []Inv
    BY <1>1, <1>2, FreshInvariant, PTL DEF Spec
  <1>4. Inv => \A r \in Runner : StepsLeft(r) \in 0 .. StepsOfARun
    BY StepsLeftTypes
  <1>5. Inv /\ Inv' /\ [Next]_vars => Shorten
    <2> SUFFICES ASSUME Inv, Inv', [Next]_vars, NEW r \in Runner
                 PROVE  /\ Step(r) \/ CallFails(r) \/ Crash(r) => StepsLeft(r)' < StepsLeft(r)
                        /\ Call(r) \/ StepsLeft(r)' <= StepsLeft(r)
      OBVIOUS
    <2>1. StepsLeft(r) \in Nat /\ StepsLeft(r)' \in Nat
      <3>1. StepsLeft(r) \in 0 .. StepsOfARun /\ (StepsLeft(r) \in 0 .. StepsOfARun)'
        BY StepsLeftTypes, PTL
      <3> QED
        BY <3>1, WorkflowConstants DEF StepsOfARun, RoundLength
    <2>2. Step(r) \/ CallFails(r) \/ Crash(r) => StepsLeft(r)' < StepsLeft(r)
      BY StepsLess
    <2> QED
      BY <2>1, <2>2, StepsLeftFrame
  <1> QED
    BY <1>3, <1>4, <1>5, PTL DEF Spec, RunsShorten


(* What an active runner names exists: the current version from the first    *)
(* draft on, the one it was shown from the first context on; and the reply   *)
(* that it is about to act upon is one of the role that was asked.            *)
NamesAt(r, point) ==
    /\ VersionResolves(DocumentOf(r), current[r])
    /\ point \notin {"emit_started", "push_executor"} \cup EndPoints =>
            VersionResolves(DocumentOf(r), pushed[r])

RepliedAt(r, point) ==
    /\ point = "executor_outcome" \/ (point \in ApprovalPoints /\ asking[r] = "executor") =>
            reply[r] \in {"complete", "blocked"}
    /\ point = "critic_outcome" \/ (point \in ApprovalPoints /\ asking[r] = "critic") =>
            reply[r] \in {"accept", "revise", "ungrounded", "blocked"}

NamesInv ==
    \A r \in Runner : pc[r] \in Working => NamesAt(r, pc[r]) /\ RepliedAt(r, pc[r])

(* A version that exists goes on existing.                                   *)
LEMMA ResolvesStays ==
    ASSUME versions \subseteq versions', NEW r \in Runner, NEW o \in Runner,
           context'[o] = context[r]
    PROVE  /\ VersionResolves(DocumentOf(r), current[r]) /\ current'[o] = current[r] =>
                VersionResolves(DocumentOf(o), current[o])'
           /\ VersionResolves(DocumentOf(r), pushed[r]) /\ pushed'[o] = pushed[r] =>
                VersionResolves(DocumentOf(o), pushed[o])'
  BY DEF VersionResolves, DocumentOf, Ref

(* Events name what exists, and lead to the outcome that was approved.       *)
LEMMA EmissionNames ==
    ASSUME TypeInv, NamesInv, NEW r \in Runner, Emission(r)
    PROVE  NamesAt(r, pc[r])' /\ RepliedAt(r, pc[r])'
  <1>1. PICK from, type, version, detail, to :
            EmissionFrom(r, from, type, version, detail, to)
    BY EmissionShape
  <1>2. /\ pc[r] = from /\ pc'[r] = to /\ pc[r] \in Working
        /\ UNCHANGED <<versions, context, current, pushed, reply, asking>>
    BY <1>1 DEF EmissionFrom, Emit, GoTo, TypeInv, LocalTypeOK, Working, CallPoints,
       progress, reading, replyVars
  <1>3. NamesAt(r, pc[r]) /\ RepliedAt(r, pc[r])
    BY <1>2 DEF NamesInv
  <1>4. from \in {"emit_started", "push_executor"} \cup EndPoints =>
            to \in {"emit_started", "push_executor"} \cup EndPoints
    BY <1>1 DEF EmissionFrom, Leads, EvidenceLeads, EmitPoints
  <1>5. NamesAt(r, pc[r])'
    BY <1>2, <1>3, <1>4, ResolvesStays DEF NamesAt
  <1>6. RepliedAt(r, pc[r])'
    <2>1. CASE EmitHandoffAcceptance(r)
      <3>1. asking[r] = "final"
        BY <2>1 DEF EmitHandoffAcceptance, Emit, GoTo, TypeInv, Control, ControlAt,
           AcceptancePoints
      <3>2. pc'[r] = "emit_approval_requested"
        BY <2>1 DEF EmitHandoffAcceptance, Emit, GoTo, TypeInv, LocalTypeOK
      <3> QED
        BY <1>2, <3>1, <3>2 DEF RepliedAt
    <2>2. CASE EmitApprovalRequested(r)
      <3>1. pc[r] = "emit_approval_requested" /\ pc'[r] = "approval_gate"
        BY <2>2 DEF EmitApprovalRequested, Emit, GoTo, TypeInv, LocalTypeOK
      <3> QED
        BY <1>2, <1>3, <3>1 DEF RepliedAt, ApprovalPoints
    <2>3. CASE Approve(r)
      <3>1. pc[r] = "approval_gate" /\ pc'[r] = AfterApproval(r)
        BY <2>3 DEF Approve, Emit, GoTo, TypeInv, LocalTypeOK
      <3>2. asking[r] \in {"executor", "critic", "final"}
        BY <3>1 DEF TypeInv, Control, ControlAt, ApprovalPoints
      <3> QED
        BY <1>2, <1>3, <3>1, <3>2 DEF RepliedAt, ApprovalPoints, AfterApproval
    <2>4. CASE ~ (EmitHandoffAcceptance(r) \/ EmitApprovalRequested(r) \/ Approve(r))
      <3>1. pc'[r] \notin {"executor_outcome", "critic_outcome"} \cup ApprovalPoints
        <4>1. ASSUME NEW f, NEW ty, NEW ve, NEW de, NEW t, Emit(r, f, ty, ve, de, t)
              PROVE  pc'[r] = t
          BY <4>1 DEF Emit, GoTo, TypeInv, LocalTypeOK
        <4>2. CASE EmitMemoryDecided(r)
          <5>1. pc'[r] \in {"save_fact", "read_latest"}
            BY <4>1, <4>2 DEF EmitMemoryDecided
          <5> QED
            BY <5>1 DEF ApprovalPoints
        <4> QED
          BY <2>4, <4>1, <4>2 DEF Emission, ApprovalPoints, EmitRunStarted,
             EmitExecutorContext, EmitCriticContext, ExecutorTurn, CriticTurn, EmitFactSaved,
             EmitVersionCreated, EmitHandoffToCritic, EmitGroundingRejected, EmitReview,
             EmitLimitReached, EmitHandoffToExecutor, EmitRevisionRequested, Decline,
             EmitRunCompleted, EmitRunBlocked, EmitRunFailed
      <3> QED
        BY <3>1 DEF RepliedAt, ApprovalPoints
    <2> QED
      BY <2>1, <2>2, <2>3, <2>4
  <1> QED
    BY <1>5, <1>6

(* Decisions name nothing new; a role's reply is one that its outcome knows.  *)
LEMMA DecisionNames ==
    ASSUME TypeInv, NamesInv, NEW r \in Runner, Decision(r)
    PROVE  NamesAt(r, pc[r])' /\ RepliedAt(r, pc[r])'
  <1>1. /\ UNCHANGED versions /\ context'[r] = context[r]
        /\ current'[r] = current[r] /\ pushed'[r] = pushed[r]
    BY DecisionKeepsTables DEF Decision, RoleFails, GateFails, ExecutorCompletes,
       ExecutorBlocks, ExecutorOutcome, CriticAccepts, CriticRevises, CriticBlocks,
       CriticOutcome, AcceptDraft, ReachRevisionLimit, StallRevision, RequestRevision, Reply,
       repoVars, localVars, progress, reading
  <1>2. /\ pc[r] \in Working
        /\ pc[r] \notin {"emit_started", "push_executor"} \cup EndPoints
    BY DEF Decision, RoleFails, GateFails, ExecutorCompletes, ExecutorBlocks,
       ExecutorOutcome, CriticAccepts, CriticRevises, CriticBlocks, CriticOutcome,
       AcceptDraft, ReachRevisionLimit, StallRevision, RequestRevision, Reply, Decide, GoTo,
       Working, CallPoints, EmitPoints, DecisionPoints, EndPoints
  <1>3. NamesAt(r, pc[r])'
    BY <1>1, <1>2, ResolvesStays DEF NamesInv, NamesAt
  <1>4. RepliedAt(r, pc[r])'
    BY DEF RepliedAt, ApprovalPoints, Decision, RoleFails, GateFails, ExecutorCompletes,
       ExecutorBlocks, ExecutorOutcome, CriticAccepts, CriticRevises, CriticBlocks,
       CriticOutcome, AcceptDraft, ReachRevisionLimit, StallRevision, RequestRevision, Reply,
       Decide, GoTo, TypeInv, LocalTypeOK
  <1> QED
    BY <1>3, <1>4

(* What is read or stored exists.                                            *)
LEMMA CallNames ==
    ASSUME TypeInv, FreshInv, NamesInv, NEW r \in Runner, OtherCall(r) \/ CallFails(r),
           pc'[r] \in Working
    PROVE  NamesAt(r, pc[r])' /\ RepliedAt(r, pc[r])'
  <1>1. versions \subseteq versions'
    BY StepsGrow DEF TablesGrow, Step
  <1>2. "returned" \notin Working /\ "create_run" \notin Working
    BY DEF Working, CallPoints, DecisionPoints, EmitPoints, HandoffPoints, ReadPoints,
       StatusPoints
  <1> USE DEF GoTo, Decide, Returns, TypeInv, LocalTypeOK, localVars, counters, progress,
          reading, replyVars
  <1>3. /\ context'[r] = context[r]
        /\ ~ PersistDraft(r) => current'[r] = current[r]
        /\ ~ (PushExecutorContext(r) \/ PushCriticContext(r)) => pushed'[r] = pushed[r]
    BY DEF OtherCall, CallFails, StartRun, RunRefused, PushExecutorContext,
       PushCriticContext, Push, ReadRefused, SaveFact, ReadLatest, PersistDraft, DraftRefused,
       HandoffToCritic, HandoffToExecutor, HandoffAcceptance, Handoff, SetCompleted,
       SetBlocked, SetFailed, SetStatus
  <1>4. CASE StartRun(r)
    <2>1. current'[r] = NoVersion /\ pc'[r] = "emit_started"
      BY <1>3, <1>4 DEF StartRun, FreshInv, PersistDraft
    <2> QED
      BY <2>1 DEF NamesAt, VersionResolves, RepliedAt, ApprovalPoints
  <1>5. ASSUME ~ StartRun(r)
        PROVE  /\ pc[r] \in Working
               /\ pc'[r] \notin {"executor_outcome", "critic_outcome"} \cup ApprovalPoints
               /\ pc[r] \in {"emit_started", "push_executor"} \cup EndPoints =>
                    \/ pc'[r] \in EndPoints
                    \/ PushExecutorContext(r)
    <2> USE DEF ApprovalPoints, EndPoints, Working, CallPoints, EmitPoints, HandoffPoints,
            ReadPoints, StatusPoints
    <2>1. CASE CallFails(r) \/ RunRefused(r) \/ ReadRefused(r)
      BY <1>2, <2>1 DEF CallFails, RunRefused, ReadRefused
    <2>2. CASE PushExecutorContext(r) \/ PushCriticContext(r) \/ SaveFact(r)
      BY <2>2 DEF PushExecutorContext, PushCriticContext, Push, SaveFact
    <2>3. CASE ReadLatest(r) \/ PersistDraft(r) \/ DraftRefused(r)
      BY <2>3 DEF ReadLatest, PersistDraft, DraftRefused
    <2>4. CASE HandoffToCritic(r) \/ HandoffToExecutor(r) \/ HandoffAcceptance(r)
      BY <2>4 DEF HandoffToCritic, HandoffToExecutor, HandoffAcceptance, Handoff
    <2>5. CASE SetCompleted(r) \/ SetBlocked(r) \/ SetFailed(r)
      BY <1>2, <2>5 DEF SetCompleted, SetBlocked, SetFailed, SetStatus
    <2> QED
      BY <1>5, <2>1, <2>2, <2>3, <2>4, <2>5 DEF OtherCall
  <1>6. ASSUME ~ StartRun(r) PROVE RepliedAt(r, pc[r])' /\ NamesAt(r, pc[r])
    BY <1>5, <1>6 DEF RepliedAt, ApprovalPoints, NamesInv
  <1>7. CASE PushExecutorContext(r) \/ PushCriticContext(r)
    <2>1. PICK v \in versions :
            IsLatest(DocumentOf(r), v) /\ pushed' = [pushed EXCEPT ![r] = Ref(v)]
      BY <1>7 DEF PushExecutorContext, PushCriticContext, Push
    <2>2. VersionResolves(DocumentOf(r), pushed[r])'
      BY <1>1, <1>3, <2>1 DEF VersionResolves, IsLatest, DocumentOf, Ref
    <2>3. ~ StartRun(r) /\ ~ PersistDraft(r)
      BY <1>7 DEF PushExecutorContext, PushCriticContext, Push, StartRun, PersistDraft
    <2> QED
      BY <1>1, <1>3, <1>6, <2>2, <2>3, ResolvesStays DEF NamesAt
  <1>8. CASE PersistDraft(r)
    <2>1. /\ versions' = versions \cup {DraftRow(r)} /\ current'[r] = Ref(DraftRow(r))
          /\ pc[r] = "create_version"
      BY <1>8 DEF PersistDraft, CreateVersion
    <2>2. VersionResolves(DocumentOf(r), current[r])'
      BY <1>3, <2>1 DEF VersionResolves, DraftRow, DocumentOf, Ref
    <2>3. ~ StartRun(r) /\ ~ PushExecutorContext(r) /\ ~ PushCriticContext(r)
      BY <2>1 DEF PushExecutorContext, PushCriticContext, Push, StartRun
    <2> QED
      BY <1>1, <1>3, <1>6, <2>1, <2>2, <2>3, ResolvesStays DEF NamesAt, EndPoints
  <1>9. CASE ~ (\/ StartRun(r) \/ PersistDraft(r)
                \/ PushExecutorContext(r) \/ PushCriticContext(r))
    BY <1>1, <1>3, <1>5, <1>6, <1>9, ResolvesStays DEF NamesAt
  <1> QED
    BY <1>4, <1>7, <1>8, <1>9

(* Every step keeps it.                                                      *)
LEMMA NamesStep ==
    ASSUME TypeInv, FreshInv, NamesInv, [Next]_vars PROVE NamesInv'
  <1>1. versions \subseteq versions'
    <2>1. CASE UNCHANGED vars
      BY <2>1 DEF vars, repoVars
    <2>2. ASSUME NEW u \in User, NEW d \in Document, EditorWrites(u, d) \/ OwnerGrants(u, d)
          PROVE  versions \subseteq versions'
      BY <2>2 DEF EditorWrites, CreateVersion, OwnerGrants
    <2> QED
      BY <2>1, <2>2, StepsGrow DEF Next, TablesGrow
  <1>2. ASSUME NEW o \in Runner, pc'[o] \in Working, pc'[o] = pc[o],
               context'[o] = context[o], current'[o] = current[o], pushed'[o] = pushed[o],
               reply'[o] = reply[o], asking'[o] = asking[o]
        PROVE  NamesAt(o, pc[o])' /\ RepliedAt(o, pc[o])'
    BY <1>1, <1>2, ResolvesStays DEF NamesInv, NamesAt, RepliedAt
  <1>3. ASSUME NEW r \in Runner, Step(r) \/ Call(r) \/ CallFails(r) \/ Crash(r)
        PROVE  NamesInv'
    <2>1. pc'[r] \in Working => NamesAt(r, pc[r])' /\ RepliedAt(r, pc[r])'
      <3>1. CASE Call(r) \/ Crash(r)
        <4>1. Rest(r)
          BY <3>1 DEF Rest
        <4> QED
          BY <4>1, RestingSteps
      <3> QED
        BY <1>3, <3>1, EmissionNames, DecisionNames, CallNames DEF Step
    <2>2. \A o \in Runner : o # r /\ pc'[o] \in Working =>
            NamesAt(o, pc[o])' /\ RepliedAt(o, pc[o])'
      BY <1>2, <1>3, LocalStep DEF Local
    <2> QED
      BY <2>1, <2>2 DEF NamesInv
  <1>4. CASE \/ \E u \in User, d \in Document : EditorWrites(u, d) \/ OwnerGrants(u, d)
             \/ UNCHANGED vars
    <2>1. UNCHANGED <<pc, context, current, pushed, reply, asking>>
      BY <1>4 DEF EditorWrites, OwnerGrants, vars, localVars, progress, reading, replyVars
    <2> QED
      BY <1>2, <2>1 DEF NamesInv
  <1> QED
    BY <1>3, <1>4 DEF Next

(* The version that the event of a point names, if it names one.             *)
NamedBy(r) ==
    IF pc[r] \in {"emit_executor_context", "emit_critic_context"} THEN pushed[r]
    ELSE IF pc[r] \in ApprovalPoints THEN ApprovalVersion(r)
    ELSE current[r]

(* The next call or decision of run() finds what it needs.  (Reading and     *)
(* storing a version may be refused, which is a step of its own.)            *)
CanGoOn(r) ==
    /\ pc[r] \in EmitPoints => \A version \in {NoVersion, NamedBy(r)} :
            CanAppendEvent(UserOf(r), DocumentOf(r),
                [run |-> RunOf(r), sequence |-> eventSequence[r] + 1, version |-> version])
    /\ pc[r] \in HandoffPoints => \A from, to \in Role : from # to =>
            CanAppendHandoff(UserOf(r), DocumentOf(r),
                [run |-> RunOf(r), sequence |-> handoffSequence[r] + 1, from |-> from,
                 to |-> to, version |-> current[r]])
    /\ pc[r] \in StatusPoints => InRunScope(RunOf(r), UserOf(r), DocumentOf(r))
    /\ pc[r] \in ApprovalPoints => asking[r] \in {"executor", "critic", "final"}
    /\ pc[r] = "executor_outcome" => reply[r] \in {"complete", "blocked"}
    /\ pc[r] = "critic_outcome" => reply[r] \in {"accept", "revise", "ungrounded", "blocked"}
    /\ pc[r] = "transition" => reply[r] \in {"accept", "revise"}

(* The repository refuses no event, handoff or status of an active run,      *)
(* whatever others store and grant and however many events failed before:    *)
(* until it returns, run() always has a next step.                           *)
THEOREM RunsCanGoOn == Spec => [](\A r \in Runner : pc[r] \in Working => CanGoOn(r))
  <1> DEFINE Inv == TypeInv /\ WriterInv /\ FreshInv /\ NamesInv
  <1>1. Init => NamesInv
    BY DEF Init, NamesInv, Working, CallPoints, DecisionPoints, EmitPoints, HandoffPoints,
       ReadPoints, StatusPoints
  <1>2. TypeInv /\ FreshInv /\ NamesInv /\ [Next]_vars => NamesInv'
    BY NamesStep
  <1>3. Inv => \A r \in Runner : pc[r] \in Working => CanGoOn(r)
    <2> SUFFICES ASSUME Inv, NEW r \in Runner, pc[r] \in Working PROVE CanGoOn(r)
      OBVIOUS
    <2>1. PICK id, u, d : id = RunOf(r) /\ u = UserOf(r) /\ d = DocumentOf(r)
      OBVIOUS
    <2>2. id \in RunId /\ OwnsRun(r) /\ NamesAt(r, pc[r]) /\ RepliedAt(r, pc[r])
      BY <2>1, ActiveContext DEF WriterInv, NamesInv
    <2>3. InRunScope(id, u, d)
      BY <2>1, <2>2 DEF OwnsRun, WriterInv, Readable, InRunScope
    <2>4. ASSUME pc[r] \in EmitPoints, NEW version \in {NoVersion, NamedBy(r)}
          PROVE  CanAppendEvent(u, d, [run |-> id, sequence |-> eventSequence[r] + 1,
                                       version |-> version])
      <3>1. \A e \in events : e.run = id => e.sequence # eventSequence[r] + 1
        BY <2>1, <2>2 DEF OwnsRun, TypeInv, LocalTypeOK, RepoTypeOK, EventRow
      <3>2. VersionResolves(d, version)
        BY <2>1, <2>2, <2>4 DEF NamedBy, ApprovalVersion, NamesAt, EndPoints, ApprovalPoints,
           VersionResolves
      <3> QED
        BY <2>3, <3>1, <3>2 DEF CanAppendEvent
    <2>5. ASSUME pc[r] \in HandoffPoints, NEW from, NEW to, from # to
          PROVE  CanAppendHandoff(u, d, [run |-> id, sequence |-> handoffSequence[r] + 1,
                                         from |-> from, to |-> to, version |-> current[r]])
      <3>1. \A h \in handoffs : h.run = id => h.sequence # handoffSequence[r] + 1
        BY <2>1, <2>2 DEF OwnsRun, TypeInv, LocalTypeOK, RepoTypeOK, HandoffRow
      <3> QED
        BY <2>1, <2>2, <2>3, <2>5, <3>1 DEF CanAppendHandoff, NamesAt
    <2> QED
      BY <2>1, <2>2, <2>3, <2>4, <2>5 DEF CanGoOn, RepliedAt, TypeInv, Control, ControlAt
  <1> QED
    BY <1>1, <1>2, <1>3, FreshInvariant, PTL DEF Spec
=============================================================================
