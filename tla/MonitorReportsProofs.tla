------------------------- MODULE MonitorReportsProofs -------------------------
(***************************************************************************)
(* Proofs about RunBundle and MonitorReports: whatever runners, editors    *)
(* and monitors do, the bundle of a run is its final record, and what the  *)
(* monitors publish rests on it and stays.  The log of a run has no gap,   *)
(* its completion is evident from it, and a run that ended is accepted by  *)
(* the checks of its bundle.                                               *)
(***************************************************************************)
EXTENDS MonitorReports, CompletionProofs

-----------------------------------------------------------------------------
(* Types *)

Bundle ==
    [run : RunRow \cup {NoRun}, events : SUBSET EventRow,
     handoffs : SUBSET HandoffRow, versions : SUBSET VersionRow]

AskingPoints == {"run", "events", "handoffs", "versions", "check", "built", "refused",
                 "write_bundle"}
ReportPoints == {"persist", "publish", "unlink", "clean_up"}
JudgingPoints == {"respond"} \cup ReportPoints
MonitorPoints == {"idle", "ended"} \cup AskingPoints \cup JudgingPoints

MonitorTypeInv ==
    /\ at \in [Process -> MonitorPoints]
    /\ held \in [Process -> Bundle]
    /\ files \in [Path -> Bundle \cup Report \cup {NoFile, Cut}]
    /\ files["bundle"] \in Bundle \cup {NoFile, Cut}
    /\ files["report"] \in Report \cup {NoFile}
    /\ temporary \subseteq Process
    /\ published \subseteq Process
    /\ forced \in [Process -> BOOLEAN]
    /\ target \in [Process -> Path]
    /\ \A p \in Process : at[p] = "publish" => target[p] = "report"
    /\ judged \in [Process -> VersionRef \cup {NoVersion}]
    /\ DOMAIN exit = Process
    /\ \A p \in Process : exit[p] \in {0, 2, Uncaught, Died, NoExit} \cup
            (IF p = Demo THEN {} ELSE {3, 4})

(* A version of a run is a version of the run's document. *)
ScopeInv ==
    \A v \in versions : v.run \in RunId =>
        runs[v.run] # NoRun /\ v.document = runs[v.run].document

-----------------------------------------------------------------------------
(* What a process has read is the record of the run as it ended.            *)

Ended == StatusOf(Subject) \in Terminal

Whole(b) ==
    /\ Ended
    /\ b.run = runs[Subject]
    /\ b.events = EventsOf(Subject)
    /\ b.handoffs = HandoffsOf(Subject)
    /\ VersionsOf(Subject) \subseteq b.versions

HeldAt(p) ==
    /\ at[p] \in {"idle", "run"} => held[p] = NothingHeld
    /\ at[p] \in {"events", "handoffs", "versions"} =>
            Ended /\ held[p].run = runs[Subject]
    /\ at[p] \in {"handoffs", "versions"} => held[p].events = EventsOf(Subject)
    /\ at[p] = "versions" => held[p].handoffs = HandoffsOf(Subject)
    /\ at[p] \in {"check", "built", "write_bundle"} \cup JudgingPoints =>
            Whole(held[p])
    /\ at[p] = "ended" => held[p] = NothingHeld \/ Whole(held[p])

HeldInv == \A p \in Process : HeldAt(p)

(* The bundle's file has been written to its end. *)
Delivered ==
    /\ at[Demo] \in JudgingPoints \cup {"ended"}
    /\ files["bundle"] = held[Demo]
    /\ Whole(held[Demo])

(* Processes of run_monitor.py ask the repository for nothing; whoever     *)
(* judges a bundle holds the demo's, and its report cites that bundle.     *)
JudgeInv ==
    /\ forced[Demo] = FALSE
    /\ \A p \in Cli : at[p] \notin AskingPoints
    /\ at[Demo] = "write_bundle" => files["bundle"] = Cut
    /\ files["bundle"] \notin {NoFile, Cut} => Delivered
    /\ \A p \in Process :
            /\ at[p] \in JudgingPoints => Delivered /\ held[p] = held[Demo]
            /\ at[p] \in ReportPoints => judged[p] \in {NoVersion} \cup References(held[p])
    /\ files["report"] # NoFile =>
            /\ Delivered
            /\ files["report"].cites \in {NoVersion} \cup References(held[Demo])

-----------------------------------------------------------------------------
(* Runners and editors *)

(* What a step of a runner's process does to the tables. *)
LEMMA TableStep ==
    ASSUME TypeInv, NEW r \in Runner, Step(r) \/ Call(r) \/ CallFails(r) \/ Crash(r)
    PROVE  /\ events \subseteq events' /\ handoffs \subseteq handoffs'
           /\ faults' \in {faults, faults + 1}
           /\ \/ UNCHANGED <<versions, runs>>
              \/ UNCHANGED versions /\ StartRun(r)
              \/ UNCHANGED versions /\ \E from \in StatusPoints, status \in Terminal :
                        SetStatus(r, from, status)
              \/ UNCHANGED runs /\ PersistDraft(r)
  <1> USE DEF budgets, repoVars
  <1>1. CASE Emission(r)
    <2>1. PICK from, type, version, detail, to :
            EmissionFrom(r, from, type, version, detail, to)
      BY <1>1, EmissionShape
    <2> QED
      BY <2>1 DEF EmissionFrom, Emit, AppendEvent
  <1>2. CASE HandoffToCritic(r) \/ HandoffToExecutor(r) \/ HandoffAcceptance(r)
    <2>1. PICK from, sender, receiver, to : Handoff(r, from, sender, receiver, to)
      BY <1>2 DEF HandoffToCritic, HandoffToExecutor, HandoffAcceptance
    <2> QED
      BY <2>1 DEF Handoff, AppendHandoff
  <1>3. CASE SetCompleted(r) \/ SetBlocked(r) \/ SetFailed(r)
    <2>1. PICK from \in StatusPoints, status \in Terminal : SetStatus(r, from, status)
      BY <1>3 DEF SetCompleted, SetBlocked, SetFailed, StatusPoints, Terminal
    <2> QED
      BY <2>1 DEF SetStatus
  <1>4. CASE StartRun(r)
    BY <1>4 DEF StartRun
  <1>5. CASE PersistDraft(r)
    BY <1>5 DEF PersistDraft, runTables
  <1>6. CASE RunRefused(r) \/ PushExecutorContext(r) \/ PushCriticContext(r)
                \/ ReadRefused(r) \/ ReadLatest(r) \/ DraftRefused(r) \/ SaveFact(r)
    BY <1>6 DEF RunRefused, PushExecutorContext, PushCriticContext, Push, ReadRefused,
           ReadLatest, DraftRefused, SaveFact, Decide
  <1>7. CASE Decision(r)
    BY <1>7 DEF Decision, RoleFails, GateFails, ExecutorCompletes, ExecutorBlocks,
           ExecutorOutcome, CriticAccepts, CriticRevises, CriticBlocks, CriticOutcome,
           AcceptDraft, ReachRevisionLimit, StallRevision, RequestRevision, Reply, Decide
  <1>8. CASE Call(r) \/ CallFails(r) \/ Crash(r)
    BY <1>8 DEF Call, CallFails, Crash
  <1> QED
    BY <1>1, <1>2, <1>3, <1>4, <1>5, <1>6, <1>7, <1>8 DEF Step, OtherCall

(* What other users do to them. *)
LEMMA OutsideStep ==
    ASSUME NEW u \in User, NEW d \in Document, EditorWrites(u, d) \/ OwnerGrants(u, d)
    PROVE  /\ UNCHANGED <<events, handoffs, runs, faults>>
           /\ versions \subseteq versions'
           /\ \A v \in versions' \ versions : v.run = NoRun
  <1>1. CASE OwnerGrants(u, d)
    BY <1>1 DEF OwnerGrants, runTables
  <1>2. CASE EditorWrites(u, d)
    <2>1. PICK row : row.run = NoRun /\ versions' = versions \cup {row}
      BY <1>2 DEF EditorWrites, CreateVersion
    <2> QED
      BY <1>2, <2>1 DEF EditorWrites, runTables, budgets
  <1> QED
    BY <1>1, <1>2

(* The tables only grow. *)
LEMMA NextGrows ==
    ASSUME TypeInv, [Next]_vars
    PROVE  /\ events \subseteq events' /\ handoffs \subseteq handoffs'
           /\ versions \subseteq versions'
           /\ faults' \in {faults, faults + 1}
  <1>1. CASE UNCHANGED vars
    BY <1>1 DEF vars, repoVars, budgets
  <1>2. ASSUME NEW r \in Runner, Step(r) \/ Call(r) \/ CallFails(r) \/ Crash(r)
        PROVE  /\ events \subseteq events' /\ handoffs \subseteq handoffs'
               /\ versions \subseteq versions'
               /\ faults' \in {faults, faults + 1}
    BY <1>2, TableStep DEF PersistDraft, CreateVersion
  <1> QED
    BY <1>1, <1>2, OutsideStep DEF Next

(* Every draft is stored for the document of its run. *)
LEMMA NextScope ==
    ASSUME TypeInv, WriterInv, ScopeInv, [Next]_vars
    PROVE  ScopeInv'
  <1>1. CASE UNCHANGED vars
    BY <1>1 DEF vars, repoVars, ScopeInv
  <1>2. ASSUME NEW r \in Runner, Step(r) \/ Call(r) \/ CallFails(r) \/ Crash(r)
        PROVE  ScopeInv'
    <2>1. CASE UNCHANGED <<versions, runs>>
      BY <2>1 DEF ScopeInv
    <2>2. CASE UNCHANGED versions /\ StartRun(r)
      <3>1. \A id \in RunId : runs[id] # NoRun => runs'[id] = runs[id]
        BY <2>2 DEF StartRun, CreateRun, CanCreateRun, TypeInv, RepoTypeOK
      <3> QED
        BY <2>2, <3>1 DEF ScopeInv
    <2>3. CASE /\ UNCHANGED versions
               /\ \E from \in StatusPoints, status \in Terminal : SetStatus(r, from, status)
      <3>1. PICK from \in StatusPoints, status \in Terminal : SetStatus(r, from, status)
        BY <2>3
      <3>2. pc[r] \in Working
        BY <3>1 DEF SetStatus, Working, CallPoints
      <3>3. RunOf(r) \in RunId /\ runs[RunOf(r)] \in RunRow
        BY <3>2, ActiveContext DEF WriterInv, OwnsRun, TypeInv, RepoTypeOK
      <3>4. runs' = [runs EXCEPT ![RunOf(r)].status = status,
                                ![RunOf(r)].completedAt = TRUE]
        BY <3>1 DEF SetStatus, SetRunStatus
      <3>5. \A id \in RunId : runs[id] # NoRun =>
                runs'[id] # NoRun /\ runs'[id].document = runs[id].document
        BY <3>3, <3>4, NoRunIsNoRow DEF TypeInv, RepoTypeOK, RunRow, RunStatus
      <3> QED
        BY <2>3, <3>5 DEF ScopeInv
    <2>4. CASE UNCHANGED runs /\ PersistDraft(r)
      <3>1. pc[r] \in Working /\ versions' = versions \cup {DraftRow(r)}
        BY <2>4 DEF PersistDraft, GoTo, CreateVersion, Working, CallPoints
      <3>2. OwnsRun(r)
        BY <3>1 DEF WriterInv
      <3> QED
        BY <2>4, <3>1, <3>2 DEF ScopeInv, DraftRow, OwnsRun
    <2> QED
      BY <1>2, <2>1, <2>2, <2>3, <2>4, TableStep
  <1>3. ASSUME NEW u \in User, NEW d \in Document, EditorWrites(u, d) \/ OwnerGrants(u, d)
        PROVE  ScopeInv'
    BY <1>3, OutsideStep, RepositoryConstants DEF ScopeInv
  <1> QED
    BY <1>1, <1>2, <1>3 DEF Next

(* The record of a run that has ended does not change. *)
LEMMA EndedStays ==
    ASSUME TypeInv, WriterInv, [Next]_vars, Ended
    PROVE  /\ Ended'
           /\ runs'[Subject] = runs[Subject]
           /\ EventsOf(Subject)' = EventsOf(Subject)
           /\ HandoffsOf(Subject)' = HandoffsOf(Subject)
           /\ VersionsOf(Subject)' = VersionsOf(Subject)
  <1>1. Untouched(Subject)
    BY ClosedRuns, BundleConstants DEF Ended
  <1>2. /\ events \subseteq events' /\ handoffs \subseteq handoffs'
        /\ versions \subseteq versions'
    BY NextGrows
  <1> QED
    BY <1>1, <1>2 DEF Untouched, Ended, StatusOf, EventsOf, HandoffsOf, VersionsOf

-----------------------------------------------------------------------------
(* The numbers of a run's records.  As long as no call has failed, the       *)
(* events and the handoffs of every run are numbered without a gap, from     *)
(* run_started on, and its runner has counted them.                          *)

LogOf(id) ==
    /\ IsFiniteSet(EventsOf(id)) /\ IsFiniteSet(HandoffsOf(id))
    /\ faults = 0 =>
            /\ Contiguous(EventsOf(id)) /\ Contiguous(HandoffsOf(id))
            /\ EventsOf(id) # {} => StartsRun(EventsOf(id))

CountedAt(r, point) ==
    faults = 0 =>
        /\ eventSequence[r] = Cardinality(EventsOf(RunOf(r)))
        /\ handoffSequence[r] = Cardinality(HandoffsOf(RunOf(r)))
        /\ point # "emit_started" => EventsOf(RunOf(r)) # {}

LogInv ==
    /\ \A id \in RunId : LogOf(id)
    /\ \A r \in Runner : pc[r] \in Working => CountedAt(r, pc[r])

(* The next number closes no gap and opens none. *)
LEMMA NextIsContiguous ==
    ASSUME NEW rows, IsFiniteSet(rows), NEW row, row \notin rows
    PROVE  /\ IsFiniteSet(rows \cup {row})
           /\ Cardinality(rows \cup {row}) = Cardinality(rows) + 1
           /\ Contiguous(rows) /\ row.sequence = Cardinality(rows) + 1 =>
                Contiguous(rows \cup {row})
  <1>1. /\ IsFiniteSet(rows \cup {row})
        /\ Cardinality(rows \cup {row}) = Cardinality(rows) + 1
    BY FS_AddElement
  <1>2. Cardinality(rows) \in Nat
    BY FS_CardinalityType
  <1>3. ASSUME Contiguous(rows), row.sequence = Cardinality(rows) + 1
        PROVE  Contiguous(rows \cup {row})
    <2>1. {x.sequence : x \in rows} = 1 .. Cardinality(rows)
      BY <1>3 DEF Contiguous
    <2>2. {x.sequence : x \in rows \cup {row}} = {x.sequence : x \in rows} \cup {row.sequence}
      OBVIOUS
    <2>3. 1 .. Cardinality(rows) + 1 = (1 .. Cardinality(rows)) \cup {Cardinality(rows) + 1}
      BY <1>2
    <2> QED
      BY <1>1, <1>3, <2>1, <2>2, <2>3 DEF Contiguous
  <1> QED
    BY <1>1, <1>3

(* It is enough to look at the runs written to and the runners that moved. *)
LEMMA LogFrame ==
    ASSUME LogInv, faults \in Nat, faults' \in {faults, faults + 1},
           \A id \in RunId : Kept(id) \/ LogOf(id)',
           \A o \in Runner : pc'[o] \in Working => Steady(o) \/ CountedAt(o, pc[o])'
    PROVE  LogInv'
  <1>1. faults' = 0 => faults = 0
    OBVIOUS
  <1>2. \A id \in RunId : Kept(id) =>
            EventsOf(id)' = EventsOf(id) /\ HandoffsOf(id)' = HandoffsOf(id)
    BY DEF Kept, EventsOf, HandoffsOf
  <1>3. ASSUME NEW id \in RunId, Kept(id) PROVE LogOf(id)'
    BY <1>1, <1>2, <1>3 DEF LogInv, LogOf, Contiguous, StartsRun
  <1>4. ASSUME NEW o \in Runner, Steady(o) PROVE CountedAt(o, pc[o])'
    <2>1. PICK id \in RunId : id = RunOf(o) /\ Kept(id)
      BY <1>4 DEF Steady
    <2>2. /\ RunOf(o)' = id /\ pc'[o] = pc[o]
          /\ eventSequence'[o] = eventSequence[o] /\ handoffSequence'[o] = handoffSequence[o]
      BY <1>4, <2>1 DEF Steady, RunOf
    <2>3. /\ EventsOf(RunOf(o))' = EventsOf(RunOf(o))
          /\ HandoffsOf(RunOf(o))' = HandoffsOf(RunOf(o))
      BY <1>2, <2>1, <2>2
    <2>4. CountedAt(o, pc[o])
      BY <1>4 DEF Steady, LogInv
    <2> QED
      BY <1>1, <2>2, <2>3, <2>4 DEF CountedAt
  <1> QED
    BY <1>3, <1>4 DEF LogInv

(* At first there is no record. *)
LEMMA InitLog == Init => LogInv
  <1> SUFFICES ASSUME Init PROVE LogInv
    OBVIOUS
  <1>1. \A id \in RunId : EventsOf(id) = {} /\ HandoffsOf(id) = {}
    BY DEF Init, EventsOf, HandoffsOf
  <1>2. \A r \in Runner : pc[r] \notin Working
    BY DEF Init, Working, CallPoints, DecisionPoints, EmitPoints, HandoffPoints,
           ReadPoints, StatusPoints
  <1>3. IsFiniteSet({}) /\ Contiguous({})
    BY FS_EmptySet DEF Contiguous
  <1> QED
    BY <1>1, <1>2, <1>3 DEF LogInv, LogOf

(* An event takes the next number of its run. *)
LEMMA EmissionLog ==
    ASSUME TypeInv, WriterInv, LogInv, NEW r \in Runner, Emission(r)
    PROVE  LogInv'
  <1>1. PICK from, type, version, detail, to :
            EmissionFrom(r, from, type, version, detail, to)
    BY EmissionShape
  <1>2. PICK id, row :
            /\ id = RunOf(r) /\ id \in RunId
            /\ row.run = id /\ row.sequence = eventSequence[r] + 1 /\ row.type = type
            /\ events' = events \cup {row}
    <2>1. pc[r] \in Working
      BY <1>1 DEF EmissionFrom, Emit, GoTo, Working, CallPoints
    <2> DEFINE new == [run |-> RunOf(r), sequence |-> eventSequence[r] + 1, type |-> type,
                       version |-> version, detail |-> detail]
    <2>2. /\ new.run = RunOf(r) /\ new.sequence = eventSequence[r] + 1 /\ new.type = type
          /\ events' = events \cup {new}
      BY <1>1 DEF EmissionFrom, Emit, AppendEvent
    <2> QED
      BY <2>1, <2>2, ActiveContext
  <1>3. /\ pc[r] = from /\ pc[r] \in Working /\ pc'[r] = to
        /\ UNCHANGED <<handoffs, context, handoffSequence, faults>>
        /\ eventSequence'[r] = eventSequence[r] + 1
        /\ from = "emit_started" => type = "run_started"
        /\ to # "emit_started"
    BY <1>1 DEF EmissionFrom, Emit, GoTo, Working, CallPoints, TypeInv, LocalTypeOK, budgets,
       Leads, EvidenceLeads
  <1>4. /\ EventsOf(id)' = EventsOf(id) \cup {row}
        /\ HandoffsOf(id)' = HandoffsOf(id)
        /\ RunOf(r)' = id
    BY <1>2, <1>3 DEF EventsOf, HandoffsOf, RunOf
  <1>5. row \notin EventsOf(id) /\ eventSequence[r] \in Nat /\ faults \in Nat
    BY <1>2, <1>3 DEF EventsOf, WriterInv, OwnsRun, TypeInv, LocalTypeOK
  <1>6. LogOf(id) /\ CountedAt(r, from)
    BY <1>2, <1>3 DEF LogInv
  <1>7. /\ IsFiniteSet(EventsOf(id) \cup {row})
        /\ Cardinality(EventsOf(id) \cup {row}) = Cardinality(EventsOf(id)) + 1
        /\ Contiguous(EventsOf(id)) /\ row.sequence = Cardinality(EventsOf(id)) + 1 =>
                Contiguous(EventsOf(id) \cup {row})
    BY <1>5, <1>6, NextIsContiguous DEF LogOf
  <1>8. ASSUME faults = 0
        PROVE  /\ Contiguous(EventsOf(id) \cup {row})
               /\ StartsRun(EventsOf(id) \cup {row})
    <2>1. Contiguous(EventsOf(id) \cup {row})
      BY <1>2, <1>6, <1>7, <1>8 DEF LogOf, CountedAt
    <2>2. CASE EventsOf(id) = {}
      <3>1. from = "emit_started" /\ eventSequence[r] = 0
        BY <1>2, <1>6, <1>8, <2>2, FS_EmptySet DEF CountedAt
      <3> QED
        BY <1>2, <1>3, <2>1, <3>1 DEF StartsRun
    <2>3. CASE EventsOf(id) # {}
      BY <1>6, <1>8, <2>1, <2>3 DEF LogOf, StartsRun
    <2> QED
      BY <2>1, <2>2, <2>3
  <1>9. LogOf(id)'
    <2>1. Contiguous(EventsOf(id))' <=> Contiguous(EventsOf(id) \cup {row})
      BY <1>4 DEF Contiguous
    <2>2. Contiguous(HandoffsOf(id))' <=> Contiguous(HandoffsOf(id))
      BY <1>4 DEF Contiguous
    <2>3. StartsRun(EventsOf(id))' <=> StartsRun(EventsOf(id) \cup {row})
      BY <1>4 DEF StartsRun
    <2> QED
      BY <1>3, <1>4, <1>6, <1>7, <1>8, <2>1, <2>2, <2>3 DEF LogOf
  <1>10. CountedAt(r, pc[r])'
    <2>1. EventsOf(RunOf(r))' = EventsOf(id) \cup {row}
      BY <1>2, <1>3, <1>4 DEF EventsOf
    <2>2. HandoffsOf(RunOf(r))' = HandoffsOf(id)
      BY <1>2, <1>3, <1>4 DEF HandoffsOf
    <2> QED
      BY <1>2, <1>3, <1>6, <1>7, <2>1, <2>2 DEF CountedAt
  <1>11. \A x \in RunId : x # id => Kept(x)
    BY <1>2, OthersKept DEF Step
  <1>12. \A o \in Runner : o # r /\ pc'[o] \in Working => Steady(o)
    BY OthersSteady DEF Step
  <1> QED
    BY <1>3, <1>5, <1>9, <1>10, <1>11, <1>12, LogFrame

(* So does a handoff. *)
LEMMA HandoffLog ==
    ASSUME TypeInv, WriterInv, LogInv, NEW r \in Runner,
           HandoffToCritic(r) \/ HandoffToExecutor(r) \/ HandoffAcceptance(r)
    PROVE  LogInv'
  <1>1. PICK from, sender, receiver, to :
            /\ Handoff(r, from, sender, receiver, to)
            /\ from \in HandoffPoints /\ to # "emit_started"
    BY DEF HandoffToCritic, HandoffToExecutor, HandoffAcceptance, HandoffPoints
  <1>2. /\ pc[r] = from /\ pc[r] \in Working /\ pc'[r] = to
        /\ UNCHANGED <<events, context, eventSequence, faults>>
        /\ handoffSequence'[r] = handoffSequence[r] + 1
        /\ from # "emit_started"
    BY <1>1 DEF Handoff, GoTo, Working, CallPoints, HandoffPoints, TypeInv, LocalTypeOK, budgets
  <1>3. PICK id, row :
            /\ id = RunOf(r) /\ id \in RunId
            /\ row.run = id /\ row.sequence = handoffSequence[r] + 1
            /\ handoffs' = handoffs \cup {row}
    <2> DEFINE new == [run |-> RunOf(r), sequence |-> handoffSequence[r] + 1,
                       round |-> revisionCount[r], from |-> sender, to |-> receiver,
                       version |-> current[r]]
    <2>1. /\ new.run = RunOf(r) /\ new.sequence = handoffSequence[r] + 1
          /\ handoffs' = handoffs \cup {new}
      BY <1>1 DEF Handoff, AppendHandoff
    <2> QED
      BY <1>2, <2>1, ActiveContext
  <1>4. /\ HandoffsOf(id)' = HandoffsOf(id) \cup {row}
        /\ EventsOf(id)' = EventsOf(id)
        /\ RunOf(r)' = id
    BY <1>2, <1>3 DEF EventsOf, HandoffsOf, RunOf
  <1>5. row \notin HandoffsOf(id) /\ handoffSequence[r] \in Nat /\ faults \in Nat
    BY <1>2, <1>3 DEF HandoffsOf, WriterInv, OwnsRun, TypeInv, LocalTypeOK
  <1>6. LogOf(id) /\ CountedAt(r, from)
    BY <1>2, <1>3 DEF LogInv
  <1>7. /\ IsFiniteSet(HandoffsOf(id) \cup {row})
        /\ Cardinality(HandoffsOf(id) \cup {row}) = Cardinality(HandoffsOf(id)) + 1
        /\ Contiguous(HandoffsOf(id)) /\ row.sequence = Cardinality(HandoffsOf(id)) + 1 =>
                Contiguous(HandoffsOf(id) \cup {row})
    BY <1>5, <1>6, NextIsContiguous DEF LogOf
  <1>8. LogOf(id)'
    <2>1. Contiguous(HandoffsOf(id))' <=> Contiguous(HandoffsOf(id) \cup {row})
      BY <1>4 DEF Contiguous
    <2>2. Contiguous(EventsOf(id))' <=> Contiguous(EventsOf(id))
      BY <1>4 DEF Contiguous
    <2>3. StartsRun(EventsOf(id))' <=> StartsRun(EventsOf(id))
      BY <1>4 DEF StartsRun
    <2> QED
      BY <1>2, <1>3, <1>4, <1>6, <1>7, <2>1, <2>2, <2>3 DEF LogOf, CountedAt
  <1>9. CountedAt(r, pc[r])'
    <2>1. HandoffsOf(RunOf(r))' = HandoffsOf(id) \cup {row}
      BY <1>2, <1>3, <1>4 DEF HandoffsOf
    <2>2. EventsOf(RunOf(r))' = EventsOf(id)
      BY <1>2, <1>3, <1>4 DEF EventsOf
    <2> QED
      BY <1>2, <1>3, <1>6, <1>7, <2>1, <2>2 DEF CountedAt
  <1>10. \A x \in RunId : x # id => Kept(x)
    BY <1>3, OthersKept DEF Step, OtherCall
  <1>11. \A o \in Runner : o # r /\ pc'[o] \in Working => Steady(o)
    BY OthersSteady DEF Step, OtherCall
  <1> QED
    BY <1>2, <1>5, <1>8, <1>9, <1>10, <1>11, LogFrame

(* No other step writes an event or a handoff. *)
LEMMA OtherLog ==
    ASSUME TypeInv, WriterInv, FreshInv, LogInv, NEW r \in Runner,
           Rest(r) \/ TurnAction(r) \/ StartRun(r) \/ PersistDraft(r) \/ SaveFact(r)
    PROVE  LogInv'
  <1>1. UNCHANGED <<events, handoffs>> /\ faults \in Nat /\ faults' \in {faults, faults + 1}
    <2>1. Step(r) \/ Call(r) \/ CallFails(r) \/ Crash(r)
      BY DEF Rest, TurnAction, Step, OtherCall
    <2>2. Rest(r) \/ StartRun(r) \/ PersistDraft(r) \/ SaveFact(r)
            => UNCHANGED <<events, handoffs>>
      BY DEF Rest, RunRefused, Crash, Call, SetCompleted, SetBlocked, SetFailed,
           SetStatus, StartRun, PersistDraft, SaveFact, runTables, repoVars
    <2>3. TurnAction(r) => UNCHANGED <<events, handoffs>>
      BY DecisionKeepsTables
         DEF TurnAction, CallFails, PushExecutorContext, PushCriticContext, Push,
           ReadRefused, ReadLatest, DraftRefused, Decide, repoVars
    <2> QED
      BY <2>1, <2>2, <2>3, TableStep DEF TypeInv, LocalTypeOK
  <1>2. \A id \in RunId : LogOf(id)'
    <2> SUFFICES ASSUME NEW id \in RunId PROVE LogOf(id)'
      OBVIOUS
    <2>1. EventsOf(id)' = EventsOf(id) /\ HandoffsOf(id)' = HandoffsOf(id)
      BY <1>1 DEF EventsOf, HandoffsOf
    <2> QED
      BY <1>1, <2>1 DEF LogInv, LogOf, Contiguous, StartsRun
  <1>3. ASSUME pc[r] \in Working, pc'[r] # "emit_started" \/ pc[r] = "emit_started",
               context'[r] = context[r],
               faults' = 0 => /\ pc[r] # "emit_started"
                              /\ eventSequence'[r] = eventSequence[r]
                              /\ handoffSequence'[r] = handoffSequence[r]
        PROVE  CountedAt(r, pc[r])'
    <2>1. PICK id : id = RunOf(r) /\ id = RunOf(r)'
      BY <1>3 DEF RunOf
    <2>2. EventsOf(RunOf(r))' = EventsOf(id) /\ HandoffsOf(RunOf(r))' = HandoffsOf(id)
      BY <1>1, <2>1 DEF EventsOf, HandoffsOf
    <2>3. CountedAt(r, pc[r])
      BY <1>3 DEF LogInv
    <2>4. faults' = 0 => faults = 0
      BY <1>1
    <2> QED
      BY <1>3, <2>1, <2>2, <2>3, <2>4 DEF CountedAt
  <1>4. ASSUME pc'[r] \in Working PROVE CountedAt(r, pc[r])'
    <2>1. CASE TurnAction(r)
      <3>1. Turn(r)
        BY <1>4, <2>1, TurnSteps
      <3>2. pc[r] = "emit_started" => faults' # 0
        BY <1>1, <2>1 DEF TurnAction, Decision, RoleFails, GateFails, ExecutorCompletes,
           ExecutorBlocks, ExecutorOutcome, CriticAccepts, CriticRevises, CriticBlocks,
           CriticOutcome, AcceptDraft, ReachRevisionLimit, StallRevision, RequestRevision,
           Reply, Decide, GoTo, CallFails, PushExecutorContext, PushCriticContext, Push,
           ReadRefused, ReadLatest, DraftRefused, ReadPoints
      <3>3. faults' = 0 => /\ eventSequence'[r] = eventSequence[r]
                           /\ handoffSequence'[r] = handoffSequence[r]
        BY <1>1, <2>1 DEF TurnAction, Decision, RoleFails, GateFails, ExecutorCompletes,
           ExecutorBlocks, ExecutorOutcome, CriticAccepts, CriticRevises, CriticBlocks,
           CriticOutcome, AcceptDraft, ReachRevisionLimit, StallRevision, RequestRevision,
           Reply, CallFails, PushExecutorContext, PushCriticContext, Push,
           ReadRefused, ReadLatest, DraftRefused, localVars, counters
      <3> QED
        BY <1>3, <3>1, <3>2, <3>3 DEF Turn
    <2>2. CASE StartRun(r)
      <3>1. /\ runs[RunOf(r)] = NoRun /\ RunOf(r) \in RunId /\ pc'[r] = "emit_started"
            /\ RunOf(r)' = RunOf(r)
            /\ eventSequence'[r] = 0 /\ handoffSequence'[r] = 0
        BY <2>2, ContextType
           DEF StartRun, GoTo, CreateRun, CanCreateRun, localVars, counters, FreshInv,
               TypeInv, LocalTypeOK, RunOf
      <3>2. EventsOf(RunOf(r))' = {} /\ HandoffsOf(RunOf(r))' = {}
        BY <1>1, <3>1 DEF WriterInv, Unborn, EventsOf, HandoffsOf
      <3> QED
        BY <3>1, <3>2, FS_EmptySet DEF CountedAt
    <2>3. CASE PersistDraft(r) \/ SaveFact(r)
      <3>1. /\ pc[r] \in Working /\ pc[r] # "emit_started" /\ pc'[r] # "emit_started"
            /\ UNCHANGED <<context, eventSequence, handoffSequence>>
        BY <2>3 DEF PersistDraft, SaveFact, GoTo, localVars, counters, Working, CallPoints,
           TypeInv, LocalTypeOK
      <3> QED
        BY <1>3, <3>1
    <2> QED
      BY <1>4, <2>1, <2>2, <2>3, RestingSteps
  <1>5. \A o \in Runner : o # r /\ pc'[o] \in Working => Steady(o)
    BY OthersSteady DEF Step, OtherCall, Rest, TurnAction
  <1> QED
    BY <1>1, <1>2, <1>4, <1>5, LogFrame

(* Every step keeps the logs without a gap, unless a call fails. *)
LEMMA LogStep ==
    ASSUME TypeInv, WriterInv, FreshInv, LogInv, [Next]_vars PROVE LogInv'
  <1>1. ASSUME NEW r \in Runner, Step(r) \/ Call(r) \/ CallFails(r) \/ Crash(r)
        PROVE  LogInv'
    BY <1>1, RoundSteps, EmissionLog, HandoffLog, OtherLog
  <1>2. CASE \/ \E u \in User, d \in Document : EditorWrites(u, d) \/ OwnerGrants(u, d)
             \/ UNCHANGED vars
    <2>1. \A id \in RunId : Kept(id)
      BY <1>2, OutsideKept
    <2>2. \A o \in Runner : pc'[o] \in Working => Steady(o)
      BY <1>2, OutsideSteady
    <2>3. faults \in Nat /\ faults' \in {faults, faults + 1}
      BY NextGrows DEF TypeInv, LocalTypeOK
    <2> QED
      BY <2>1, <2>2, <2>3, LogFrame
  <1> QED
    BY <1>1, <1>2 DEF Next

(* "Deterministic sequence": unless a call has failed, the events of a run   *)
(* that ended are numbered from 1 without a gap, for any number of runners,  *)
(* processes that die and other editors.  A failed call leaves a gap.        *)
THEOREM LogsHaveNoGap == Spec => [](faults = 0 => EndedLogIsContiguous)
  <1>1. LogInv => (faults = 0 => EndedLogIsContiguous)
    <2> SUFFICES ASSUME LogInv, faults = 0, NEW id \in RunId, NEW e \in EventsOf(id),
                        e.sequence > 1
                 PROVE  \E before \in EventsOf(id) : before.sequence = e.sequence - 1
      BY DEF EndedLogIsContiguous
    <2>1. {x.sequence : x \in EventsOf(id)} = 1 .. Cardinality(EventsOf(id))
      BY DEF LogInv, LogOf, Contiguous
    <2>2. Cardinality(EventsOf(id)) \in Nat
      BY FS_CardinalityType DEF LogInv, LogOf
    <2>3. e.sequence \in 1 .. Cardinality(EventsOf(id))
      BY <2>1
    <2>4. e.sequence - 1 \in 1 .. Cardinality(EventsOf(id))
      BY <2>2, <2>3
    <2> QED
      BY <2>1, <2>4
  <1>2. TypeInv /\ WriterInv /\ FreshInv /\ LogInv /\ [Next]_vars => LogInv'
    BY LogStep
  <1> QED
    BY <1>1, <1>2, InitLog, FreshInvariant, PTL DEF Spec

-----------------------------------------------------------------------------
(* What a run started from.  Its first context shows the Executor a version  *)
(* of the document that is not the run's own, and everything the run stores  *)
(* is numbered after it; and what is answered was asked for.                 *)

Showing(e) == e.type = "context_attached"

SourceOf(id, e, s) ==
    /\ Showing(e) /\ e.detail = "executor" /\ e.version = Ref(s)
    /\ \A x \in EventsOf(id) : Showing(x) /\ x # e => e.sequence < x.sequence
    /\ s.run # id /\ s.document = runs[id].document
    /\ \A v \in VersionsOf(id) : v.number > s.number

Sourced(id) == \E e \in EventsOf(id), s \in versions : SourceOf(id, e, s)

Unsourced(id) == VersionsOf(id) = {} /\ \A e \in EventsOf(id) : ~ Showing(e)

Requested(id) ==
    \E e \in EventsOf(id) : e.type = "approval_requested" /\ e.detail = "none"

AnswersRequest(id) ==
    (\E e \in EventsOf(id) : e.type = "approval_resolved") => Requested(id)

SourceAt(r, point) ==
    /\ point \notin StartPoints \cup EndPoints => Sourced(RunOf(r))
    /\ point = "emit_executor_context" =>
            \E s \in versions : s.document = DocumentOf(r) /\ Ref(s) = pushed[r]
    /\ point = "approval_gate" => Requested(RunOf(r))

SourceInv ==
    /\ \A id \in RunId : (Sourced(id) \/ Unsourced(id)) /\ AnswersRequest(id)
    /\ \A r \in Runner : pc[r] \in Working => SourceAt(r, pc[r])

(* A run keeps its source as long as it stores and shows nothing else. *)
LEMMA SourceStays ==
    ASSUME TypeInv, NEW id \in RunId, Kept(id), versions \subseteq versions',
           runs[id] # NoRun => runs'[id].document = runs[id].document,
           Unborn
    PROVE  /\ Sourced(id) => Sourced(id)'
           /\ Unsourced(id) => Unsourced(id)'
           /\ AnswersRequest(id) => AnswersRequest(id)'
           /\ Requested(id) => Requested(id)'
  <1>1. EventsOf(id)' = EventsOf(id) /\ VersionsOf(id)' = VersionsOf(id)
    BY DEF Kept, EventsOf, VersionsOf
  <1>2. ASSUME Sourced(id) PROVE Sourced(id)'
    <2>1. PICK e \in EventsOf(id), s \in versions : SourceOf(id, e, s)
      BY <1>2 DEF Sourced
    <2>2. runs[id] # NoRun
      BY <2>1 DEF Unborn, EventsOf
    <2>3. SourceOf(id, e, s)'
      BY <1>1, <2>1, <2>2 DEF SourceOf, Showing, Ref
    <2> QED
      BY <1>1, <2>1, <2>3 DEF Sourced
  <1> QED
    BY <1>1, <1>2 DEF Unsourced, AnswersRequest, Requested, Showing

(* It is enough to look at the runs written to and the runners that moved. *)
LEMMA SourceFrame ==
    ASSUME TypeInv, Unborn, SourceInv, versions \subseteq versions',
           \A id \in RunId : runs[id] # NoRun => runs'[id].document = runs[id].document,
           \A id \in RunId : \/ Kept(id)
                             \/ (Sourced(id) \/ Unsourced(id))' /\ AnswersRequest(id)',
           \A o \in Runner : pc'[o] \in Working => Steady(o) \/ SourceAt(o, pc[o])'
    PROVE  SourceInv'
  <1>1. ASSUME NEW id \in RunId
        PROVE  (Sourced(id) \/ Unsourced(id))' /\ AnswersRequest(id)'
    BY SourceStays DEF SourceInv
  <1>2. ASSUME NEW o \in Runner, Steady(o) PROVE SourceAt(o, pc[o])'
    <2>1. PICK id \in RunId : id = RunOf(o) /\ Kept(id)
      BY <1>2 DEF Steady
    <2>2. /\ RunOf(o)' = id /\ DocumentOf(o)' = DocumentOf(o) /\ pc'[o] = pc[o]
          /\ pushed'[o] = pushed[o]
      BY <1>2, <2>1 DEF Steady, RunOf, DocumentOf
    <2>3. SourceAt(o, pc[o])
      BY <1>2 DEF Steady, SourceInv
    <2>4. (Sourced(id) => Sourced(id)') /\ (Requested(id) => Requested(id)')
      BY <2>1, SourceStays
    <2>5. /\ Sourced(id)' => Sourced(RunOf(o))'
          /\ Requested(id)' => Requested(RunOf(o))'
      BY <2>2 DEF Sourced, Requested, EventsOf, SourceOf, VersionsOf
    <2>6. \A s : Ref(s)' = Ref(s)
      BY DEF Ref
    <2> QED
      BY <2>1, <2>2, <2>3, <2>4, <2>5, <2>6 DEF SourceAt
  <1> QED
    BY <1>1, <1>2 DEF SourceInv

(* At first no run has shown or stored anything. *)
LEMMA InitSource == Init => SourceInv
  <1> SUFFICES ASSUME Init PROVE SourceInv
    OBVIOUS
  <1>1. \A id \in RunId : EventsOf(id) = {} /\ VersionsOf(id) = {}
    BY WorkflowConstants, RepositoryConstants DEF Init, EventsOf, VersionsOf
  <1>2. \A r \in Runner : pc[r] \notin Working
    BY DEF Init, Working, CallPoints, DecisionPoints, EmitPoints, HandoffPoints,
           ReadPoints, StatusPoints
  <1> QED
    BY <1>1, <1>2 DEF SourceInv, Unsourced, AnswersRequest

(* The context the Executor is first shown names the source, and every other *)
(* event comes after it.                                                     *)
LEMMA EmissionSource ==
    ASSUME TypeInv, WriterInv, SourceInv, NEW r \in Runner, Emission(r)
    PROVE  SourceInv'
  <1>1. PICK from, type, version, detail, to :
            EmissionFrom(r, from, type, version, detail, to)
    BY EmissionShape
  <1>2. PICK id, row :
            /\ id = RunOf(r) /\ id \in RunId
            /\ row.run = id /\ row.sequence = eventSequence[r] + 1 /\ row.type = type
            /\ row.version = version /\ row.detail = detail
            /\ events' = events \cup {row}
    <2>1. pc[r] \in Working
      BY <1>1 DEF EmissionFrom, Emit, GoTo, Working, CallPoints
    <2> DEFINE new == [run |-> RunOf(r), sequence |-> eventSequence[r] + 1, type |-> type,
                       version |-> version, detail |-> detail]
    <2>2. /\ new.run = RunOf(r) /\ new.sequence = eventSequence[r] + 1 /\ new.type = type
          /\ new.version = version /\ new.detail = detail
          /\ events' = events \cup {new}
      BY <1>1 DEF EmissionFrom, Emit, AppendEvent
    <2> QED
      BY <2>1, <2>2, ActiveContext
  <1>3. /\ pc[r] = from /\ pc[r] \in Working /\ pc'[r] = to
        /\ UNCHANGED <<versions, runs, context, pushed>>
    BY <1>1 DEF EmissionFrom, Emit, GoTo, Working, CallPoints, TypeInv, LocalTypeOK, reading
  <1>4. EvidenceLeads(r, from, type, version, detail, to)
    BY <1>1 DEF EmissionFrom, Leads
  <1>5. /\ EventsOf(id)' = EventsOf(id) \cup {row}
        /\ VersionsOf(id)' = VersionsOf(id)
        /\ RunOf(r)' = id
    BY <1>2, <1>3 DEF EventsOf, VersionsOf, RunOf
  <1>6. OwnsRun(r) /\ runs[id].document = DocumentOf(r)
    BY <1>2, <1>3 DEF WriterInv, OwnsRun
  <1>7. /\ \A x \in EventsOf(id) : x.sequence \in Nat /\ x.sequence <= eventSequence[r]
        /\ eventSequence[r] \in Nat
    BY <1>2, <1>6 DEF OwnsRun, EventsOf, TypeInv, LocalTypeOK, RepoTypeOK, EventRow
  <1>8. SourceAt(r, from) /\ (Sourced(id) \/ Unsourced(id)) /\ AnswersRequest(id)
    BY <1>2, <1>3 DEF SourceInv
  <1>9. ASSUME Sourced(id) PROVE Sourced(id)'
    <2>1. PICK e \in EventsOf(id), s \in versions : SourceOf(id, e, s)
      BY <1>9 DEF Sourced
    <2>2. \A x \in EventsOf(id) \cup {row} : Showing(x) /\ x # e => e.sequence < x.sequence
      BY <1>2, <1>7, <2>1 DEF SourceOf
    <2>3. SourceOf(id, e, s)'
      BY <1>3, <1>5, <2>1, <2>2 DEF SourceOf, Showing, Ref
    <2> QED
      BY <1>3, <1>5, <2>1, <2>3 DEF Sourced
  <1>10. ASSUME Unsourced(id), from = "emit_executor_context" PROVE Sourced(id)'
    <2>1. PICK s \in versions : s.document = DocumentOf(r) /\ Ref(s) = pushed[r]
      BY <1>8, <1>10 DEF SourceAt
    <2>2. Showing(row) /\ row.detail = "executor" /\ row.version = Ref(s)
      BY <1>2, <1>4, <1>10, <2>1 DEF EvidenceLeads, Showing
    <2>3. \A x \in EventsOf(id) \cup {row} : Showing(x) /\ x # row => row.sequence < x.sequence
      BY <1>2, <1>7, <1>10 DEF Unsourced
    <2>4. s.run # id
      BY <1>10, <2>1 DEF Unsourced, VersionsOf
    <2>5. SourceOf(id, row, s)'
      BY <1>3, <1>5, <1>6, <1>10, <2>1, <2>2, <2>3, <2>4 DEF SourceOf, Showing, Ref, Unsourced
    <2> QED
      BY <1>3, <1>5, <2>1, <2>5 DEF Sourced
  <1>11. ASSUME Unsourced(id), from # "emit_executor_context"
         PROVE  Unsourced(id)' /\ to \in StartPoints \cup EndPoints
    <2>1. ~ Sourced(id)
      BY <1>11 DEF Unsourced, Sourced, SourceOf
    <2>2. from \in {"emit_started", "push_executor"} \cup EndPoints
      BY <1>2, <1>8, <1>11, <2>1 DEF SourceAt, StartPoints
    <2>3. from # "push_executor"
      BY <1>1 DEF EmissionFrom, EmitPoints
    <2>4. ~ Showing(row) /\ to \in StartPoints \cup EndPoints
      BY <1>2, <1>4, <2>2, <2>3 DEF EvidenceLeads, Showing, EndPoints, StartPoints
    <2> QED
      BY <1>5, <1>11, <2>4 DEF Unsourced, Showing
  <1>12. AnswersRequest(id)' /\ (to = "approval_gate" => Requested(id)')
    <2>1. Requested(id) => Requested(id)'
      BY <1>5 DEF Requested
    <2>2. to = "approval_gate" => Requested(id)'
      BY <1>2, <1>4, <1>5 DEF EvidenceLeads, Requested
    <2>3. type = "approval_resolved" => Requested(id)
      BY <1>2, <1>4, <1>8 DEF EvidenceLeads, SourceAt
    <2> QED
      BY <1>2, <1>5, <1>8, <2>1, <2>2, <2>3 DEF AnswersRequest
  <1>13. SourceAt(r, pc[r])'
    <2>1. /\ Sourced(id)' => Sourced(RunOf(r))'
          /\ Requested(id)' => Requested(RunOf(r))'
      BY <1>5 DEF Sourced, Requested, EventsOf, SourceOf, VersionsOf
    <2>2. to # "emit_executor_context"
      BY <1>4 DEF EvidenceLeads
    <2>3. to \notin StartPoints \cup EndPoints => Sourced(id)'
      BY <1>8, <1>9, <1>10, <1>11
    <2> QED
      BY <1>3, <1>12, <2>1, <2>2, <2>3 DEF SourceAt
  <1>14. \A x \in RunId : x # id => Kept(x)
    BY <1>2, OthersKept DEF Step
  <1>15. \A o \in Runner : o # r /\ pc'[o] \in Working => Steady(o)
    BY OthersSteady DEF Step
  <1>16. (Sourced(id) \/ Unsourced(id))'
    BY <1>8, <1>9, <1>10, <1>11
  <1> QED
    BY <1>3, <1>12, <1>13, <1>14, <1>15, <1>16, SourceFrame DEF WriterInv

(* A run keeps its document. *)
LEMMA DocumentsStay ==
    ASSUME TypeInv, WriterInv, NEW r \in Runner,
           Step(r) \/ Call(r) \/ CallFails(r) \/ Crash(r),
           NEW id \in RunId, runs[id] # NoRun
    PROVE  runs'[id].document = runs[id].document
  <1>1. CASE UNCHANGED runs
    BY <1>1
  <1>2. CASE StartRun(r)
    BY <1>2 DEF StartRun, CreateRun, CanCreateRun, TypeInv, RepoTypeOK
  <1>3. ASSUME NEW from \in StatusPoints, NEW status \in Terminal, SetStatus(r, from, status)
        PROVE  runs'[id].document = runs[id].document
    <2>1. pc[r] \in Working
      BY <1>3 DEF SetStatus, Working, CallPoints
    <2>2. RunOf(r) \in RunId /\ runs[RunOf(r)] \in RunRow
      BY <2>1, ActiveContext DEF WriterInv, OwnsRun, TypeInv, RepoTypeOK
    <2>3. runs' = [runs EXCEPT ![RunOf(r)].status = status,
                              ![RunOf(r)].completedAt = TRUE]
      BY <1>3 DEF SetStatus, SetRunStatus
    <2> QED
      BY <2>2, <2>3 DEF TypeInv, RepoTypeOK, RunRow, RunStatus
  <1> QED
    BY <1>1, <1>2, <1>3, TableStep

(* A stored draft is numbered after the source. *)
LEMMA PersistDraftSource ==
    ASSUME TypeInv, WriterInv, SourceInv, NEW r \in Runner, PersistDraft(r)
    PROVE  SourceInv'
  <1>1. /\ pc[r] = "create_version" /\ pc[r] \in Working /\ pc'[r] = "emit_version_created"
        /\ UNCHANGED <<context, events, runs>>
        /\ versions' = versions \cup {DraftRow(r)}
        /\ IsNextNumber(DocumentOf(r), DraftRow(r).number)
    BY DEF PersistDraft, GoTo, CreateVersion, CanCreateVersion, DraftRow, Working,
           CallPoints, TypeInv, LocalTypeOK, runTables
  <1>2. PICK id, row :
            /\ id \in RunId /\ id = RunOf(r) /\ row = DraftRow(r)
            /\ row.run = id /\ row.document = DocumentOf(r)
    <2>1. RunOf(r) \in RunId
      BY <1>1, ActiveContext
    <2>2. DraftRow(r).run = RunOf(r) /\ DraftRow(r).document = DocumentOf(r)
      BY DEF DraftRow
    <2> QED
      BY <2>1, <2>2
  <1>3. /\ VersionsOf(id)' = VersionsOf(id) \cup {row}
        /\ EventsOf(id)' = EventsOf(id)
        /\ RunOf(r)' = id
    BY <1>1, <1>2 DEF VersionsOf, EventsOf, RunOf
  <1>4. runs[id].document = DocumentOf(r)
    BY <1>1, <1>2 DEF WriterInv, OwnsRun
  <1>5. Sourced(id) /\ AnswersRequest(id)
    BY <1>1, <1>2 DEF SourceInv, SourceAt, StartPoints, EndPoints
  <1>6. Sourced(id)'
    <2>1. PICK e \in EventsOf(id), s \in versions : SourceOf(id, e, s)
      BY <1>5 DEF Sourced
    <2>2. s.number < row.number
      <3>1. s.document = DocumentOf(r) /\ s.number \in Nat /\ row.number \in Nat
        BY <1>1, <1>2, <1>4, <2>1
           DEF SourceOf, DraftRow, TypeInv, RepoTypeOK, LocalTypeOK, VersionRow
      <3> QED
        BY <1>1, <1>2, <3>1 DEF IsNextNumber
    <2>3. SourceOf(id, e, s)'
      BY <1>1, <1>3, <2>1, <2>2 DEF SourceOf, Showing, Ref
    <2> QED
      BY <1>1, <1>3, <2>1, <2>3 DEF Sourced
  <1>7. AnswersRequest(id)'
    BY <1>3, <1>5 DEF AnswersRequest, Requested
  <1>8. SourceAt(r, pc[r])'
    <2>1. Sourced(id)' => Sourced(RunOf(r))'
      BY <1>3 DEF Sourced, EventsOf, SourceOf, VersionsOf
    <2> QED
      BY <1>1, <1>6, <2>1 DEF SourceAt
  <1>9. \A x \in RunId : x # id => Kept(x)
    BY <1>2, OthersKept DEF Step, OtherCall
  <1>10. \A o \in Runner : o # r /\ pc'[o] \in Working => Steady(o)
    BY OthersSteady DEF Step, OtherCall
  <1> QED
    BY <1>1, <1>6, <1>7, <1>8, <1>9, <1>10, SourceFrame DEF WriterInv

(* No other step writes an event or a version. *)
LEMMA OtherSource ==
    ASSUME TypeInv, WriterInv, SourceInv, NEW r \in Runner,
           \/ Rest(r) \/ TurnAction(r) \/ StartRun(r) \/ SaveFact(r)
           \/ HandoffToCritic(r) \/ HandoffToExecutor(r) \/ HandoffAcceptance(r)
    PROVE  SourceInv'
  <1>1. UNCHANGED <<events, versions>>
    <2>1. CASE Rest(r) \/ StartRun(r) \/ SaveFact(r)
      BY <2>1 DEF Rest, RunRefused, Crash, Call, SetCompleted, SetBlocked, SetFailed,
           SetStatus, StartRun, SaveFact, repoVars
    <2>2. CASE HandoffToCritic(r) \/ HandoffToExecutor(r) \/ HandoffAcceptance(r)
      BY <2>2 DEF HandoffToCritic, HandoffToExecutor, HandoffAcceptance, Handoff
    <2>3. CASE TurnAction(r)
      BY <2>3, DecisionKeepsTables
         DEF TurnAction, CallFails, PushExecutorContext, PushCriticContext, Push,
           ReadRefused, ReadLatest, DraftRefused, Decide, repoVars
    <2> QED
      BY <2>1, <2>2, <2>3
  <1>2. Step(r) \/ Call(r) \/ CallFails(r) \/ Crash(r)
    BY DEF Rest, TurnAction, Step, OtherCall
  <1>3. \A id \in RunId : runs[id] # NoRun => runs'[id].document = runs[id].document
    BY <1>2, DocumentsStay
  <1>4. \A id \in RunId : /\ Sourced(id) => Sourced(id)'
                          /\ Unsourced(id) => Unsourced(id)'
                          /\ AnswersRequest(id) => AnswersRequest(id)'
                          /\ Requested(id) => Requested(id)'
    <2> SUFFICES ASSUME NEW id \in RunId
                 PROVE  /\ Sourced(id) => Sourced(id)'
                        /\ Unsourced(id) => Unsourced(id)'
                        /\ AnswersRequest(id) => AnswersRequest(id)'
                        /\ Requested(id) => Requested(id)'
      OBVIOUS
    <2>1. EventsOf(id)' = EventsOf(id) /\ VersionsOf(id)' = VersionsOf(id)
      BY <1>1 DEF EventsOf, VersionsOf
    <2>2. Sourced(id) => runs[id] # NoRun
      BY DEF WriterInv, Unborn, Sourced, EventsOf
    <2> QED
      BY <1>1, <1>3, <2>1, <2>2
         DEF Sourced, SourceOf, Showing, Ref, Unsourced, AnswersRequest, Requested
  <1>5. ASSUME pc[r] \in Working, context'[r] = context[r],
               pc[r] \in StartPoints \cup EndPoints => pc'[r] \in StartPoints \cup EndPoints,
               pc'[r] = "emit_executor_context" =>
                    \E s \in versions : s.document = DocumentOf(r) /\ Ref(s) = pushed'[r],
               pc'[r] # "approval_gate"
        PROVE  SourceAt(r, pc[r])'
    <2>1. PICK id \in RunId : id = RunOf(r)
      BY <1>5, ActiveContext
    <2>2. RunOf(r)' = id /\ DocumentOf(r)' = DocumentOf(r)
      BY <1>5, <2>1 DEF RunOf, DocumentOf
    <2>3. Sourced(id) => Sourced(RunOf(r))'
      BY <1>4, <2>2 DEF Sourced, EventsOf, SourceOf, VersionsOf
    <2>4. SourceAt(r, pc[r])
      BY <1>5 DEF SourceInv
    <2>5. \A s : Ref(s)' = Ref(s)
      BY DEF Ref
    <2> QED
      BY <1>1, <1>5, <2>1, <2>2, <2>3, <2>4, <2>5 DEF SourceAt
  <1>6. ASSUME pc'[r] \in Working PROVE SourceAt(r, pc[r])'
    <2>1. CASE TurnAction(r)
      <3>1. Turn(r)
        BY <1>6, <2>1, TurnSteps
      <3> QED
        BY <1>5, <3>1 DEF Turn, StartPoints
    <2>2. CASE StartRun(r)
      BY <2>2 DEF StartRun, GoTo, TypeInv, LocalTypeOK, SourceAt, StartPoints
    <2>3. CASE SaveFact(r) \/ HandoffToCritic(r) \/ HandoffToExecutor(r) \/ HandoffAcceptance(r)
      <3>1. /\ pc[r] \in HandoffPoints \cup {"save_fact"}
            /\ pc'[r] \in EmitPoints \ {"emit_executor_context", "approval_gate"}
            /\ context' = context
        BY <2>3 DEF SaveFact, HandoffToCritic, HandoffToExecutor, HandoffAcceptance, Handoff,
           GoTo, TypeInv, LocalTypeOK, HandoffPoints, EmitPoints, localVars
      <3>2. pc[r] \in Working /\ pc[r] \notin StartPoints \cup EndPoints
        BY <3>1 DEF HandoffPoints, Working, CallPoints, StartPoints, EndPoints
      <3> QED
        BY <1>5, <3>1, <3>2
    <2> QED
      BY <1>6, <2>1, <2>2, <2>3, RestingSteps
  <1>7. \A o \in Runner : o # r /\ pc'[o] \in Working => Steady(o)
    BY <1>2, OthersSteady
  <1>8. \A id \in RunId : (Sourced(id) \/ Unsourced(id))' /\ AnswersRequest(id)'
    BY <1>4 DEF SourceInv
  <1> QED
    BY <1>1, <1>3, <1>6, <1>7, <1>8, SourceFrame DEF WriterInv

(* Every step leaves every run its source. *)
LEMMA SourceStep ==
    ASSUME TypeInv, WriterInv, SourceInv, [Next]_vars PROVE SourceInv'
  <1>1. ASSUME NEW r \in Runner, Step(r) \/ Call(r) \/ CallFails(r) \/ Crash(r)
        PROVE  SourceInv'
    BY <1>1, RoundSteps, EmissionSource, PersistDraftSource, OtherSource
  <1>2. CASE \/ \E u \in User, d \in Document : EditorWrites(u, d) \/ OwnerGrants(u, d)
             \/ UNCHANGED vars
    <2>1. \A id \in RunId : Kept(id)
      BY <1>2, OutsideKept
    <2>2. \A o \in Runner : pc'[o] \in Working => Steady(o)
      BY <1>2, OutsideSteady
    <2>3. UNCHANGED runs
      BY <1>2, OutsideStep DEF vars, repoVars
    <2>4. versions \subseteq versions'
      BY NextGrows
    <2> QED
      BY <2>1, <2>2, <2>3, <2>4, SourceFrame DEF WriterInv
  <1> QED
    BY <1>1, <1>2 DEF Next

(* Two versions of a document have different numbers. *)
Numbered == \A v, w \in versions : Ref(v) = Ref(w) => v = w

(* Whoever stores a version, its number is new. *)
LEMMA NumberedStep ==
    ASSUME TypeInv, Numbered, [Next]_vars PROVE Numbered'
  <1>1. CASE UNCHANGED versions
    BY <1>1 DEF Numbered, Ref
  <1>2. ASSUME NEW u, NEW row, CreateVersion(u, row), row.number \in Nat PROVE Numbered'
    <2>1. versions' = versions \cup {row} /\ IsNextNumber(row.document, row.number)
      BY <1>2 DEF CreateVersion, CanCreateVersion
    <2>2. \A v \in versions : v.number \in Nat
      BY DEF TypeInv, RepoTypeOK, VersionRow
    <2>3. \A v \in versions : Ref(v) # Ref(row)
      BY <1>2, <2>1, <2>2 DEF IsNextNumber, Ref
    <2> QED
      BY <2>1, <2>3 DEF Numbered, Ref
  <1>3. ASSUME NEW r \in Runner, PersistDraft(r) PROVE Numbered'
    <2>1. CreateVersion(UserOf(r), DraftRow(r)) /\ DraftRow(r).number \in Nat
      BY <1>3 DEF PersistDraft, DraftRow, TypeInv, LocalTypeOK
    <2> QED
      BY <1>2, <2>1
  <1>4. ASSUME NEW u \in User, NEW d \in Document, EditorWrites(u, d) PROVE Numbered'
    <2>1. PICK n \in 1 .. MaxVersions, text \in EditorContent :
            CreateVersion(u, [document |-> d, number |-> n, content |-> text,
                              author |-> u, run |-> NoRun])
      BY <1>4 DEF EditorWrites
    <2>2. n \in Nat
      BY WorkflowConstants
    <2> QED
      BY <1>2, <2>1, <2>2
  <1>5. ASSUME NEW u \in User, NEW d \in Document, OwnerGrants(u, d) PROVE UNCHANGED versions
    BY <1>5 DEF OwnerGrants
  <1>6. ASSUME NEW r \in Runner, Step(r) \/ Call(r) \/ CallFails(r) \/ Crash(r), ~ PersistDraft(r)
        PROVE  UNCHANGED versions
    BY <1>6, TableStep
  <1> QED
    BY <1>1, <1>3, <1>4, <1>5, <1>6 DEF Next, vars, repoVars

-----------------------------------------------------------------------------
(* Monitors beside them *)

WorldInv == TypeInv /\ WriterInv /\ ScopeInv

(* What any step leaves of the record of the run, and of the faults. *)
RecordKept ==
    /\ Ended =>
        /\ Ended'
        /\ runs'[Subject] = runs[Subject]
        /\ EventsOf(Subject)' = EventsOf(Subject)
        /\ HandoffsOf(Subject)' = HandoffsOf(Subject)
        /\ VersionsOf(Subject)' = VersionsOf(Subject)
    /\ faults' \in {faults, faults + 1}

(* A monitor writes nothing that runners and editors read. *)
LEMMA MonitorStep ==
    ASSUME [MonitorNext]_allVars
    PROVE  \/ [Next]_vars
           \/ /\ UNCHANGED <<repoVars, pc, localVars, facts, grants>>
              /\ faults' \in {faults, faults + 1}
              /\ crashes' \in {crashes, crashes + 1}
  <1> USE DEF Goes, Moves, Exits, ReadsInto
  <1>1. CASE Next \/ UNCHANGED allVars
    BY <1>1 DEF allVars
  <1>2. ASSUME NEW p \in Process, CollectsBundle(p)
        PROVE  UNCHANGED vars
    BY <1>2 DEF CollectsBundle, AskBundle, ReadRun, RefuseUnended, ReadEvents,
           ReadHandoffs, ReadVersions, BuildBundle, RefuseBundle
  <1>3. CASE LacksRules \/ EndWithoutBundle \/ OpenBundle \/ WriteBundle
    BY <1>3 DEF LacksRules, EndWithoutBundle, OpenBundle, WriteBundle
  <1>4. ASSUME NEW p \in Process, FileCallFails(p) \/ Dies(p)
        PROVE  /\ UNCHANGED <<repoVars, pc, localVars, facts, grants>>
               /\ faults' \in {faults, faults + 1}
               /\ crashes' \in {crashes, crashes + 1}
    BY <1>4 DEF FileCallFails, Dies
  <1>5. ASSUME NEW p \in Process, Judges(p), ~ FileCallFails(p), ~ Dies(p)
        PROVE  UNCHANGED vars
    BY <1>5 DEF Judges, LoadBundle, RefuseFile, Misconfigured, TakeReport, RefuseReport,
           RefuseOutput, WriteTemporary, ReplaceReport, LinkReport, LinkRefused, Unlink,
           CleanUp
  <1> QED
    BY <1>1, <1>2, <1>3, <1>4, <1>5 DEF MonitorNext

(* So the invariants of the runners hold beside monitors, and the record of *)
(* an ended run is kept.                                                   *)
LEMMA StepWorld ==
    ASSUME WorldInv, [MonitorNext]_allVars
    PROVE  WorldInv' /\ RecordKept
  <1>1. CASE [Next]_vars
    <2>1. TypeInv'
      BY <1>1, StepTypeInv DEF WorldInv
    <2> QED
      BY <1>1, <2>1, NextWriter, NextScope, EndedStays, NextGrows DEF WorldInv, RecordKept
  <1>2. CASE /\ UNCHANGED <<repoVars, pc, localVars, facts, grants>>
             /\ faults' \in {faults, faults + 1}
             /\ crashes' \in {crashes, crashes + 1}
    <2>1. TypeInv'
      BY <1>2 DEF WorldInv, repoVars, localVars, counters, progress, reading, replyVars,
            TypeInv, RepoTypeOK, LocalTypeOK, Control, ControlAt
    <2>2. WriterInv' /\ ScopeInv'
      BY <1>2 DEF WorldInv, repoVars, localVars, counters, WriterInv, Alone, Unborn,
            Readable, HasAccess, OwnsRun, RunOf, UserOf, DocumentOf, ScopeInv
    <2> QED
      BY <1>2, <2>1, <2>2 DEF WorldInv, RecordKept, Ended, StatusOf, EventsOf, HandoffsOf,
            VersionsOf, repoVars
  <1> QED
    BY <1>1, <1>2, MonitorStep

(* What the log, the statuses and the versions of all runs say together. *)
EvidenceInv ==
    FreshInv /\ CompletionInv /\ EndingInv /\ LogInv /\ SourceInv /\ Numbered

(* At first nothing is recorded, and a document has at most one version. *)
LEMMA InitEvidence == Init => EvidenceInv
  <1>1. Init => FreshInv
    BY DEF Init, FreshInv
  <1>2. Init => Numbered
    BY WorkflowConstants DEF Init, Numbered, Ref
  <1> QED
    BY <1>1, <1>2, InitCompletion, InitEnding, InitLog, InitSource DEF EvidenceInv

(* It holds beside monitors, too. *)
LEMMA StepEvidence ==
    ASSUME WorldInv, EvidenceInv, [MonitorNext]_allVars
    PROVE  EvidenceInv'
  <1>1. WorldInv' /\ faults \in Nat
    BY StepWorld DEF WorldInv, TypeInv, LocalTypeOK
  <1>2. CASE [Next]_vars
    <2>1. FreshInv'
      BY <1>2, FreshStep DEF WorldInv, EvidenceInv
    <2>2. CompletionInv'
      BY <1>1, <1>2, CompletionStep DEF WorldInv, EvidenceInv
    <2>3. EndingInv'
      BY <1>2, EndingStep DEF WorldInv, EvidenceInv
    <2>4. LogInv'
      BY <1>2, LogStep DEF WorldInv, EvidenceInv
    <2>5. SourceInv'
      BY <1>2, SourceStep DEF WorldInv, EvidenceInv
    <2>6. Numbered'
      BY <1>2, NumberedStep DEF WorldInv, EvidenceInv
    <2> QED
      BY <2>1, <2>2, <2>3, <2>4, <2>5, <2>6 DEF EvidenceInv
  <1>3. CASE /\ UNCHANGED <<repoVars, pc, localVars, facts, grants>>
             /\ faults' \in {faults, faults + 1}
    <2>1. /\ UNCHANGED <<runs, events, handoffs, versions, facts, pc, context, result>>
          /\ UNCHANGED <<eventSequence, handoffSequence, current, asking, draft, reply>>
          /\ UNCHANGED <<revisionCount, pushed>>
      BY <1>3 DEF repoVars, localVars, counters, progress, reading, replyVars
    <2>2. \A id \in RunId : Kept(id)
      BY <2>1 DEF Kept, EventsOf, VersionsOf, HandoffsOf
    <2>3. \A o \in Runner : pc'[o] \in Working => Steady(o) /\ Still(o)
      BY <2>1, <2>2, ActiveContext DEF WorldInv, Steady, Still
    <2>4. FreshInv' /\ Numbered'
      BY <2>1 DEF EvidenceInv, FreshInv, Numbered, Ref
    <2>5. CompletionInv'
      BY <2>1, <2>3, SilentCompletion DEF EvidenceInv
    <2>6. EndingInv'
      BY <2>1 DEF EvidenceInv, EndingInv, TerminalMatchesLog, ResultIsPersisted, EndsWith,
         EventsOf, StatusOf, RunOf
    <2>7. LogInv'
      BY <1>1, <1>3, <2>2, <2>3, LogFrame DEF EvidenceInv
    <2>8. SourceInv'
      BY <2>1, <2>2, <2>3, SourceFrame DEF EvidenceInv, WorldInv, WriterInv
    <2> QED
      BY <2>4, <2>5, <2>6, <2>7, <2>8 DEF EvidenceInv
  <1> QED
    BY <1>2, <1>3, MonitorStep

-----------------------------------------------------------------------------
(* The types of the monitors' variables *)

(* The reads come in this order. *)
LEMMA Reads ==
    /\ AfterRead("run") = "events"
    /\ AfterRead("events") = "handoffs"
    /\ AfterRead("handoffs") = "versions"
    /\ AfterRead("versions") = "check"
    /\ ReadPhase = {"run", "events", "handoffs", "versions"}
    /\ ReadOrder[1] = "run"
  <1>1. /\ Len(ReadOrder) = 4
        /\ ReadOrder[1] = "run" /\ ReadOrder[2] = "events"
        /\ ReadOrder[3] = "handoffs" /\ ReadOrder[4] = "versions"
    BY DEF ReadOrder
  <1>2. 1 .. 4 = {1, 2, 3, 4}
    OBVIOUS
  <1>3. /\ (CHOOSE i \in 1 .. 4 : ReadOrder[i] = "run") = 1
        /\ (CHOOSE i \in 1 .. 4 : ReadOrder[i] = "events") = 2
        /\ (CHOOSE i \in 1 .. 4 : ReadOrder[i] = "handoffs") = 3
        /\ (CHOOSE i \in 1 .. 4 : ReadOrder[i] = "versions") = 4
    BY <1>1, <1>2
  <1> QED
    BY <1>1, <1>2, <1>3 DEF AfterRead, ReadPhase

(* At first nothing is read and no file exists. *)
LEMMA InitMonitorTypeInv == MonitorInit => MonitorTypeInv
  BY BundleConstants DEF MonitorInit, MonitorTypeInv, MonitorPoints, Bundle, NothingHeld,
     Path, Process, NoExit, Died

(* Asking for the bundle and reading it keeps the types. *)
LEMMA CollectTypeInv ==
    ASSUME WorldInv, MonitorTypeInv, NEW p \in Process, CollectsBundle(p),
           UNCHANGED monitorVars
    PROVE  MonitorTypeInv'
  <1>1. /\ held[p] \in Bundle
        /\ EventsOf(Subject) \in SUBSET EventRow
        /\ HandoffsOf(Subject) \in SUBSET HandoffRow
        /\ runs[Subject] \in RunRow \cup {NoRun}
        /\ versions \subseteq VersionRow
    BY BundleConstants DEF WorldInv, TypeInv, RepoTypeOK, EventsOf, HandoffsOf,
       MonitorTypeInv
  <1>2. held' \in [Process -> Bundle]
    <2>1. ASSUME NEW b \in Bundle, held' = [held EXCEPT ![p] = b]
          PROVE  held' \in [Process -> Bundle]
      BY <2>1 DEF MonitorTypeInv
    <2>2. \/ UNCHANGED held
          \/ \E run \in RunRow \cup {NoRun} : held' = [held EXCEPT ![p].run = run]
          \/ \E rows \in SUBSET EventRow : held' = [held EXCEPT ![p].events = rows]
          \/ \E rows \in SUBSET HandoffRow : held' = [held EXCEPT ![p].handoffs = rows]
          \/ \E rows \in SUBSET VersionRow : held' = [held EXCEPT ![p].versions = rows]
      BY <1>1 DEF CollectsBundle, AskBundle, ReadRun, RefuseUnended, ReadEvents,
           ReadHandoffs, ReadVersions, BuildBundle, RefuseBundle
    <2>3. \A run \in RunRow \cup {NoRun} : [held[p] EXCEPT !.run = run] \in Bundle
      BY <1>1 DEF Bundle
    <2>4. \A rows \in SUBSET EventRow : [held[p] EXCEPT !.events = rows] \in Bundle
      BY <1>1 DEF Bundle
    <2>5. \A rows \in SUBSET HandoffRow : [held[p] EXCEPT !.handoffs = rows] \in Bundle
      BY <1>1 DEF Bundle
    <2>6. \A rows \in SUBSET VersionRow : [held[p] EXCEPT !.versions = rows] \in Bundle
      BY <1>1 DEF Bundle
    <2> QED
      BY <2>1, <2>2, <2>3, <2>4, <2>5, <2>6 DEF MonitorTypeInv
  <1>3. /\ at' \in [Process -> MonitorPoints]
        /\ \A q \in Process : at'[q] = "publish" => at[q] = "publish"
    BY Reads DEF CollectsBundle, AskBundle, ReadRun, RefuseUnended, ReadEvents,
       ReadHandoffs, ReadVersions, BuildBundle, RefuseBundle, ReadsInto, Moves,
       MonitorTypeInv, MonitorPoints, AskingPoints
  <1> QED
    BY <1>2, <1>3 DEF MonitorTypeInv, monitorVars

(* Writing the bundle, judging it and publishing keep the types. *)
LEMMA JudgeTypeInv ==
    ASSUME WorldInv, MonitorTypeInv, NEW p \in Process,
           LacksRules \/ EndWithoutBundle \/ OpenBundle \/ WriteBundle \/ Judges(p)
    PROVE  MonitorTypeInv'
  <1> USE DEF MonitorTypeInv, Goes, Moves, Exits, MonitorPoints, AskingPoints,
            JudgingPoints, ReportPoints, Uncaught
  <1>1. NothingHeld \in Bundle
    BY DEF NothingHeld, Bundle
  <1>2. Demo \in Process /\ {0, 1, 2, 3, 4} \cap {Died, NoExit} = {} /\ DemoExit \in {0, 1}
    BY DEF Process, Died, NoExit, DemoExit
  <1>3. CASE LacksRules \/ EndWithoutBundle
    BY <1>1, <1>2, <1>3 DEF LacksRules, EndWithoutBundle, SettingsExits
  <1>4. CASE OpenBundle
    BY <1>4 DEF OpenBundle, Path
  <1>5. CASE WriteBundle
    BY <1>2, <1>5 DEF WriteBundle, Path
  <1>6. CASE LoadBundle(p)
    <2>1. /\ files["bundle"] \in Bundle
          /\ held' = [held EXCEPT ![p] = files["bundle"]]
          /\ at' = [at EXCEPT ![p] = "respond"]
          /\ UNCHANGED <<files, temporary, judged, published, exit>>
          /\ \E f \in BOOLEAN : forced' = [forced EXCEPT ![p] = f]
          /\ \E path \in Path : target' = [target EXCEPT ![p] = path]
      BY <1>6 DEF LoadBundle
    <2> QED
      BY <2>1
  <1>7. CASE RefuseFile(p) \/ Misconfigured(p) \/ RefuseReport(p)
    BY <1>2, <1>7, BundleConstants
       DEF RefuseFile, Misconfigured, RefuseReport, ExitWithout, SettingsExits
  <1>8. CASE TakeReport(p)
    <2>1. PICK ref \in Cited : judged' = [judged EXCEPT ![p] = ref]
      BY <1>8 DEF TakeReport
    <2> QED
      BY <1>8, <2>1, MonitorConstants DEF TakeReport
  <1>9. CASE RefuseOutput(p) \/ CleanUp(p)
    BY <1>2, <1>9 DEF RefuseOutput, CleanUp, ExitUnpublished
  <1>10. CASE WriteTemporary(p)
    BY <1>10 DEF WriteTemporary, CanPersist, Path
  <1>11. ReportBy(p) \in Report
    BY DEF ReportBy, Report, Process
  <1>12. CASE ReplaceReport(p)
    BY <1>2, <1>11, <1>12 DEF ReplaceReport
  <1>13. CASE LinkReport(p)
    BY <1>11, <1>13 DEF LinkReport
  <1>14. CASE LinkRefused(p)
    BY <1>14 DEF LinkRefused, monitorVars
  <1>15. CASE Unlink(p)
    BY <1>2, <1>15 DEF Unlink
  <1>16. CASE FileCallFails(p)
    <2>1. /\ at' \in [Process -> MonitorPoints]
          /\ \A q \in Process : at'[q] = "publish" => at[q] = "publish"
          /\ temporary' \subseteq Process
          /\ UNCHANGED <<held, files, forced, target, judged, published>>
      BY <1>16 DEF FileCallFails
    <2>2. UNCHANGED exit \/ exit' = [exit EXCEPT ![p] = ExitUnpublished(p)]
            \/ exit' = [exit EXCEPT ![p] = 2]
      BY <1>16 DEF FileCallFails
    <2> QED
      BY <1>2, <2>1, <2>2 DEF ExitUnpublished
  <1>17. CASE Dies(p)
    BY <1>17 DEF Dies
  <1> QED
    BY <1>3, <1>4, <1>5, <1>6, <1>7, <1>8, <1>9, <1>10, <1>12, <1>13, <1>14, <1>15,
       <1>16, <1>17 DEF Judges

(* Every step of anybody keeps the types. *)
LEMMA StepMonitorTypeInv ==
    ASSUME WorldInv, MonitorTypeInv, [MonitorNext]_allVars
    PROVE  MonitorTypeInv'
  <1>1. CASE UNCHANGED <<bundleVars, monitorVars>>
    BY <1>1 DEF bundleVars, monitorVars, MonitorTypeInv
  <1>2. Demo \in Process
    BY DEF Process
  <1> QED
    BY <1>1, <1>2, CollectTypeInv, JudgeTypeInv DEF MonitorNext, allVars

-----------------------------------------------------------------------------
(* What processes hold *)

(* A process that does not move holds what it held. *)
LEMMA HeldFrame ==
    ASSUME RecordKept, NEW p \in Process, HeldAt(p), at'[p] = at[p], held'[p] = held[p]
    PROVE  HeldAt(p)'
  BY DEF RecordKept, HeldAt, Whole, NothingHeld

(* One that goes on after the check holds the whole record. *)
LEMMA HeldGoes ==
    ASSUME RecordKept, NEW p \in Process, HeldAt(p), held'[p] = held[p],
           at[p] \in {"check", "built", "write_bundle"} \cup JudgingPoints,
           at'[p] \in {"built", "refused", "write_bundle", "ended"} \cup JudgingPoints
    PROVE  HeldAt(p)'
  BY DEF RecordKept, HeldAt, Whole, JudgingPoints, ReportPoints

(* The reads of a run that has ended collect its whole record, since nobody *)
(* writes between them.                                                    *)
LEMMA CollectHeld ==
    ASSUME WorldInv, MonitorTypeInv, HeldInv, RecordKept,
           NEW p \in Process, CollectsBundle(p), UNCHANGED monitorVars
    PROVE  HeldInv'
  <1>1. HeldAt(p) /\ held[p] \in Bundle
    BY DEF HeldInv, MonitorTypeInv
  <1>2. UNCHANGED vars
    BY DEF CollectsBundle, AskBundle, ReadRun, RefuseUnended, ReadEvents,
       ReadHandoffs, ReadVersions, BuildBundle, RefuseBundle, Moves, ReadsInto
  <1>3. /\ Ended' = Ended
        /\ runs' = runs
        /\ EventsOf(Subject)' = EventsOf(Subject)
        /\ HandoffsOf(Subject)' = HandoffsOf(Subject)
        /\ VersionsOf(Subject)' = VersionsOf(Subject)
    BY <1>2 DEF vars, repoVars, Ended, StatusOf, EventsOf, HandoffsOf, VersionsOf
  <1>4. ASSUME NEW q \in Process, q # p PROVE HeldAt(q)'
    <2>1. at'[q] = at[q] /\ held'[q] = held[q]
      BY <1>4 DEF CollectsBundle, AskBundle, ReadRun, RefuseUnended, ReadEvents,
         ReadHandoffs, ReadVersions, BuildBundle, RefuseBundle, Moves, ReadsInto,
         MonitorTypeInv
    <2> QED
      BY <2>1, HeldFrame DEF HeldInv
  <1>5. HeldAt(p)'
    <2> USE DEF ReadsInto, Moves, MonitorTypeInv, JudgingPoints, ReportPoints
    <2>1. CASE AskBundle(p)
      BY <1>1, <2>1, Reads DEF AskBundle, HeldAt, NothingHeld
    <2>2. CASE ReadRun(p)
      <3>1. Ended
        BY <2>2 DEF ReadRun, Ended, StatusOf
      <3>2. at'[p] = "events" /\ held'[p].run = runs[Subject]
        BY <1>1, <2>2, Reads DEF ReadRun, Bundle
      <3> QED
        BY <1>3, <3>1, <3>2 DEF HeldAt
    <2>3. CASE RefuseUnended(p)
      BY <2>3 DEF RefuseUnended, HeldAt
    <2>4. CASE ReadEvents(p)
      <3>1. /\ at[p] = "events" /\ at'[p] = "handoffs"
            /\ held'[p].run = held[p].run
            /\ held'[p].events = EventsOf(Subject)
        BY <1>1, <2>4, Reads DEF ReadEvents, Bundle
      <3> QED
        BY <1>1, <1>3, <3>1 DEF HeldAt
    <2>5. CASE ReadHandoffs(p)
      <3>1. /\ at[p] = "handoffs" /\ at'[p] = "versions"
            /\ held'[p].run = held[p].run
            /\ held'[p].events = held[p].events
            /\ held'[p].handoffs = HandoffsOf(Subject)
        BY <1>1, <2>5, Reads DEF ReadHandoffs, Bundle
      <3> QED
        BY <1>1, <1>3, <3>1 DEF HeldAt
    <2>6. CASE ReadVersions(p)
      <3>1. /\ at[p] = "versions" /\ at'[p] = "check"
            /\ held'[p].run = held[p].run
            /\ held'[p].events = held[p].events
            /\ held'[p].handoffs = held[p].handoffs
            /\ held'[p].versions =
                    {v \in versions :
                        /\ v.document = held[p].run.document
                        /\ v.run = Subject \/ Ref(v) = SourceRef(held[p].events)}
        BY <1>1, <2>6, Reads DEF ReadVersions, Bundle
      <3>2. VersionsOf(Subject) \subseteq held'[p].versions
        BY <1>1, <3>1, BundleConstants DEF HeldAt, WorldInv, ScopeInv, VersionsOf
      <3> QED
        BY <1>1, <1>3, <3>1, <3>2 DEF HeldAt, Whole
    <2>7. CASE BuildBundle(p) \/ RefuseBundle(p)
      BY <1>1, <2>7, HeldGoes DEF BuildBundle, RefuseBundle
    <2> QED
      BY <2>1, <2>2, <2>3, <2>4, <2>5, <2>6, <2>7 DEF CollectsBundle
  <1> QED
    BY <1>4, <1>5 DEF HeldInv

(* Judging passes the bundle on as it is. *)
LEMMA JudgeHeld ==
    ASSUME MonitorTypeInv, HeldInv, JudgeInv, RecordKept, NEW p \in Process,
           LacksRules \/ EndWithoutBundle \/ OpenBundle \/ WriteBundle \/ Judges(p)
    PROVE  HeldInv'
  <1> USE DEF MonitorTypeInv, Goes, Moves, Exits, JudgingPoints, ReportPoints
  <1>1. Demo \in Process
    BY DEF Process
  <1>2. CASE LacksRules \/ EndWithoutBundle
    <2>1. HeldAt(Demo)'
      BY <1>1, <1>2 DEF LacksRules, EndWithoutBundle, HeldInv, HeldAt, NothingHeld
    <2>2. \A q \in Process \ {Demo} : at'[q] = at[q] /\ held'[q] = held[q]
      BY <1>2 DEF LacksRules, EndWithoutBundle
    <2> QED
      BY <2>1, <2>2, HeldFrame DEF HeldInv
  <1>3. CASE OpenBundle \/ WriteBundle
    <2>1. /\ at[Demo] \in {"built", "write_bundle"} /\ at'[Demo] \in {"write_bundle", "respond"}
          /\ UNCHANGED held
          /\ \A q \in Process \ {Demo} : at'[q] = at[q]
      BY <1>1, <1>3 DEF OpenBundle, WriteBundle
    <2> QED
      BY <1>1, <2>1, HeldFrame, HeldGoes DEF HeldInv
  <1>4. CASE LoadBundle(p)
    <2>1. Whole(held[Demo]) /\ files["bundle"] = held[Demo]
      BY <1>4 DEF LoadBundle, JudgeInv, Delivered
    <2>2. at'[p] = "respond" /\ held'[p] = held[Demo]
      BY <1>4, <2>1 DEF LoadBundle
    <2>3. \A q \in Process \ {p} : at'[q] = at[q] /\ held'[q] = held[q]
      BY <1>4 DEF LoadBundle
    <2>4. HeldAt(p)'
      BY <2>1, <2>2 DEF HeldAt, Whole, RecordKept
    <2> QED
      BY <2>3, <2>4, HeldFrame DEF HeldInv
  <1>5. CASE RefuseFile(p)
    <2>1. /\ at[p] = "idle" /\ at'[p] = "ended" /\ UNCHANGED held
          /\ \A q \in Process \ {p} : at'[q] = at[q]
      BY <1>5 DEF RefuseFile
    <2>2. HeldAt(p)'
      BY <2>1 DEF HeldInv, HeldAt, NothingHeld
    <2> QED
      BY <2>1, <2>2, HeldFrame DEF HeldInv
  <1>6. CASE Judges(p) /\ ~ LoadBundle(p) /\ ~ RefuseFile(p)
    <2>1. /\ at[p] \in {"built", "write_bundle"} \cup JudgingPoints
          /\ at'[p] \in {"ended"} \cup JudgingPoints
          /\ UNCHANGED held
          /\ \A q \in Process \ {p} : at'[q] = at[q]
      BY <1>6 DEF Judges, Misconfigured, TakeReport, RefuseReport, RefuseOutput,
         WriteTemporary, ReplaceReport, LinkReport, LinkRefused, Unlink, CleanUp,
         FileCallFails, Dies, Judging
    <2> QED
      BY <2>1, HeldFrame, HeldGoes DEF HeldInv
  <1> QED
    BY <1>2, <1>3, <1>4, <1>5, <1>6

-----------------------------------------------------------------------------
(* What is judged and published *)

(* A bundle that is delivered stays so. *)
LEMMA DeliveredStays ==
    ASSUME RecordKept, Delivered, held'[Demo] = held[Demo],
           files'["bundle"] = files["bundle"],
           at'[Demo] \in JudgingPoints \cup {"ended"}
    PROVE  Delivered'
  BY DEF RecordKept, Delivered, Whole

(* While the demo collects its bundle nothing is delivered. *)
LEMMA CollectJudge ==
    ASSUME MonitorTypeInv, JudgeInv, NEW p \in Process, CollectsBundle(p),
           UNCHANGED monitorVars
    PROVE  JudgeInv'
  <1>1. /\ at[p] \in {"idle"} \cup (AskingPoints \ {"write_bundle"})
        /\ at'[p] \in AskingPoints \ {"write_bundle"}
        /\ \A q \in Process \ {p} : at'[q] = at[q] /\ held'[q] = held[q]
        /\ at[p] = "idle" => p = Demo
    BY Reads DEF CollectsBundle, AskBundle, ReadRun, RefuseUnended, ReadEvents,
       ReadHandoffs, ReadVersions, BuildBundle, RefuseBundle, ReadsInto, Moves,
       MonitorTypeInv, AskingPoints
  <1>2. p = Demo
    BY <1>1 DEF JudgeInv, Process
  <1>3. ~ Delivered
    BY <1>1, <1>2 DEF Delivered, AskingPoints, JudgingPoints, ReportPoints
  <1>4. \A q \in Process : at'[q] \notin JudgingPoints
    <2>1. \A q \in Process : at[q] \notin JudgingPoints
      BY <1>3 DEF JudgeInv
    <2> QED
      BY <1>1, <2>1 DEF AskingPoints, JudgingPoints, ReportPoints
  <1>5. /\ UNCHANGED <<files, forced>>
        /\ files["bundle"] \in {NoFile, Cut}
        /\ files["report"] = NoFile
    BY <1>3 DEF JudgeInv, monitorVars
  <1>6. /\ \A q \in Cli : at'[q] \notin AskingPoints
        /\ at'[Demo] # "write_bundle"
    BY <1>1, <1>2, BundleConstants DEF JudgeInv, Process
  <1> QED
    BY <1>4, <1>5, <1>6 DEF JudgeInv, JudgingPoints

(* The shape of the steps by which a process judges a delivered bundle. *)
JudgesOn(p) ==
    /\ at[p] \in JudgingPoints
    /\ at'[p] \in JudgingPoints \cup {"ended"}
    /\ \A q \in Process \ {p} : at'[q] = at[q]
    /\ UNCHANGED <<held, forced>>
    /\ files'["bundle"] = files["bundle"]
    /\ \A q \in Process \ {p} : judged'[q] = judged[q]
    /\ at'[p] \in ReportPoints => judged'[p] \in {NoVersion} \cup References(held[p])
    /\ files'["report"] # files["report"] =>
            files'["report"].cites \in {NoVersion} \cup References(held[p])

(* Such a step leaves the bundle alone and cites what is in it. *)
LEMMA JudgesOnKeeps ==
    ASSUME MonitorTypeInv, JudgeInv, RecordKept, NEW p \in Process, JudgesOn(p)
    PROVE  JudgeInv'
  <1> USE DEF JudgesOn
  <1>1. Demo \in Process /\ Cli \subseteq Process
    BY DEF Process
  <1>2. Delivered /\ held[p] = held[Demo]
    BY DEF JudgeInv
  <1>3. Delivered'
    <2>1. at'[Demo] \in JudgingPoints \cup {"ended"}
      BY <1>1, <1>2 DEF Delivered
    <2> QED
      BY <1>2, <2>1, DeliveredStays
  <1>4. /\ forced'[Demo] = FALSE
        /\ \A q \in Cli : at'[q] \notin AskingPoints
        /\ at'[Demo] # "write_bundle"
    BY <1>1, <1>3 DEF JudgeInv, Delivered, AskingPoints, JudgingPoints, ReportPoints
  <1>5. ASSUME NEW q \in Process
        PROVE  /\ at'[q] \in JudgingPoints => held'[q] = held'[Demo]
               /\ at'[q] \in ReportPoints =>
                        judged'[q] \in {NoVersion} \cup References(held'[q])
    BY <1>2 DEF JudgeInv
  <1>6. files'["report"] # NoFile =>
            files'["report"].cites \in {NoVersion} \cup References(held'[Demo])
    BY <1>2 DEF JudgeInv
  <1> QED
    BY <1>3, <1>4, <1>5, <1>6 DEF JudgeInv, References

(* Every step of a process that judges has that shape. *)
LEMMA JudgesOnSteps ==
    ASSUME MonitorTypeInv, JudgeInv, NEW p \in Process,
           Judges(p), at[p] \in JudgingPoints
    PROVE  JudgesOn(p)
  <1> USE DEF MonitorTypeInv, Goes, Moves, Exits, JudgingPoints, ReportPoints, JudgesOn
  <1>1. CASE Misconfigured(p) \/ RefuseReport(p)
    BY <1>1 DEF Misconfigured, RefuseReport
  <1>2. CASE TakeReport(p)
    <2>1. PICK ref \in Cited :
            MayCite(p, ref) /\ judged' = [judged EXCEPT ![p] = ref]
      BY <1>2 DEF TakeReport
    <2> QED
      BY <1>2, <2>1 DEF TakeReport, MayCite
  <1>3. at[p] \in ReportPoints => judged[p] \in {NoVersion} \cup References(held[p])
    BY DEF JudgeInv
  <1>4. CASE RefuseOutput(p) \/ WriteTemporary(p) \/ LinkRefused(p) \/ Unlink(p)
                \/ CleanUp(p)
    BY <1>3, <1>4 DEF RefuseOutput, WriteTemporary, LinkRefused, Unlink, CleanUp,
       monitorVars
  <1>5. CASE ReplaceReport(p) \/ LinkReport(p)
    <2>1. /\ files' = [files EXCEPT !["report"] = ReportBy(p)]
          /\ UNCHANGED <<judged, forced, held>>
          /\ at[p] = "publish" /\ at'[p] \in {"ended", "unlink"}
          /\ \A q \in Process \ {p} : at'[q] = at[q]
      BY <1>5 DEF ReplaceReport, LinkReport
    <2>2. files'["bundle"] = files["bundle"] /\ files'["report"].cites = judged[p]
      BY <2>1 DEF Path, ReportBy
    <2> QED
      BY <1>3, <2>1, <2>2
  <1>6. CASE FileCallFails(p) \/ Dies(p)
    <2>1. /\ UNCHANGED <<files, forced, judged, held>>
          /\ at'[p] \in {"ended", "clean_up"}
          /\ at'[p] = "clean_up" => at[p] \in ReportPoints
          /\ \A q \in Process \ {p} : at'[q] = at[q]
      BY <1>6 DEF FileCallFails, Dies
    <2> QED
      BY <1>3, <2>1
  <1> QED
    BY <1>1, <1>2, <1>4, <1>5, <1>6 DEF Judges, LoadBundle, RefuseFile

(* The demo's steps around its file. *)
LEMMA DemoJudge ==
    ASSUME MonitorTypeInv, HeldInv, JudgeInv, RecordKept,
           \/ LacksRules \/ EndWithoutBundle \/ OpenBundle \/ WriteBundle
           \/ /\ FileCallFails(Demo) \/ Dies(Demo)
              /\ at[Demo] \notin JudgingPoints
    PROVE  JudgeInv'
  <1> USE DEF MonitorTypeInv, Goes, Moves, Exits, JudgingPoints, ReportPoints
  <1>1. Demo \in Process /\ Cli \subseteq Process /\ Demo \notin Cli
    BY BundleConstants DEF Process
  <1>2. /\ at[Demo] \in {"idle", "refused", "built", "write_bundle"}
        /\ UNCHANGED forced
        /\ \A q \in Process \ {Demo} :
                at'[q] = at[q] /\ held'[q] = held[q] /\ judged'[q] = judged[q]
    BY <1>1 DEF LacksRules, EndWithoutBundle, OpenBundle, WriteBundle, FileCallFails, Dies, Judging
  <1>3. /\ ~ Delivered
        /\ \A q \in Process : at[q] \notin JudgingPoints
        /\ files["bundle"] \in {NoFile, Cut}
        /\ files["report"] = NoFile
    BY <1>2 DEF Delivered, JudgeInv
  <1>4. /\ \A q \in Process \ {Demo} : at'[q] \notin JudgingPoints
        /\ \A q \in Cli : at'[q] \notin AskingPoints
        /\ forced'[Demo] = FALSE
    BY <1>1, <1>2, <1>3 DEF JudgeInv
  <1>5. CASE WriteBundle
    <2>1. /\ files' = [files EXCEPT !["bundle"] = held[Demo]]
          /\ at[Demo] = "write_bundle" /\ at'[Demo] = "respond"
          /\ UNCHANGED held
      BY <1>1, <1>5 DEF WriteBundle
    <2>2. Whole(held[Demo])
      BY <1>1, <2>1 DEF HeldInv, HeldAt
    <2>3. Delivered' /\ files'["report"] = NoFile
      BY <1>3, <2>1, <2>2 DEF Delivered, Whole, RecordKept, Path
    <2> QED
      BY <1>4, <2>1, <2>3 DEF JudgeInv
  <1>6. CASE ~ WriteBundle
    <2>1. /\ at'[Demo] \in {"write_bundle", "ended"}
          /\ at'[Demo] = "write_bundle" => files'["bundle"] = Cut
          /\ files'["bundle"] \in {NoFile, Cut}
          /\ files'["report"] = NoFile
      BY <1>1, <1>3, <1>6
         DEF LacksRules, EndWithoutBundle, OpenBundle, FileCallFails, Dies, Path
    <2> QED
      BY <1>4, <2>1 DEF JudgeInv
  <1> QED
    BY <1>5, <1>6

(* A process that starts with the file either takes it whole or ends. *)
LEMMA LoadJudge ==
    ASSUME MonitorTypeInv, JudgeInv, RecordKept, NEW p \in Process,
           LoadBundle(p) \/ RefuseFile(p)
    PROVE  JudgeInv'
  <1> USE DEF MonitorTypeInv, Goes, Moves, Exits, JudgingPoints, ReportPoints
  <1>1. /\ Demo \in Process /\ Cli \subseteq Process
        /\ p \in Cli /\ p # Demo
    BY BundleConstants DEF Process, LoadBundle, RefuseFile
  <1>2. /\ UNCHANGED <<files, judged>>
        /\ at'[p] \in {"respond", "ended"}
        /\ \A q \in Process \ {p} :
                at'[q] = at[q] /\ held'[q] = held[q] /\ forced'[q] = forced[q]
        /\ at'[p] = "respond" => Delivered /\ held'[p] = held[Demo]
    BY DEF LoadBundle, RefuseFile, JudgeInv, Delivered
  <1>3. Delivered => Delivered'
    BY <1>1, <1>2, DeliveredStays DEF Delivered
  <1>4. \A q \in Process \ {p} : References(held[q])' = References(held[q])
    BY <1>2 DEF References
  <1> QED
    BY <1>1, <1>2, <1>3, <1>4 DEF JudgeInv, AskingPoints

(* Every step of anybody keeps what is judged. *)
LEMMA StepJudge ==
    ASSUME WorldInv, MonitorTypeInv, HeldInv, JudgeInv, [MonitorNext]_allVars
    PROVE  HeldInv' /\ JudgeInv'
  <1>1. RecordKept
    BY StepWorld
  <1>2. Demo \in Process
    BY DEF Process
  <1>3. CASE UNCHANGED <<bundleVars, monitorVars>>
    <2>1. HeldInv'
      BY <1>1, <1>3, HeldFrame DEF HeldInv, bundleVars
    <2>2. Delivered => Delivered'
      BY <1>1, <1>3, DeliveredStays DEF Delivered, bundleVars, monitorVars
    <2> QED
      BY <1>3, <2>1, <2>2 DEF JudgeInv, References, bundleVars, monitorVars
  <1>4. ASSUME NEW p \in Process, CollectsBundle(p), UNCHANGED monitorVars
        PROVE  HeldInv' /\ JudgeInv'
    BY <1>1, <1>4, CollectHeld, CollectJudge
  <1>5. CASE LacksRules \/ EndWithoutBundle \/ OpenBundle \/ WriteBundle
    BY <1>1, <1>2, <1>5, JudgeHeld, DemoJudge
  <1>6. ASSUME NEW p \in Process, Judges(p)
        PROVE  HeldInv' /\ JudgeInv'
    <2>1. HeldInv'
      BY <1>1, <1>6, JudgeHeld
    <2>2. CASE at[p] \in JudgingPoints
      BY <1>1, <1>6, <2>1, <2>2, JudgesOnSteps, JudgesOnKeeps
    <2>3. CASE LoadBundle(p) \/ RefuseFile(p)
      BY <1>1, <2>1, <2>3, LoadJudge
    <2>4. CASE ~ (LoadBundle(p) \/ RefuseFile(p)) /\ at[p] \notin JudgingPoints
      <3>1. /\ FileCallFails(p) \/ Dies(p)
            /\ at[p] \in {"built", "write_bundle"}
        BY <1>6, <2>4 DEF Judges, Misconfigured, TakeReport, RefuseReport, RefuseOutput,
           WriteTemporary, ReplaceReport, LinkReport, LinkRefused, Unlink, CleanUp,
           FileCallFails, Dies, Judging, Goes, Moves, Exits, JudgingPoints, ReportPoints
      <3>2. p = Demo
        BY <3>1 DEF JudgeInv, Process, AskingPoints
      <3> QED
        BY <1>1, <2>1, <2>4, <3>1, <3>2, DemoJudge
    <2> QED
      BY <2>1, <2>2, <2>3, <2>4
  <1> QED
    BY <1>3, <1>4, <1>5, <1>6 DEF MonitorNext, allVars

-----------------------------------------------------------------------------
(* Theorems *)

MonitorInv == WorldInv /\ MonitorTypeInv /\ HeldInv /\ JudgeInv

(* At first no version belongs to a run, nothing is held and nothing       *)
(* published.                                                              *)
LEMMA InitMonitorInv == MonitorInit => MonitorInv
  <1> SUFFICES ASSUME MonitorInit PROVE MonitorInv
    OBVIOUS
  <1>1. WorldInv
    <2>1. \A v \in versions : v.run = NoRun
      BY WorkflowConstants DEF MonitorInit, Init
    <2> QED
      BY <2>1, InitTypeInv, InitWriterInv, RepositoryConstants
         DEF MonitorInit, WorldInv, ScopeInv
  <1>2. HeldInv
    BY DEF MonitorInit, HeldInv, HeldAt, NothingHeld, JudgingPoints, ReportPoints
  <1>3. JudgeInv
    BY DEF MonitorInit, JudgeInv, Process, Path, AskingPoints, JudgingPoints, ReportPoints
  <1> QED
    BY <1>1, <1>2, <1>3, InitMonitorTypeInv DEF MonitorInv

(* Beside any runners, editors and monitors, the record that a process has *)
(* read is the one of the ended run, and nobody judges another.            *)
THEOREM MonitorInvariant == MonitorSpec => []MonitorInv
  <1>1. MonitorInv /\ [MonitorNext]_allVars => MonitorInv'
    BY StepWorld, StepMonitorTypeInv, StepJudge DEF MonitorInv
  <1> QED
    BY <1>1, InitMonitorInv, PTL DEF MonitorSpec

(* Every variable of the monitors keeps its type.                          *)
THEOREM MonitorTypeCorrect == MonitorSpec => []MonitorTypeOK
  <1>1. MonitorInv => MonitorTypeOK
    <2> SUFFICES ASSUME MonitorInv PROVE MonitorTypeOK
      OBVIOUS
    <2>1. \A p \in Process :
            /\ held[p].run \in RunRow \cup {NoRun}
            /\ held[p].events \subseteq EventRow
            /\ held[p].handoffs \subseteq HandoffRow
            /\ held[p].versions \subseteq VersionRow
      BY DEF MonitorInv, MonitorTypeInv, Bundle
    <2> QED
      BY <2>1 DEF MonitorInv, MonitorTypeInv, MonitorTypeOK, MonitorPoints, AskingPoints,
         JudgingPoints, ReportPoints
  <1> QED
    BY <1>1, MonitorInvariant, PTL

(* A bundle that was built is the whole and final record of its run.       *)
THEOREM BundlesAreFinal == MonitorSpec => []BundleIsFinalRecord
  <1>1. MonitorInv => BundleIsFinalRecord
    <2> SUFFICES ASSUME MonitorInv, NEW p \in Process, HasBundle(p)
                 PROVE  Whole(held[p])
      BY DEF BundleIsFinalRecord, Whole
    <2> QED
      BY Reads DEF MonitorInv, HeldInv, HeldAt, HasBundle, MonitorTypeInv, MonitorPoints,
         AskingPoints
  <1> QED
    BY <1>1, MonitorInvariant, PTL

(* A report cites only what is in its run's final record, which is beside  *)
(* it.                                                                     *)
THEOREM ReportsRestOnRecord == MonitorSpec => []ReportRestsOnRecord
  <1>1. MonitorInv => ReportRestsOnRecord
    BY DEF MonitorInv, JudgeInv, Delivered, Whole, References, ReportRestsOnRecord
  <1> QED
    BY <1>1, MonitorInvariant, PTL

(* What is at a path is replaced only by a forced report, and a written    *)
(* bundle never.                                                           *)
THEOREM ReportsStand == MonitorSpec => FirstReportStands
  <1> DEFINE Stands ==
        /\ files["report"] \notin {NoFile, files'["report"]} =>
                \E p \in Cli : forced[p] /\ at[p] = "publish" /\ at'[p] = "ended"
        /\ files["bundle"] \notin {NoFile, Cut} => files'["bundle"] = files["bundle"]
  <1>1. MonitorInv /\ [MonitorNext]_allVars => Stands
    <2> SUFFICES ASSUME MonitorInv, [MonitorNext]_allVars PROVE Stands
      OBVIOUS
    <2> USE DEF MonitorInv, MonitorTypeInv
    <2>1. CASE UNCHANGED files
      BY <2>1
    <2>2. CASE OpenBundle
      BY <2>2 DEF OpenBundle, Path
    <2>3. CASE WriteBundle
      BY <2>3 DEF WriteBundle, Path, JudgeInv, Goes, Moves
    <2>4. ASSUME NEW p \in Process, LinkReport(p) PROVE Stands
      BY <2>4 DEF LinkReport, Path, Goes, Moves
    <2>5. ASSUME NEW p \in Process, ReplaceReport(p) PROVE Stands
      <3>1. p \in Cli
        BY <2>5 DEF ReplaceReport, JudgeInv, Process
      <3>2. /\ forced[p] /\ at[p] = "publish" /\ at'[p] = "ended"
            /\ target[p] = "report"
            /\ files' = [files EXCEPT !["report"] = ReportBy(p)]
        BY <2>5 DEF ReplaceReport, Exits, Goes, Moves
      <3> QED
        BY <3>1, <3>2 DEF Path
    <2>6. ASSUME NEW p \in Process, Judges(p), ~ LinkReport(p), ~ ReplaceReport(p)
          PROVE  UNCHANGED files
      BY <2>6 DEF Judges, LoadBundle, RefuseFile, Misconfigured, TakeReport, RefuseReport,
         RefuseOutput, WriteTemporary, LinkRefused, Unlink, CleanUp, FileCallFails, Dies,
         monitorVars
    <2> QED
      BY <2>1, <2>2, <2>3, <2>4, <2>5, <2>6
         DEF MonitorNext, LacksRules, EndWithoutBundle, monitorVars, allVars
  <1> QED
    BY <1>1, MonitorInvariant, PTL DEF MonitorSpec, FirstReportStands

-----------------------------------------------------------------------------
(* What is in a bundle.  Besides its own versions, the bundle of a run holds *)
(* at most the one that its Executor was first shown, and it does hold that  *)
(* one if the run completed.                                               *)

Collected(b) ==
    /\ \A v \in b.versions :
            /\ v \in versions /\ v.document = b.run.document
            /\ v.run = Subject \/ Ref(v) = SourceRef(b.events)
    /\ b.run.status = "completed" =>
            \E s \in b.versions : Ref(s) = SourceRef(b.events)

CollectedAt(p) ==
    at[p] \notin {"idle"} \cup ReadPhase => held[p] = NothingHeld \/ Collected(held[p])

CollectedInv == \A p \in Process : CollectedAt(p)

(* The source that the repository looks up is the one of the run. *)
LEMMA SourceFound ==
    ASSUME TypeInv, NEW id, NEW e \in EventsOf(id), NEW s, SourceOf(id, e, s)
    PROVE  SourceRef(EventsOf(id)) = Ref(s)
  <1> DEFINE shown == {x \in EventsOf(id) : x.type = "context_attached" /\ x.detail = "executor"}
             first == CHOOSE x \in shown : \A y \in shown : x.sequence <= y.sequence
  <1>1. \A x \in EventsOf(id) : x.sequence \in Nat
    BY DEF EventsOf, TypeInv, RepoTypeOK, EventRow
  <1>2. e \in shown /\ \A y \in shown : e.sequence <= y.sequence
    BY <1>1 DEF SourceOf, Showing
  <1>3. first \in shown /\ first.sequence <= e.sequence
    BY <1>2
  <1>4. first = e
    BY <1>1, <1>3 DEF SourceOf, Showing
  <1> QED
    BY <1>2, <1>4 DEF SourceRef, SourceOf

(* A completed run has a source, which it did not write. *)
LEMMA CompletedIsSourced ==
    ASSUME EvidenceInv, StatusOf(Subject) = "completed" PROVE Sourced(Subject)
  <1>1. ApprovedRun(Subject)
    BY BundleConstants DEF EvidenceInv, CompletionInv
  <1>2. ~ Unsourced(Subject)
    BY <1>1 DEF ApprovedRun, OwnVersion, Unsourced
  <1> QED
    BY <1>2, BundleConstants DEF EvidenceInv, SourceInv

(* What is in a bundle is not taken from it. *)
LEMMA CollectedStays ==
    ASSUME versions \subseteq versions', NEW p, NEW q, held'[p] = held[q],
           Collected(held[q])
    PROVE  Collected(held[p])'
  <1>1. SourceRef(held[p].events)' = SourceRef(held'[p].events)
    BY DEF SourceRef
  <1>2. SourceRef(held'[p].events) = SourceRef(held[q].events)
    OBVIOUS
  <1> QED
    BY <1>1, <1>2 DEF Collected, Ref

(* Who passes its bundle on, or starts to read, passes on what is in it. *)
LEMMA CollectedFrame ==
    ASSUME CollectedInv, versions \subseteq versions', NEW p \in Process,
           \/ at'[p] \in ReadPhase
           \/ held'[p] = NothingHeld
           \/ /\ held'[p] = held[p]
              /\ at'[p] = at[p] \/ at[p] \notin {"idle"} \cup ReadPhase
    PROVE  CollectedAt(p)'
  <1>1. NothingHeld' = NothingHeld /\ ReadPhase' = ReadPhase
    BY DEF NothingHeld, ReadPhase, ReadOrder
  <1>2. CASE held'[p] = held[p] /\ CollectedAt(p)
    BY <1>1, <1>2, CollectedStays DEF CollectedAt
  <1> QED
    BY <1>1, <1>2 DEF CollectedInv, CollectedAt

(* Reading the versions of an ended run collects these. *)
LEMMA ReadVersionsCollects ==
    ASSUME MonitorInv, EvidenceInv, NEW p \in Process, ReadVersions(p)
    PROVE  Collected(held[p])'
  <1>1. /\ at[p] = "versions"
        /\ UNCHANGED versions
        /\ held'[p].run = held[p].run
        /\ held'[p].events = held[p].events
        /\ held'[p].versions =
                {v \in versions :
                    /\ v.document = held[p].run.document
                    /\ v.run = Subject \/ Ref(v) = SourceRef(held[p].events)}
    BY DEF ReadVersions, ReadsInto, Moves, vars, repoVars, MonitorInv, MonitorTypeInv, Bundle
  <1>2. /\ Ended /\ held[p].run = runs[Subject] /\ held[p].events = EventsOf(Subject)
    BY <1>1 DEF MonitorInv, HeldInv, HeldAt
  <1>3. ASSUME held[p].run.status = "completed"
        PROVE  \E s \in held'[p].versions : Ref(s) = SourceRef(held[p].events)
    <2>1. StatusOf(Subject) = "completed"
      BY <1>2, <1>3 DEF Ended, StatusOf, Terminal
    <2>2. PICK e \in EventsOf(Subject), s \in versions : SourceOf(Subject, e, s)
      BY <2>1, CompletedIsSourced DEF Sourced
    <2>3. SourceRef(EventsOf(Subject)) = Ref(s)
      BY <2>2, SourceFound DEF MonitorInv, WorldInv
    <2> QED
      BY <1>1, <1>2, <2>2, <2>3 DEF SourceOf
  <1> QED
    BY <1>1, <1>3 DEF Collected, Ref, SourceRef

(* Every step of anybody keeps what is in the bundles. *)
LEMMA StepCollected ==
    ASSUME MonitorInv, EvidenceInv, CollectedInv, [MonitorNext]_allVars
    PROVE  CollectedInv'
  <1>1. versions \subseteq versions'
    BY MonitorStep, NextGrows DEF MonitorInv, WorldInv, repoVars
  <1> USE DEF MonitorInv, MonitorTypeInv, Goes, Moves, Exits
  <1>2. CASE UNCHANGED <<bundleVars, monitorVars>>
    BY <1>1, <1>2, CollectedFrame DEF CollectedInv, bundleVars
  <1>3. ASSUME NEW p \in Process, CollectsBundle(p) PROVE CollectedInv'
    <2>1. \A q \in Process \ {p} : at'[q] = at[q] /\ held'[q] = held[q]
      BY <1>3 DEF CollectsBundle, AskBundle, ReadRun, RefuseUnended, ReadEvents,
         ReadHandoffs, ReadVersions, BuildBundle, RefuseBundle, ReadsInto
    <2>2. CASE ReadVersions(p)
      BY <1>1, <2>1, <2>2, CollectedFrame, ReadVersionsCollects DEF CollectedInv, CollectedAt
    <2>3. CASE AskBundle(p) \/ ReadRun(p) \/ ReadEvents(p) \/ ReadHandoffs(p)
      <3>1. at'[p] \in ReadPhase
        BY <2>3, Reads DEF AskBundle, ReadRun, ReadEvents, ReadHandoffs, ReadsInto
      <3> QED
        BY <1>1, <2>1, <3>1, CollectedFrame DEF CollectedInv
    <2>4. CASE RefuseUnended(p)
      <3>1. held'[p] = NothingHeld
        BY <2>4 DEF RefuseUnended, HeldInv, HeldAt
      <3> QED
        BY <1>1, <2>1, <3>1, CollectedFrame DEF CollectedInv
    <2>5. CASE BuildBundle(p) \/ RefuseBundle(p)
      <3>1. held'[p] = held[p] /\ at[p] \notin {"idle"} \cup ReadPhase
        BY <2>5, Reads DEF BuildBundle, RefuseBundle
      <3> QED
        BY <1>1, <2>1, <3>1, CollectedFrame DEF CollectedInv
    <2> QED
      BY <1>3, <2>2, <2>3, <2>4, <2>5 DEF CollectsBundle
  <1>4. CASE LacksRules \/ EndWithoutBundle
    <2>1. /\ held'[Demo] = NothingHeld
          /\ \A q \in Process \ {Demo} : at'[q] = at[q] /\ held'[q] = held[q]
      BY <1>4 DEF LacksRules, EndWithoutBundle, HeldInv, HeldAt, Process
    <2> QED
      BY <1>1, <2>1, CollectedFrame DEF CollectedInv
  <1>5. CASE OpenBundle \/ WriteBundle
    BY <1>1, <1>5, CollectedFrame, Reads DEF OpenBundle, WriteBundle, CollectedInv
  <1>6. ASSUME NEW p \in Process, LoadBundle(p) PROVE CollectedInv'
    <2>1. Delivered /\ files["bundle"] = held[Demo] /\ Demo \in Process
      BY <1>6 DEF LoadBundle, JudgeInv, Delivered, Process
    <2>2. at[Demo] \notin {"idle"} \cup ReadPhase
      BY <2>1, Reads DEF Delivered, JudgingPoints, ReportPoints
    <2>3. /\ held'[p] = held[Demo] /\ UNCHANGED versions
          /\ \A q \in Process \ {p} : at'[q] = at[q] /\ held'[q] = held[q]
      BY <1>6, <2>1 DEF LoadBundle, vars, repoVars
    <2>4. CollectedAt(p)'
      BY <2>1, <2>2, <2>3, CollectedStays DEF CollectedInv, CollectedAt, NothingHeld
    <2> QED
      BY <1>1, <2>3, <2>4, CollectedFrame DEF CollectedInv
  <1>7. ASSUME NEW p \in Process, RefuseFile(p) PROVE CollectedInv'
    <2>1. /\ held'[p] = NothingHeld
          /\ \A q \in Process \ {p} : at'[q] = at[q] /\ held'[q] = held[q]
      BY <1>7 DEF RefuseFile, HeldInv, HeldAt
    <2> QED
      BY <1>1, <2>1, CollectedFrame DEF CollectedInv
  <1>8. ASSUME NEW p \in Process, Judges(p), ~ LoadBundle(p), ~ RefuseFile(p)
        PROVE  CollectedInv'
    <2>1. /\ at[p] \in {"built", "write_bundle"} \cup JudgingPoints
          /\ UNCHANGED held
          /\ \A q \in Process \ {p} : at'[q] = at[q]
      BY <1>8 DEF Judges, Misconfigured, TakeReport, RefuseReport, RefuseOutput,
         WriteTemporary, ReplaceReport, LinkReport, LinkRefused, Unlink, CleanUp,
         FileCallFails, Dies, Judging, JudgingPoints, ReportPoints
    <2>2. at[p] \notin {"idle"} \cup ReadPhase
      BY <2>1, Reads DEF JudgingPoints, ReportPoints
    <2> QED
      BY <1>1, <2>1, <2>2, CollectedFrame DEF CollectedInv
  <1> QED
    BY <1>2, <1>3, <1>4, <1>5, <1>6, <1>7, <1>8 DEF MonitorNext, allVars

(* Beside any runners, editors and monitors, the bundles are those of the   *)
(* runs that they tell of.                                                 *)
THEOREM BundleInvariant == MonitorSpec => [](MonitorInv /\ EvidenceInv /\ CollectedInv)
  <1>1. MonitorInit => EvidenceInv /\ CollectedInv
    BY InitEvidence DEF MonitorInit, CollectedInv, CollectedAt
  <1>2. MonitorInv /\ EvidenceInv /\ [MonitorNext]_allVars => EvidenceInv'
    BY StepEvidence DEF MonitorInv
  <1>3. MonitorInv /\ EvidenceInv /\ CollectedInv /\ [MonitorNext]_allVars => CollectedInv'
    BY StepCollected
  <1> QED
    BY <1>1, <1>2, <1>3, MonitorInvariant, PTL DEF MonitorSpec

(* Every run that ended is given a bundle, if no call has failed: what was  *)
(* read of it is numbered as the contract of the bundle asks.              *)
THEOREM EndedRunsAreBundled == MonitorSpec => []EndedRunIsBundled
  <1>1. MonitorInv /\ EvidenceInv /\ CollectedInv => EndedRunIsBundled
    <2> SUFFICES ASSUME MonitorInv, EvidenceInv, CollectedInv, faults = 0,
                        NEW p \in Process, at[p] = "check"
                 PROVE  Acceptable(held[p])
      BY DEF EndedRunIsBundled
    <2>1. Whole(held[p])
      BY DEF MonitorInv, HeldInv, HeldAt
    <2>2. Collected(held[p])
      <3>1. held[p] # NothingHeld
        BY <2>1 DEF Whole, Ended, StatusOf, Terminal, NothingHeld
      <3> QED
        BY <3>1, Reads DEF CollectedInv, CollectedAt
    <2>3. EndsRun(held[p].events, held[p].run.status)
      BY <2>1, BundleConstants DEF Whole, Ended, EvidenceInv, EndingInv, TerminalMatchesLog,
         EndsRun, StatusOf, Terminal
    <2>4. /\ Contiguous(held[p].events) /\ Contiguous(held[p].handoffs)
          /\ StartsRun(held[p].events)
      BY <2>1, <2>3, BundleConstants DEF Whole, EvidenceInv, LogInv, LogOf, EndsRun
    <2>5. VersionsOrdered(held[p].versions)
      BY <2>2 DEF VersionsOrdered, Collected, EvidenceInv, Numbered, Ref
    <2> QED
      BY <2>3, <2>4, <2>5 DEF Acceptable
  <1> QED
    BY <1>1, BundleInvariant, PTL

(* No class of evidence is missing of a completed run, except that a source *)
(* which an Executor wrote is not recognised as one.                       *)
LEMMA EvidenceIsThere ==
    ASSUME EvidenceInv, StatusOf(Subject) = "completed", NEW b, Whole(b),
           NEW s \in b.versions
    PROVE  MissingEvidence(b) \subseteq (IF s.run = NoRun THEN {} ELSE {"source"})
  <1>1. ApprovedRun(Subject) /\ AnswersRequest(Subject)
    BY BundleConstants DEF EvidenceInv, CompletionInv, SourceInv
  <1>2. PICK version : CompletionRecorded(Subject, version) /\ OwnVersion(Subject, version)
    BY <1>1 DEF ApprovedRun
  <1>3. PICK approval \in EventsOf(Subject) :
            /\ Records(approval, "approval_resolved", version, "approved")
            /\ AcceptedBefore(Subject, version, approval.sequence)
    BY <1>2 DEF CompletionRecorded, ReleasedBefore
  <1>4. PICK acceptance \in EventsOf(Subject) :
            Records(acceptance, "critic_review_completed", version, "accept")
    BY <1>3 DEF AcceptedBefore
  <1>5. PICK request \in EventsOf(Subject) :
            request.type = "approval_requested" /\ request.detail = "none"
    BY <1>1, <1>3 DEF AnswersRequest, Requested, Records
  <1>6. PICK own \in b.versions : own.run = Subject
    BY <1>2 DEF OwnVersion, VersionsOf, Whole
  <1>7. /\ SomeEvent(b, "critic_review_completed", {"accept", "revise"})
        /\ SomeEvent(b, "critic_review_completed", {"accept"})
        /\ SomeEvent(b, "approval_requested", {"none"})
        /\ SomeEvent(b, "approval_resolved", {"approved", "declined"})
    BY <1>3, <1>4, <1>5 DEF SomeEvent, Records, Whole
  <1>8. ExecutorVersions(b) # {}
    BY <1>6, BundleConstants, RepositoryConstants DEF ExecutorVersions
  <1>9. s.run = NoRun => b.versions # ExecutorVersions(b)
    BY DEF ExecutorVersions
  <1> QED
    BY <1>7, <1>8, <1>9 DEF MissingEvidence

(* The bundle of a completed run holds the version that its Executor was    *)
(* first shown, before all others, which are the run's own, and every class *)
(* of evidence.                                                            *)
THEOREM CompletionsAreEvident == MonitorSpec => []CompletionIsEvident
  <1>1. MonitorInv /\ EvidenceInv /\ CollectedInv => CompletionIsEvident
    <2> SUFFICES ASSUME MonitorInv, EvidenceInv, CollectedInv,
                        NEW p \in Process, HasBundle(p), held[p].run.status = "completed"
                 PROVE  \E source \in held[p].versions :
                            /\ source.run # Subject
                            /\ \A v \in held[p].versions \ {source} :
                                    v.run = Subject /\ v.number > source.number
                            /\ \E e \in held[p].events :
                                    /\ e.type = "context_attached" /\ e.version = Ref(source)
                                    /\ \A x \in held[p].events :
                                            x.type = "context_attached" => e.sequence <= x.sequence
                            /\ MissingEvidence(held[p]) \subseteq
                                    (IF source.run = NoRun THEN {} ELSE {"source"})
      BY DEF CompletionIsEvident
    <2>1. Whole(held[p])
      BY Reads DEF MonitorInv, HeldInv, HeldAt, HasBundle, MonitorTypeInv, MonitorPoints,
         AskingPoints
    <2>2. Collected(held[p])
      BY DEF HasBundle, CollectedInv, CollectedAt
    <2>3. StatusOf(Subject) = "completed"
      BY <2>1 DEF Whole, Ended, StatusOf, Terminal
    <2>4. PICK e \in EventsOf(Subject), s \in versions : SourceOf(Subject, e, s)
      BY <2>3, CompletedIsSourced DEF Sourced
    <2>5. SourceRef(held[p].events) = Ref(s)
      BY <2>1, <2>4, SourceFound DEF MonitorInv, WorldInv, Whole
    <2>6. \A v \in held[p].versions : Ref(v) = Ref(s) => v = s
      BY <2>2 DEF Collected, EvidenceInv, Numbered
    <2>7. s \in held[p].versions
      BY <2>2, <2>5, <2>6 DEF Collected
    <2>8. \A v \in held[p].versions \ {s} : v.run = Subject /\ v.number > s.number
      BY <2>2, <2>4, <2>5, <2>6 DEF Collected, SourceOf, VersionsOf
    <2>9. \A x \in EventsOf(Subject) : x.type = "context_attached" => e.sequence <= x.sequence
      <3>1. \A x \in EventsOf(Subject) : x.sequence \in Nat
        BY DEF EventsOf, MonitorInv, WorldInv, TypeInv, RepoTypeOK, EventRow
      <3> QED
        BY <2>4, <3>1 DEF SourceOf, Showing
    <2>10. MissingEvidence(held[p]) \subseteq (IF s.run = NoRun THEN {} ELSE {"source"})
      BY <2>1, <2>3, <2>7, EvidenceIsThere
    <2> QED
      BY <2>1, <2>4, <2>7, <2>8, <2>9, <2>10 DEF SourceOf, Showing, Whole
  <1> QED
    BY <1>1, BundleInvariant, PTL

-----------------------------------------------------------------------------
(* How a process ends.  OutcomeAt says at every point of it whether its     *)
(* report is out, whether its temporary file may be there, and what may    *)
(* have failed.                                                            *)

OutcomeAt(p) ==
    /\ exit[p] = NoExit <=> at[p] # "ended"
    /\ p \in published => \/ at[p] \in {"unlink", "ended"}
                          \/ at[p] = "clean_up" /\ faults > 0
    /\ at[p] = "unlink" => p \in published
    /\ p \in temporary /\ at[p] \notin {"publish", "unlink", "clean_up"} =>
            at[p] = "ended" /\ (exit[p] = Died \/ faults > 0)
    /\ p \in Cli /\ exit[p] \notin {NoExit, Died} =>
            /\ exit[p] = 0 => p \in published
            /\ p \in published => exit[p] = 0 \/ faults > 0

OutcomeInv == \A p \in Process : OutcomeAt(p)

(* A process that does not move keeps its outcome. *)
LEMMA OutcomeFrame ==
    ASSUME faults \in Nat, faults' \in {faults, faults + 1}, NEW p \in Process, OutcomeAt(p),
           at'[p] = at[p], exit'[p] = exit[p],
           p \in published' <=> p \in published, p \in temporary' <=> p \in temporary
    PROVE  OutcomeAt(p)'
  BY DEF OutcomeAt

(* Every step of a process leads to an outcome that its exit code tells. *)
LEMMA JudgeOutcome ==
    ASSUME MonitorTypeInv, JudgeInv, faults \in Nat, faults' \in {faults, faults + 1},
           OutcomeInv, NEW p \in Process,
           \/ CollectsBundle(p) /\ UNCHANGED monitorVars
           \/ (LacksRules \/ EndWithoutBundle \/ OpenBundle \/ WriteBundle) /\ p = Demo
           \/ Judges(p)
    PROVE  OutcomeInv'
  <1> USE DEF MonitorTypeInv, Goes, Moves, Exits, ReadsInto, NoExit, Died, Uncaught
  <1>1. OutcomeAt(p) /\ (p \in Cli => p # Demo)
    BY BundleConstants DEF OutcomeInv
  <1>2. ASSUME NEW q \in Process, q # p PROVE OutcomeAt(q)'
    <2>1. /\ at'[q] = at[q] /\ exit'[q] = exit[q]
          /\ q \in published' <=> q \in published
          /\ q \in temporary' <=> q \in temporary
      <3>1. CASE CollectsBundle(p) /\ UNCHANGED monitorVars
        BY <1>2, <3>1 DEF CollectsBundle, AskBundle, ReadRun, RefuseUnended, ReadEvents,
           ReadHandoffs, ReadVersions, BuildBundle, RefuseBundle, monitorVars
      <3>2. CASE (LacksRules \/ EndWithoutBundle \/ OpenBundle \/ WriteBundle) /\ p = Demo
        BY <1>2, <3>2 DEF LacksRules, EndWithoutBundle, OpenBundle, WriteBundle
      <3>3. CASE Judges(p)
        BY <1>2, <3>3 DEF Judges, LoadBundle, RefuseFile, Misconfigured, TakeReport,
           RefuseReport, RefuseOutput, WriteTemporary, ReplaceReport, LinkReport,
           LinkRefused, Unlink, CleanUp, FileCallFails, Dies, monitorVars
      <3> QED
        BY <3>1, <3>2, <3>3
    <2> QED
      BY <2>1, OutcomeFrame DEF OutcomeInv
  <1>3. OutcomeAt(p)'
    <2>1. CASE CollectsBundle(p) /\ UNCHANGED monitorVars
      <3>1. /\ at[p] \notin {"ended", "unlink", "clean_up", "publish"}
            /\ at'[p] \notin {"ended", "unlink", "clean_up", "publish"}
        BY <2>1, Reads DEF CollectsBundle, AskBundle, ReadRun, RefuseUnended, ReadEvents,
           ReadHandoffs, ReadVersions, BuildBundle, RefuseBundle
      <3> QED
        BY <1>1, <2>1, <3>1 DEF OutcomeAt, monitorVars
    <2>2. CASE (LacksRules \/ EndWithoutBundle \/ OpenBundle \/ WriteBundle) /\ p = Demo
      BY <1>1, <2>2 DEF OutcomeAt, LacksRules, EndWithoutBundle, OpenBundle, WriteBundle,
         SettingsExits
    <2>3. CASE LoadBundle(p)
      BY <1>1, <2>3 DEF OutcomeAt, LoadBundle
    <2>4. CASE RefuseFile(p) \/ Misconfigured(p) \/ RefuseReport(p)
      BY <1>1, <2>4 DEF OutcomeAt, RefuseFile, Misconfigured, RefuseReport, ExitWithout,
         SettingsExits
    <2>5. CASE TakeReport(p) \/ WriteTemporary(p)
      BY <1>1, <2>5 DEF OutcomeAt, TakeReport, WriteTemporary
    <2>6. CASE LinkReport(p) \/ LinkRefused(p)
      BY <1>1, <2>6 DEF OutcomeAt, LinkReport, LinkRefused, monitorVars
    <2>7. CASE ReplaceReport(p) \/ Unlink(p)
      BY <1>1, <2>7 DEF OutcomeAt, ReplaceReport, Unlink, DemoExit
    <2>8. CASE RefuseOutput(p) \/ CleanUp(p)
      BY <1>1, <2>8 DEF OutcomeAt, RefuseOutput, CleanUp, ExitUnpublished, DemoExit
    <2>9. CASE FileCallFails(p)
      <3>1. /\ faults' = faults + 1 /\ faults' > 0
            /\ UNCHANGED published
            /\ at[p] \in {"built", "write_bundle", "clean_up", "persist", "publish", "unlink"}
        BY <2>9 DEF FileCallFails
      <3>2. \/ /\ at'[p] = "ended" /\ UNCHANGED temporary
               /\ exit'[p] \in {0, 1, 2, 4}
               /\ p \in Cli => exit'[p] # 0
            \/ at'[p] = "clean_up" /\ UNCHANGED exit
        BY <1>1, <2>9 DEF FileCallFails, ExitUnpublished, DemoExit
      <3> QED
        BY <1>1, <3>1, <3>2 DEF OutcomeAt
    <2>10. CASE Dies(p)
      BY <1>1, <2>10 DEF OutcomeAt, Dies, Judging
    <2> QED
      BY <2>1, <2>2, <2>3, <2>4, <2>5, <2>6, <2>7, <2>8, <2>9, <2>10 DEF Judges
  <1> QED
    BY <1>2, <1>3 DEF OutcomeInv

(* A monitor exits with 0 exactly when it published its report, and tidies *)
(* up, unless it died or a call failed.                                    *)
THEOREM ExitsTellOutcome == MonitorSpec => []ExitTellsOutcome
  <1>1. MonitorInit => OutcomeInv
    BY DEF MonitorInit, OutcomeInv, OutcomeAt
  <1>2. MonitorInv /\ OutcomeInv /\ [MonitorNext]_allVars => OutcomeInv'
    <2> SUFFICES ASSUME MonitorInv, OutcomeInv, [MonitorNext]_allVars PROVE OutcomeInv'
      OBVIOUS
    <2>1. faults \in Nat /\ faults' \in {faults, faults + 1} /\ Demo \in Process
      BY StepWorld DEF MonitorInv, WorldInv, TypeInv, LocalTypeOK, RecordKept, Process
    <2>2. CASE UNCHANGED <<bundleVars, monitorVars>>
      BY <2>1, <2>2, OutcomeFrame DEF OutcomeInv, bundleVars, monitorVars
    <2> QED
      BY <2>1, <2>2, JudgeOutcome DEF MonitorInv, MonitorNext, allVars
  <1>3. MonitorInv /\ OutcomeInv => ExitTellsOutcome
    BY DEF MonitorInv, MonitorTypeInv, OutcomeInv, OutcomeAt, ExitTellsOutcome, Process
  <1> QED
    BY <1>1, <1>2, <1>3, MonitorInvariant, PTL DEF MonitorSpec
=============================================================================
