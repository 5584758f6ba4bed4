# Formal models of the editorial team system

TLA+ modules, model-checking configurations and machine-checked proofs for the
Python program in `src/`. Paths below are relative to `src/src/editorial_agent/`
unless they say otherwise.

## 1. The system

An editorial request is a user, a document and a run identifier. A *runner*
carries the request from the document's latest version through Executor drafts
and Critic reviews, with a bounded number of revisions, to a human approval, and
records all of it in SQLite. A *Monitor* judges ended runs from what was recorded.
An older command line ("alpha") keeps projects and drafts in JSON files.

| Component | State | Operations | Talks to |
|---|---|---|---|
| Domain repository (`domain_repository.py`, `migrations/001`) | eight tables: users, documents, access, versions, comments, runs, events, handoffs | create user / document / version / comment / run, grant access, set status, append event / handoff; reads | called by runner, monitor, harness; one transaction per call |
| SQLite database (`sqlite_database.py`) | the file, its schema version | initialize and migrate, transaction | below the repository |
| Workflow runner (`editorial_workflow.py`) | run counters, revision count, current version, last feedback | `run()` and its private steps | repository, context services, role agents, private memory, approval gate |
| Context services (`context_services.py`) | none | push context (latest version), pull facts and comments | repository, private memory, rules |
| Role agents (`role_agents.py`, `role_tools.py`, `role_results.py`) | step count, tools used | model turn, tool call, strict parsing | model client, context services |
| Private memory (`private_memory.py`) | one JSON file per user | save, read, rank | called by runner and role tools |
| Approval gate (`approval.py`) | none | ask a human | called by runner |
| Monitor (`contracts/monitor.py`, `monitoring/`) | report files | bundle, judge, publish a report | repository, model client |
| Demo (`scripts/demo_stage5.py`), monitor command (`scripts/run_monitor.py`) | a bundle file, a report file, an exit code | run, bundle, judge, publish | runner, repository, monitor |
| Live harness (`live_integration.py`) | scenario evidence | scenarios, recording gate | everything |
| Alpha (`agent.py`, `registry.py`, `storage.py`, `publication.py`, `tools.py`, `cli.py`) | project files, drafts, outbox | agent loop, save draft, approve, publish | model client |
| Gemini client, rules, prompts, local config | none | external calls, file reads | |

What makes it hard:

* every repository call of `run()` commits by itself, so a run is a long sequence
  of transactions between which other runs, editors and owners act on the same
  document, any call may fail, and the process may die;
* what a runner read (latest version, pushed context) may be stale when it is used;
* a failure must still leave a truthful record: a terminal event and a status that
  agree with each other and with what `run()` reports;
* a completion needs an acceptance and an approval of *one* version, in order,
  while three different kinds of approval share one event type;
* `initialize` runs each migration statement by statement, without a transaction, and
  reads the version only once: it can be cut short, and two can overlap;
* a bundle is read through four connections while others write, and its report is
  refused, written and published in separate file system calls;
* the loop of rounds is bounded only by the revision budget and by comparing
  drafts and feedback.

What makes each component correct:

* repository: contiguous version numbers, one owner, records inside their run's
  scope, immutable histories;
* runner: a completion is approved, status and log agree, an ended run is final,
  one writer per run, the Critic's verdict names the version it was handed, the
  revision budget, progress between rounds, the memory decision carried out once,
  the reported result persisted, every run ends;
* private memory: no fact is lost, the file is always whole;
* migrations: no event is lost, the current version stands only over the whole current
  schema, a database of an earlier release is brought up to date, initialization can be
  repeated;
* role agent: required tools before an answer, bounded turns, no answer after an
  error;
* monitor: a bundle is the final record of its run, every run that ended in order has
  one and a completed run's shows all its evidence, a report rests on that record, the
  first report stands, the exit code tells the outcome;
* alpha: versions name one draft each, a post is what the human approved, once, and
  nothing saved or published is changed.

## 2. Modules

| Module | Contents |
|---|---|
| `DomainRepository` | the tables and every operation on them; a client that calls anything with any arguments (`RepoSpec`) |
| `RunLifecycle` | the abstract promise: a run is created once, ends once, and completes only with a version accepted and then approved, with no approval declined |
| `EditorialWorkflow` | `EditorialWorkflowRunner.run` over those tables, for any number of runners |
| `RoleAgent` | `RoleAgent.run` for the Executor and the Critic of one run: model turns, tool calls, events, parsing |
| `PrivateMemory` | `save_fact` over the users' files, as processes on one directory run it |
| `ProjectFiles` | the alpha's drafts and outbox: saving and publishing as file system calls |
| `AlphaAgent` | the alpha's command line over those files: turns, tool calls, approvals |
| `SchemaMigration` | `initialize` and the three scripts of `migrations/`, by any number of processes |
| `RunBundle` | `build_completed_run_bundle` read by read beside the runners, the contract of a bundle, the evidence index |
| `MonitorReports` | the demo and the monitor command from the bundle to the exit code |
| `MCRepository`, `MCWorkflow`, `MCMemory`, `MCMigration`, `MCMonitor` | instances for TLC (the other modules need none) |
| `DomainRepositoryProofs`; `EditorialWorkflowProofs`, `CompletionProofs`; `RoleAgentProofs`; `PrivateMemoryProofs`; `AlphaProofs`; `SchemaMigrationProofs`; `MonitorReportsProofs` | theorems and proofs |

`AlphaAgent` extends `ProjectFiles`. `EditorialWorkflow` extends `DomainRepository`: its
steps are the repository's operations with the arguments `run()` computes. `RunBundle`
extends `EditorialWorkflow` and `MonitorReports` extends `RunBundle`: bundles and reports
are made while runs, editors, faults and crashes go on. `Life` in `EditorialWorkflow`
instantiates `RunLifecycle` with what the tables say of each run.

### DomainRepository

A table is a set of records, a transaction is one action. A refused operation
raises and rolls back, so it is an action that is not enabled; its condition has a
name of its own (`CanCreateVersion`, ...) so that the workflow can take the
refused branch. Random row identifiers carry no information and are left out; a
version is its document and number. Texts are opaque values.

A deferred `BEGIN` reads before it writes, and SQLite either upgrades its lock
with nothing written in between or fails with "busy"; the first is the atomic
action, the second the `CallFails` of the workflow.

### EditorialWorkflow

`pc[r]` is the next call of runner `r`; one action per call, and one per decision
between calls. `Emit` and `Handoff` take the sequence number and append the row,
as `_emit` and the handoff methods do. The correspondence:

| Code | Actions |
|---|---|
| `run` start, `create_run` | `Call`, `StartRun`, `RunRefused`, `EmitRunStarted` |
| `build_push_context`, `_emit_context` | `PushExecutorContext`, `PushCriticContext`, `EmitExecutorContext`, `EmitCriticContext`, `ReadRefused` |
| `RoleAgent.run` | `ExecutorTurn`, `CriticTurn`, then a reply (`ExecutorCompletes`, `ExecutorBlocks`, `CriticAccepts`, `CriticRevises`, `CriticBlocks`) or `RoleFails` |
| `_request_approval` | `EmitApprovalRequested`, `Approve`, `Decline`, `GateFails` |
| Executor transition, stalled draft | `ExecutorOutcome` |
| `_persist_memory_decision` | `EmitMemoryDecided`, `SaveFact`, `EmitFactSaved` |
| `_persist_draft` | `ReadLatest`, `PersistDraft`, `DraftRefused`, `EmitVersionCreated` |
| handoffs | `HandoffToCritic`, `HandoffToExecutor`, `HandoffAcceptance` and the event of each |
| `_validate_critic_grounding`, `_record_critic_review` | `CriticOutcome`, `EmitGroundingRejected`, `EmitReview` |
| Critic transition | `AcceptDraft`, `ReachRevisionLimit`, `StallRevision`, `RequestRevision` |
| ends | `EmitRun...` then `Set...`, for completed, blocked and failed |
| exceptions, `_safe_fail_run` | `CallFails`, and the refusals above, which lead to `emit_failed` |
| the process | `Crash` |
| other users | `EditorWrites`, `OwnerGrants` |

Abstractions: a role's turns and tool calls are one `model_turn_completed` event
and one reply, which `RoleAgent` takes apart (tool and retrieval events carry no
state that `run()` reads, except the shared-comments flag, which only changes what
the Critic must retrieve); an issue
that is not grounded is a kind of revise reply; feedback is what
`json.dumps(critic_result)` would compare equal.

### PrivateMemory

| Code | Actions |
|---|---|
| `save_fact` is called, `_validate_scope` | `Begin` |
| `get_all_facts` and the duplicate check | `ReadFacts`, `RefuseDuplicate` |
| `_write_user_file` up to `fsync` | `WriteTemporary` |
| `os.replace` and the return | `Rename` |
| `OSError` anywhere | `SaveFails` |
| the process | `Dies`, `Restarts` |

A fact is an identifier, a user and a text. `Serves` says for which users a process
is run: the code neither locks the file nor checks that it is still the one it read,
so what holds depends on that constant. `EditorialWorkflow` takes a whole `save_fact`
as one step (`SaveFact`), which is what one process per user makes of it.

Some operators are marked *Faulty variant*: each is a plausible bug of the
definition that follows it. Nothing uses them; they exist to show that the
property named in `PROJECT.json` fails when the code has that bug.

### RoleAgent

`point` is where the role turns of one run are; between two roles it is `"workflow"`.

| Code | Actions |
|---|---|
| `run()` hands a role its prompt, or ends | `StartExecutor`, `StartCritic`, `EndRun` |
| `model.respond`, `on_model_turn` | `Respond`, `ModelFails`, `EmitModelTurn` |
| the loop over the calls, `on_tool_requested` | `TakeCall`, `EmitMemoryRequested`, `EmitToolRequested` |
| `tools.execute` and the handlers | `ToolSucceeds`, `ToolRefuses`, `ToolRaises` |
| `on_tool_completed` | `EmitToolCompleted`, `EmitMemoryCompleted`, `EmitCommentsRetrieved` |
| the check of the result, the loop over the steps | `KeepResult`, `RefuseResult`, `NextTurn`, `OutOfTurns` |
| required tools and the parser | `AnswerTooEarly`, `Answer`, `AnswerUnparsed` |
| a callback's event cannot be recorded | `EmitFails` |

A reply is an envelope: status, kind of result, approval and details. A result is
judged as a whole (the Executor's parser takes it, or the Critic's with its verdict,
or neither); which of its fields is wrong makes no difference. One kind, `"unlike"`,
is not refused by the Critic's parser but raises `AttributeError` (an issue that is
no object): `run()` then fails with `workflow_failure` instead of `structured_output`.

### ProjectFiles and AlphaAgent

| Code | Actions |
|---|---|
| `run_command`, the loop over the steps | `RefuseRequest`, `Begin`, `NextTurn`, `OutOfTurns` |
| `model_client.respond` | `ModelAnswers`, `ModelCalls`, `ModelFails` |
| a tool call; reading tools, unknown tools, refused arguments | `CallSave`, `CallPublish`; `CallOther` |
| the approval gate | `Approve`, `Decline`, `InputEnds` |
| `save_linkedin_draft`: next number, existence check, open, write | `TakeNumber`; `FindFree`, `FindTaken`; `OpenDraft`; `WriteDraft` |
| `publish`: find the draft, read it, look in the outbox, create, write | `FindDraft`, `RefusePublish`; `ReadFinal`, `RefuseStage`; `SeeUnpublished`, `SeePublished`; `CreatePost`, `FindPost`; `CopyText` |
| `OSError`, Control-C | `FileFails`, `Interrupt` |

One project is modelled: projects share no file, and its press release is only read.
A file that was created and not written out has the content `Cut`. A call to publish
with refused arguments still reaches the human first, as in the code; its visibility
is `None`. The production registry always has a gate. The trace and the exit code are left out: nothing reads them back.

### SchemaMigration

| Code | Actions |
|---|---|
| `initialize` reads `user_version`, refuses an unsupported one | `Begin` |
| the statements of script 1 | `CreateObject`, one per table and index |
| the statements of scripts 2 and 3 | `RenameEvents`, `CreateEvents`, `CopyEvents`, `DropOld` |
| `PRAGMA user_version`, the next script | `RecordVersion` |
| a statement cannot be executed | `StatementFails` |
| the process dies, a lock is refused | `Interrupted` |
| `append_event` afterwards; the process ends | `RecordEvent`; `Leave` |

`executescript` commits each statement by itself, so each is an action. A table is what
its `event_type` column admits and its rows; of the other tables only the existence
matters, since `initialize` looks into none of them. `known` is the local variable
`version`. `MigrationInit` is a new file, a database of each release with any events that
release could record, or a file of an unsupported version.

### RunBundle and MonitorReports

| Code | Actions |
|---|---|
| `build_completed_run_bundle`, one connection each | `AskBundle`, `ReadRun`, `ReadEvents`, `ReadHandoffs`, `ReadVersions` |
| `CompletedRunBundle.__post_init__` | `RefuseUnended`; `BuildBundle`, `RefuseBundle` |
| `run_demo`: its rules, the bundle file | `LacksRules`; `EndWithoutBundle`; `OpenBundle`, `WriteBundle` |
| `run_monitor.py`: the bundle file | `LoadBundle`, `RefuseFile` |
| both: the rubric, the key | `Misconfigured` |
| `MonitorRunner.evaluate`, `_validate_report` | `TakeReport`, `RefuseReport` |
| `persist_monitor_report`: checks, temporary file, publication, removal | `RefuseOutput`; `WriteTemporary`; `ReplaceReport`, `LinkReport`, `LinkRefused`; `Unlink`, `CleanUp` |
| `OSError` anywhere; the process | `FileCallFails`; `Dies` |

A report is whose it is and which version it cites: the contract checks its references
against those of the bundle, and versions are the references that other runs and editors
could supply. `SettingsExits` says how a process ends that cannot have its rules or its key:
a missing key or an undecodable file is reported (3 for the command, 2 for the demo), but
the error of `MarkdownRulesLoader.load` for a missing or blank file is caught by neither, and
the interpreter exits with 1 (`Uncaught`). `RefuseUnended` stands before the other reads although the code refuses after
them, because what they return is not used.

## 3. Runs

| Run | Instance | Shows |
|---|---|---|
| `repository` | 2 users, 2 documents, 1 run, numbers 1..2, 2 rows over the append-only tables; all operations, all arguments | `VersionsContiguous`, `OneOwner`, `RecordsStayInScope`, `HistoryImmutable` |
| `workflow_single` | 1 runner, 1 run identifier (repeated calls), 2 texts, 2 feedbacks, `MaxRevisions` 2, one failing call, one crash, an empty document at first | `TypeOK`, `CompletionIsApproved`, `TerminalMatchesLog`, `RevisionBudget`, `ConsecutiveDraftsDiffer`, `MemoryDecisionHonoured`, `ResultIsPersisted`; refinement of `RunLifecycle` (`LifeSpec`); `RunReturns`, `RunEnds` |
| `workflow_concurrent` | 2 runners, 2 users, 2 run identifiers that both runners may be called with, 1 document, one more version by another editor, one access change, no revisions | `ReviewNamesHandedVersion`, `OneWriterPerRun`, `TerminalIsFinal` |
| `finding_failed_log` | as single, no revisions, one failing call | `EndedLogIsContiguous` is violated |
| `memory` | 2 processes, one of which serves two of the 3 users; 2 identifiers, 2 texts, one fault, one crash | `FilesAreReadable`, `AcknowledgedKept`, `AppendOnly` |
| `finding_lost_fact` | 2 processes that serve one user, 1 text | `AppendOnly` is violated |
| `role_agents` | 2 rounds of both roles, `MaxSteps` 2, 2 calls in a response, every envelope | `ExecutorGrounded`, `CriticRetrievesToo`, `RequestsAnswered`, `ErrorEndsRole` |
| `alpha` | 2 invocations one after the other, 2 turns of 2 calls, 2 stages, 2 visibilities, 2 texts, 2 saves, one failing file call, interrupts anywhere | `SavedKept`, `PublishedAsApproved`, `OncePerVersion`, `PublishedIsFinal`, `PostsKept`, `RunsEnd` |
| `finding_published_twice` | 2 invocations at once, one turn each, 1 text | `OncePerVersion` is violated |
| `migration` | 2 processes, at once or one after the other; an event type of the first release and one that script 3 admits; every initial database; one interruption | `EventsKept`, `CurrentIsWhole`, `Upgrades` |
| `finding_interrupted_migration` | 1 process, one interruption | `InitializationRepeats` is violated |
| `monitor` | 1 run with up to one revision on a document with a version, 2 texts, one version by another editor, the demo and one monitor command, one failing call, one crash, replies that cite nothing or version 2 | `MonitorTypeOK`, `BundleIsFinalRecord`, `CompletionIsEvident`, `EndedRunIsBundled`, `ReportRestsOnRecord`, `ExitTellsOutcome`, `FirstReportStands` |

Of the type invariants two are checked by runs, `TypeOK` and `MonitorTypeOK`; the others
are proved, and so is that drafts are numbered without a gap (`DraftsNumbered`).

Bounds and why they suffice.

* `repository`: a number is judged against one other version, a reference against
  the version it names, and no operation reads rows of two append-only tables, so
  two rows show every conflict. The theorems of section 4 cover every size.
* `workflow_single`: two revisions are the code's default and the least bound at
  which feedback can repeat after it differed and the budget is reached after a
  full round. Two texts are enough to repeat a draft. One failing call reaches
  every failure path including the one inside `_safe_fail_run` (the role fails, then
  the call). Number is 1..6: a document gets at most four versions here.
* `workflow_concurrent`: two runners and one editor produce every order of the
  read and the insert of a version number; two runners with one identifier produce
  every duplicate call. `MaxVersions` bounds what other editors write, `MaxGrants`
  access changes. Runners are interchangeable (symmetry); no liveness is checked there.

* `memory`: a save meets at most one other save of its user, an identifier at most
  one other fact; two of each suffice. The theorems cover every size.

* `role_agents`: a tool turn and a turn that answers are the least in which used tools
  and obtained results can differ; two calls in a response give an error after a
  success. The second round shows what is remembered from the first.
* `alpha`: the second invocation meets what the first left complete, cut or missing.
  Two saves make a second version; one turn is enough where only interleaving
  matters. The theorems cover every size.

* `migration`: a script runs against at most what one other process, or one earlier
  interrupted attempt, left. The first event type is in every vocabulary, the second only
  in the last, which is what copying could lose or refuse. The theorems cover every
  number of processes and interruptions.
* `monitor`: the other editor may write version 2, and only that. It is the run's source
  when it comes before the Executor's context, another's version that the run never
  showed when it comes between that context and the first draft, a later one when the run
  ended without a draft; otherwise version 2 is the run's own, so that citing it is right
  or wrong accordingly. That what others write between two drafts makes no difference
  either is proved (section 4), with no bound on it. Two monitors (the demo and a command) race for one path.

Deadlock is not checked: a system in which every run has ended and every bound is
used may stop.

Fairness: weak fairness of `Step(r)`, what `run()` does by itself. It is sequential
code without waiting, and its calls to models, gate and database return or raise.
Calling `run()`, failures, crashes, editors and grants are not fair. `RunsEnd` of the
alpha assumes weak fairness of `Proceed(p)`: the model client answers or raises and
no file call hangs; beginning, the human's answer and interrupts are not fair, so a
run may wait at the approval for ever. `Upgrades` assumes weak fairness of
`Initializes(p)`, the statements that `initialize` executes without waiting for anyone once
it has read the version (a refused lock is an interruption). `role_agents` has no liveness:
that a role ends follows from its budget of turns (`RolesAreBounded`, section 4). `monitor` has none: which of its steps
succeed is up to the model and the file system, and each process takes at most twelve.

### What disagrees with the documents

* `EndedLogIsContiguous`: `_emit` takes a sequence number before the append that may
  fail. After such a failure the run is marked failed with a gap in its log, and
  `validate_event_order` (`contracts/events.py:119`) refuses the bundle of this
  terminal run.
* `AppendOnly`: with two processes for one user, the one that renames last drops the
  other's fact; `docs/stage-2-storage-and-context.md:36` calls facts append-only.

* `OncePerVersion`: two invocations that publish one version at once with different
  visibilities each see an outbox without it and each create a file of their own;
  `docs/S3-submission-andrei.md:39` says a version cannot be published twice.

* `InitializationRepeats`: a process that dies after the first statement of script 1 (or of
  any script, before the version is recorded) leaves tables of the next version under the
  old number; every later `initialize` fails at the statement that is already done.
  `docs/stage-2-storage-and-context.md:11` says that initialization is repeatable.

Observed while modelling, and stated in the models as the code does it:

* When a call inside `_safe_fail_run` fails too, `run()` returns `FAILED` and the run stays
  `running`, although `docs/stage-3-executor-critic.md:27` promises a terminal event.
  `ResultIsPersisted` and `RunEnds` are stated accordingly.
* Of two processes that migrate at once, one can record version 3 while the events are
  still in `run_events_v1` or `run_events_v2`: nothing is destroyed (`EventsKept`), but
  nobody reads them. `CurrentIsWhole` is therefore about one process after the other.
* When the source of a run was itself written by an Executor, in an earlier run, the
  evidence index reports the source missing (`monitoring/evidence.py:45`);
  `CompletionIsEvident` excepts this case.
* When removing the temporary file fails after the link, the monitor reports that
  it could not persist a report that is at its path; `ExitTellsOutcome` allows it
  only after a failing call.
* A rubric that is missing or blank ends `run_monitor.py` and the demo by a traceback and
  exit code 1: `TrustedRuleError` (`rules_loader.py:38-42`) is a `RuntimeError`, and neither
  program catches it (`scripts/run_monitor.py:62-92`, `scripts/demo_stage5.py:217-265`).
  `docs/independent-monitor.md:102-104` promises a sanitized message for missing
  configuration. `SettingsExits` is what the code does, and `MonitorTypeOK` admits it; the
  exit code is nonzero as promised (`ExitTellsOutcome`).
* Two overlapping saves of the alpha can take one number, and the later write replaces the
  earlier text, although `storage.py:88` says that nothing is overwritten; a save that
  overlaps an approval can change what the approved version holds. `SavedKept` and
  `PublishedAsApproved` fail when `OneAtATime` is `FALSE`; they are stated, checked and proved
  for invocations one after the other.
* The demo exits with 0 and prints the path of its report also when persisting the report
  was refused or failed (`scripts/demo_stage5.py:250`); `DemoExit` is that behaviour.

## 4. Proofs

Checked by TLAPS for every value of the constants that satisfies
`RepositoryConstants`, `NoRunIsNoRow`, `WorkflowConstants`, `RoleConstants`,
`MemoryConstants`, `FileConstants`, `AgentConstants`, `MigrationConstants`, `BundleConstants` and
`MonitorConstants`, each for its component (the sentinels are not ordinary values, the documents start with one owner and at most one version, and
the vocabularies contain what the code writes).

`DomainRepositoryProofs`: `RepoTypeCorrect`; `NumbersAreContiguous`; `OwnerIsUnique`;
`HistoryIsImmutable`; `ScopeIsKept`. Each invariant is inductive relative to the type
invariant. The last two rest on `StepGrows`: no operation removes a row, moves a
run or takes all access away.

`EditorialWorkflowProofs`: `TypeCorrect`. The type invariant alone is not inductive:
that a stored draft is a text holds only because the points of `run()` between the
reply and the insertion are reached with a complete reply. `TypeInv` adds `Control`,
what each point says of the reply being handled; every emission has one shape
(`EmissionShape`), so its case is proved once (`EmitTypeInv`).

Its second half proves `OneWriter` and `EndIsFinal`. `OneWriterPerRun` is not inductive
either. `WriterInv` adds that a run without a row has left no event, handoff or
version (`Unborn`, so that whoever creates it starts from an empty log) and that the
user of a run can always read its document (`Readable`: a grant lowers access at most
to reading, and never the owner's). Steps that touch no table are proved once
(`Quiet`). `EndIsFinal` follows: whoever writes a record of a run owns it
(`OwnRecordsOnly`), and an owned run is still running.

`CompletionProofs`: `CompletionApproved`. `PathAt` says what an active runner has
recorded at each point: nothing declined unless it is ending, a version of its own
from the first draft on, the Critic's acceptance of that very version once it heads
for the final approval, the approval after the acceptance once it may complete, and
all of that before `run_completed`. An event leads from point to point (`Leads`,
`EmissionPath`), other calls and decisions are calm (`CalmPath`), and the runners that
do not move keep their path whatever others record (`StillPath`), because no two share
a run (`OneWriter`).

`LogMatchesStatus` and `ResultsArePersisted` follow from `EndingInv`: a runner that is about
to set a final status has its announcement as the last event of the log, and one that has
returned a success or a block has set it. `ImplementsLifecycle` is the refinement: `Lives`
reads the abstract state of a run off the tables, a step changes it for one run at most,
and then by one abstract action (`LifeSteps`). It assumes that sequence numbers are not
bounded (`Number = Nat \ {0}`): `Number` is a bound for TLC, and a run that has used it up
could not record its end.

The rounds of a run are four more invariants, each of them about what one run has written
and where its runner is, so that a step of anybody else keeps them (`Kept`, `Steady`) and a
step that writes no record only leads on within the round (`Turn`, `TurnSteps`). None of the
four properties is inductive alone. `RevisionsInBudget`: a revision is counted before it is
handed back (`CountAt`), and while a round has no version yet the run has no more versions
than revisions handed back (`OpenAt`). `DraftsMakeProgress`: the current version is the
newest of its run, and from the Executor's outcome to the new version the draft differs from
it (`TextAt`); whatever others store between the two gets other numbers and other runs.
`ReviewsNameHandedVersion`: from its announcement to the end of the round the current
version is the last one announced, and from its handoff on it was handed to the Critic
(`ReviewedAt`). `MemoryDecisionKept`: a run is undecided, about to save, about to say so, or
settled (`MemoryOf`), undecided as long as it has no version and settled before it has one
(`MemoryAt`); a run that completes has one (`CompletionInv`).

Two theorems are what `RunReturns` and `RunEnds` rest on besides fairness. `RunsAreBounded`:
`StepsLeft` measures the round, and the point in it, at which a runner is; whatever the
roles, the gate and the database answer, each of its steps lowers it, and a revision opens
a round only while the limit leaves one (`BudgetInv`). `RunsCanGoOn`: an active runner
always has a step it can take. `NamesInv` says that what it is about to record is something
the tables accept, so that no event, handoff or status is refused, and a point that handles
a reply is reached with one it knows. A call that fails from outside is a step, too.

`RoleAgentProofs`: `ExecutorIsGrounded`, `CriticIsGrounded`, `ErrorIsFinal` and
`RequestsAreAnswered`. The code
counts a tool as used when it is called; `Served` says what that comes to: at every
point outside a call, each used tool has its result in the log. `FlagTells` ties the
shared-comments flag to the log, `ErrorLast` says that nothing follows an error but
its own records, `AnswerInv` that a request without an answer is that of the call under way.
`RolesAreBounded`: every step lowers what the two roles have to go, by rounds, turns and
calls, and the length of the log is within that budget (`LogWithinBudget`).

`PrivateMemoryProofs`: `FilesStayReadable` for every `Serves`; `ExclusiveKeeps` and
`ExclusiveAppends` when no two processes serve one user (`Exclusive`). The invariant
behind the last two says that what a call has read is still the file (`FreshAt`).

`AlphaProofs`: `OnlyFinalsPublished` and `PostsAreKept` hold whatever interleaves. The
invariant behind them follows a publication from the check of the stage to the
created file, to which the outbox never gives a second writer. `ApprovedIsPublished`,
`PublishedOnce` and `SavesAreKept` assume `OneAtATime`. `SequentialInv` then says that
at most one invocation is under way, that what it has looked up (the next number,
the free name, the empty outbox, the text) still holds, and that an approval recorded
for its call is for the content it will copy.

`RunsAreShort` and `CallsCanProceed` are the safety core of `RunsEnd` and need no
`OneAtATime`. Every step of a run lowers what its turns and calls leave it. A save can go
on because it was counted before it has a number (`NumberInv`): the highest number of
a draft and the pending saves together are at most the saves begun, so the next number is
within `MaxSaves`. That the file system then answers is fairness.

`SchemaMigrationProofs`: `MigrationTypeCorrect`, `EventsAreKept` and `CurrentSchemaIsWhole`. For
any overlap, `HistoryInv` says that an old table belongs to one process, the only one that
may drop it, and that when it is about to, the rows are in `run_events` or in the other
old table, which nobody is about to drop. For one process after the other,
`SequentialInv` adds what the version and the next statement say of every table.

`Upgrades` rests on two more. `UninterruptedSucceeds`: a process alone, after no
interruption, finds before every statement what that statement needs and nothing in its
way (`SmoothInv`), so `initialize` is refused on no supported version.
`InitializationIsBounded`: every statement leaves fewer of them to go, also when processes
overlap.

`MonitorReportsProofs`: `MonitorTypeCorrect`, `BundlesAreFinal`, `ReportsRestOnRecord`,
`ReportsStand` and `ExitsTellOutcome`. `WorldInv` carries the workflow's invariants over to the
composition (a monitor takes part in it only by using up faults and crashes). `HeldInv`
says that what a reader has read so far is that part of the final record: the run's
row is read first, and from then on nobody writes a record of the run (`EndIsFinal`).
`JudgeInv` follows the bundle to its file and from there to the reports, `OutcomeInv` the
temporary file, the publication and the exit code.

`LogsHaveNoGap`, `EndedRunsAreBundled` and `CompletionsAreEvident` complete the module.
Unless a call has failed, the events of a run are numbered without a gap up to the number
its runner has reached (`LogInv`), so a log that ended passes the bundle's contract.
`SourceInv`: what a run showed its Executor first is an older version of its document that
is not its own, below every version it stores. `CollectedInv` says that the fourth
connection adds that version, and no other, to the run's own. `EvidenceInv` joins these
with what a completed run has recorded (`CompletionInv`).

Only model-checked: the four liveness properties `RunReturns`, `RunEnds`, `RunsEnd` and
`Upgrades`. Weak fairness is defined by ENABLED, which this prover does not handle; what can
be said without it (each step lowers a bounded measure, and a next step exists) is
proved above. Every other property of a passing run is stated by a theorem. `RunsCanGoOn`
and `CallsCanProceed` say that a step exists by its guards and successor values, written
out as `CanGoOn`, since ENABLED cannot be.

## 5. Not modelled

* Live harness (`live_integration.py`): a test harness. It seeds a workspace, calls the
  operations modelled here one after the other with a scripted gate, and judges the
  texts that come out with predicates on words; its own state is the evidence of one
  scenario, written once, by one process, into a new directory. Its gate answers one
  request of a run and raises on the next, which is `GateFails` of the workflow.
* Model client (`gemini.py`, `models.py`): a service behind an interface. The models let
  it answer anything its type admits, and fail at any call.
* Rules, prompts and local configuration: files that are read and texts that are built. What
  a failing load does to the demo and the monitor command is `SettingsExits`.
* The demo's narration, and the texts of findings, issues, drafts and prompts: nothing reads
  them back except as whole values.
* Durability below a file system call or an SQLite statement: `fsync`, journals and locks
  are taken to do what their documentation says.
