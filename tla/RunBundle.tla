------------------------------- MODULE RunBundle -------------------------------
(***************************************************************************)
(* build_completed_run_bundle (domain_repository.py) and the contract that *)
(* CompletedRunBundle puts on what it collects (contracts/monitor.py),     *)
(* beside the runners of EditorialWorkflow.                                *)
(*                                                                         *)
(* The repository reads the run's row, its events, its handoffs and its    *)
(* versions each through a connection of its own, so runners and editors   *)
(* may write between two reads.  A bundle may be asked for at any time:    *)
(* scripts/demo_stage5.py asks when its own run() has returned, but the    *)
(* repository does not rely on that, and Demo here does not either.        *)
(***************************************************************************)
EXTENDS EditorialWorkflow, Sequences

CONSTANTS
    Subject,   \* the run that bundles are asked for
    Demo,      \* the process that asks the repository for its bundle
    Cli        \* processes of scripts/run_monitor.py, which read it from a file

Process == Cli \cup {Demo}

ASSUME BundleConstants ==
    /\ Subject \in RunId
    /\ Demo \notin Cli

VARIABLES
    at,       \* the next step of each process
    held      \* what it has read of the run

bundleVars == <<at, held>>

NothingHeld == [run |-> NoRun, events |-> {}, handoffs |-> {}, versions |-> {}]

(* Faulty variant: the handoffs are collected before anything else. *)
ReadOrderHandoffsFirst == <<"handoffs", "run", "events", "versions">>

(* The reads of build_completed_run_bundle. *)
ReadOrder == <<"run", "events", "handoffs", "versions">>

ReadPhase == {ReadOrder[k] : k \in 1 .. Len(ReadOrder)}

AfterRead(phase) ==
    LET k == CHOOSE i \in 1 .. Len(ReadOrder) : ReadOrder[i] = phase
    IN  IF k = Len(ReadOrder) THEN "check" ELSE ReadOrder[k + 1]

Moves(p, from, to) ==
    /\ at[p] = from
    /\ at' = [at EXCEPT ![p] = to]

ReadsInto(p, phase) ==
    /\ Moves(p, phase, AfterRead(phase))
    /\ UNCHANGED vars

-----------------------------------------------------------------------------
(* Collecting *)

(* Faulty variant: the version shown to the Executor last. *)
SourceRefLast(rows) ==
    LET shown == {e \in rows : e.type = "context_attached" /\ e.detail = "executor"}
    IN  IF shown = {} THEN NoVersion
        ELSE (CHOOSE e \in shown : \A x \in shown : x.sequence <= e.sequence).version

(* The version of the first context that the Executor was given. *)
SourceRef(rows) ==
    LET shown == {e \in rows : e.type = "context_attached" /\ e.detail = "executor"}
    IN  IF shown = {} THEN NoVersion
        ELSE (CHOOSE e \in shown : \A x \in shown : e.sequence <= x.sequence).version

AskBundle(p) ==
    /\ p = Demo
    /\ Moves(p, "idle", ReadOrder[1])
    /\ UNCHANGED <<vars, held>>

(* get_workflow_run.  A run that is unknown has no row to read, and one    *)
(* that has not ended is refused by the contract whatever else is read.    *)
ReadRun(p) ==
    /\ runs[Subject] # NoRun /\ runs[Subject].status \in Terminal
    /\ ReadsInto(p, "run")
    /\ held' = [held EXCEPT ![p].run = runs[Subject]]

RefuseUnended(p) ==
    /\ runs[Subject] # NoRun => runs[Subject].status \notin Terminal
    /\ Moves(p, "run", "refused")
    /\ UNCHANGED <<vars, held>>

ReadEvents(p) ==
    /\ ReadsInto(p, "events")
    /\ held' = [held EXCEPT ![p].events = EventsOf(Subject)]

ReadHandoffs(p) ==
    /\ ReadsInto(p, "handoffs")
    /\ held' = [held EXCEPT ![p].handoffs = HandoffsOf(Subject)]

(* The versions of the run and the source, of the run's document. *)
ReadVersions(p) ==
    /\ ReadsInto(p, "versions")
    /\ held' = [held EXCEPT ![p].versions =
            {v \in versions :
                /\ v.document = held[p].run.document
                /\ v.run = Subject \/ Ref(v) = SourceRef(held[p].events)}]

-----------------------------------------------------------------------------
(* CompletedRunBundle.__post_init__ *)

(* validate_event_order, validate_handoff_order *)
Contiguous(rows) == {x.sequence : x \in rows} = 1 .. Cardinality(rows)

(* Faulty variant: the versions are to be numbered without a gap. *)
VersionsOrderedTightly(rows) ==
    \A v, w \in rows : v.number < w.number =>
        \E x \in rows : x.number = v.number + 1

VersionsOrdered(rows) == \A v, w \in rows : v.number = w.number => v = w

StartsRun(rows) == \E e \in rows : e.sequence = 1 /\ e.type = "run_started"

EndsRun(rows, status) ==
    \E e \in rows :
        /\ e.type = TerminalEvent[status]
        /\ \A x \in rows : x.sequence <= e.sequence

Acceptable(b) ==
    /\ Contiguous(b.events)
    /\ Contiguous(b.handoffs)
    /\ VersionsOrdered(b.versions)
    /\ StartsRun(b.events)
    /\ EndsRun(b.events, b.run.status)

BuildBundle(p) ==
    /\ Acceptable(held[p])
    /\ Moves(p, "check", "built")
    /\ UNCHANGED <<vars, held>>

RefuseBundle(p) ==
    /\ ~ Acceptable(held[p])
    /\ Moves(p, "check", "refused")
    /\ UNCHANGED <<vars, held>>

CollectsBundle(p) ==
    \/ AskBundle(p)
    \/ ReadRun(p) \/ RefuseUnended(p)
    \/ ReadEvents(p) \/ ReadHandoffs(p) \/ ReadVersions(p)
    \/ BuildBundle(p) \/ RefuseBundle(p)

-----------------------------------------------------------------------------
(* What the evidence index makes of a bundle (monitoring/evidence.py) *)

ExecutorVersions(b) == {v \in b.versions : v.run # NoRun}

SomeEvent(b, type, details) ==
    \E e \in b.events : e.type = type /\ e.detail \in details

(* missing_evidence_classes *)
MissingEvidence(b) ==
    {class \in {"source", "drafts", "reviews", "acceptance", "approval_request",
                "approval_resolution"} :
        CASE class = "source" -> b.versions = ExecutorVersions(b)
          [] class = "drafts" -> ExecutorVersions(b) = {}
          [] class = "reviews" ->
                ~ SomeEvent(b, "critic_review_completed", {"accept", "revise"})
          [] class = "acceptance" -> ~ SomeEvent(b, "critic_review_completed", {"accept"})
          [] class = "approval_request" -> ~ SomeEvent(b, "approval_requested", {"none"})
          [] class = "approval_resolution" ->
                ~ SomeEvent(b, "approval_resolved", {"approved", "declined"})}

(* What a finding may cite; of the references only those to versions are   *)
(* told apart here.                                                        *)
References(b) == {Ref(v) : v \in b.versions}

-----------------------------------------------------------------------------
(* A bundle that was built is the whole and final record of its run,       *)
(* although it was read piece by piece, and stays so.                      *)
HasBundle(p) ==
    /\ at[p] \notin ReadPhase \cup {"idle", "check", "refused"}
    /\ held[p] # NothingHeld

BundleIsFinalRecord ==
    \A p \in Process : HasBundle(p) =>
        /\ held[p].run = runs[Subject]
        /\ held[p].events = EventsOf(Subject)
        /\ held[p].handoffs = HandoffsOf(Subject)
        /\ VersionsOf(Subject) \subseteq held[p].versions

(* "expect the source as the first document snapshot": the first version   *)
(* in the bundle of a completed run is the one that its Executor was first *)
(* shown, all others are the run's own, and no class of evidence is        *)
(* missing (a source that an Executor wrote is not recognised as one).     *)
CompletionIsEvident ==
    \A p \in Process :
        HasBundle(p) /\ held[p].run.status = "completed" =>
            \E source \in held[p].versions :
                /\ source.run # Subject
                /\ \A v \in held[p].versions \ {source} :
                        v.run = Subject /\ v.number > source.number
                /\ \E e \in held[p].events :
                        /\ e.type = "context_attached" /\ e.version = Ref(source)
                        /\ \A x \in held[p].events :
                                x.type = "context_attached" => e.sequence <= x.sequence
                /\ MissingEvidence(held[p]) \subseteq
                        (IF source.run = NoRun THEN {} ELSE {"source"})

(* Every run that ended is given a bundle, unless a call failed on its way *)
(* (a failed append leaves a gap in its log).                              *)
EndedRunIsBundled ==
    \A p \in Process :
        at[p] = "check" /\ faults = 0 => Acceptable(held[p])
=============================================================================
