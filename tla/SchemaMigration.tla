----------------------------- MODULE SchemaMigration -----------------------------
(***************************************************************************)
(* SQLiteDatabase.initialize (sqlite_database.py) as several processes run *)
(* it on one database file, and the three scripts of migrations/.          *)
(*                                                                         *)
(* executescript runs a script in autocommit mode: every statement is a    *)
(* transaction of its own, and so is the PRAGMA that records the version   *)
(* after it.  A process may die, or be refused a lock, between any two of  *)
(* them, and another process may run its own script meanwhile: the version *)
(* is read once, at the start.                                             *)
(*                                                                         *)
(* A table is the vocabulary its event_type column admits and its rows.    *)
(* Of the other tables and the indexes only the existence matters here:    *)
(* initialize never looks into them and never removes one.                 *)
(***************************************************************************)
EXTENDS Integers, Sequences

CONSTANTS
    Process,          \* processes that open the database
    Event,            \* events
    Since,            \* the script whose vocabulary first admits each event
    Absent,           \* the table that does not exist
    MaxInterruptions  \* bound: processes that die, or statements that fail
                      \* for no reason in the data

SchemaVersion == 3
Supported == 0 .. SchemaVersion
Unsupported == SchemaVersion + 1   \* any version another program wrote

(* migrations/001_initial_domain.sql creates these in this order. *)
InitialObjects ==
    <<"users", "documents", "document_access", "workflow_runs",
      "document_versions", "shared_comments", "run_events", "agent_handoffs",
      "document_access_user_idx", "workflow_runs_scope_idx",
      "shared_comments_document_idx">>

(* Scripts 2 and 3 move run_events aside under these names. *)
Old(k) == IF k = 1 THEN "run_events_v1" ELSE "run_events_v2"

Initial == {InitialObjects[i] : i \in 1 .. Len(InitialObjects)}
Name == Initial \cup {Old(1), Old(2)}
Table == [vocabulary : Supported, rows : SUBSET Event]

ASSUME MigrationConstants ==
    /\ Since \in [Event -> 1 .. SchemaVersion]
    /\ Absent \notin Table
    /\ MaxInterruptions \in Nat

VARIABLES
    table,          \* what exists under each name
    version,        \* PRAGMA user_version
    pc,             \* the next statement of each process
    known,          \* the local variable version
    next,           \* the next object of script 1
    recorded,       \* the events whose append_event returned
    interruptions,
    alternate       \* whether each process lets the one before it finish

database == <<table, version>>
migrationVars ==
    <<database, pc, known, next, recorded, interruptions, alternate>>

Statements == {"create_object", "rename", "create_events", "copy", "drop", "record"}
Points == Statements \cup {"out", "ready", "refused"}

NewTable(k) == [vocabulary |-> k, rows |-> {}]
Exists(name) == table[name] # Absent

(* The schema of version v, with every recorded event in run_events. *)
Whole(v) ==
    /\ \A name \in Initial : Exists(name) <=> v > 0
    /\ \A k \in {1, 2} : ~ Exists(Old(k))
    /\ v > 0 =>
        /\ table["run_events"].vocabulary = v
        /\ recorded \subseteq table["run_events"].rows

-----------------------------------------------------------------------------
(* initialize *)

(* Which script the version calls for. *)
FirstPoint(v) ==
    IF v = 0 THEN "create_object"
    ELSE IF v < SchemaVersion THEN "rename"
    ELSE "ready"

(* The version is read; a version of another program is refused. *)
Begin(p) ==
    /\ pc[p] = "out"
    /\ alternate => \A q \in Process : pc[q] \notin Statements
    /\ \/ /\ version \in Supported
          /\ pc' = [pc EXCEPT ![p] = FirstPoint(version)]
          /\ known' = [known EXCEPT ![p] = version]
          /\ next' = [next EXCEPT ![p] = 1]
       \/ /\ version \notin Supported
          /\ pc' = [pc EXCEPT ![p] = "refused"]
          /\ UNCHANGED <<known, next>>
    /\ UNCHANGED <<database, recorded, interruptions, alternate>>

(* Whether the next statement of a process can be executed. *)
CanCreateObject(p) == ~ Exists(InitialObjects[next[p]])

CanRename(p) == Exists("run_events") /\ ~ Exists(Old(known[p]))

CanCreateEvents(p) == ~ Exists("run_events")

(* INSERT ... SELECT: both tables exist, the new CHECK admits every row    *)
(* and no key is there already.                                            *)
CanCopy(p) ==
    /\ Exists("run_events")
    /\ Exists(Old(known[p]))
    /\ \A e \in table[Old(known[p])].rows :
            /\ Since[e] <= table["run_events"].vocabulary
            /\ e \notin table["run_events"].rows

CanDrop(p) == Exists(Old(known[p]))

GoesOn(p, from, to) ==
    /\ pc[p] = from
    /\ pc' = [pc EXCEPT ![p] = to]
    /\ UNCHANGED <<known, recorded, interruptions, alternate>>

CreateObject(p) ==
    /\ CanCreateObject(p)
    /\ GoesOn(p, "create_object",
              IF next[p] = Len(InitialObjects) THEN "record" ELSE "create_object")
    /\ table' = [table EXCEPT ![InitialObjects[next[p]]] =
            NewTable(IF InitialObjects[next[p]] = "run_events" THEN 1 ELSE 0)]
    /\ next' = [next EXCEPT ![p] = IF @ = Len(InitialObjects) THEN @ ELSE @ + 1]
    /\ UNCHANGED version

RenameEvents(p) ==
    /\ CanRename(p)
    /\ GoesOn(p, "rename", "create_events")
    /\ table' = [table EXCEPT !["run_events"] = Absent,
                              ![Old(known[p])] = table["run_events"]]
    /\ UNCHANGED <<version, next>>

CreateEvents(p) ==
    /\ CanCreateEvents(p)
    /\ GoesOn(p, "create_events", "copy")
    /\ table' = [table EXCEPT !["run_events"] = NewTable(known[p] + 1)]
    /\ UNCHANGED <<version, next>>

(* Faulty variant: INSERT OR IGNORE. *)
CopyAdmittedEvents(p) ==
    /\ Exists("run_events") /\ Exists(Old(known[p]))
    /\ GoesOn(p, "copy", "drop")
    /\ table' = [table EXCEPT !["run_events"].rows =
            @ \cup {e \in table[Old(known[p])].rows :
                        Since[e] <= table["run_events"].vocabulary}]
    /\ UNCHANGED <<version, next>>

CopyEvents(p) ==
    /\ CanCopy(p)
    /\ GoesOn(p, "copy", "drop")
    /\ table' = [table EXCEPT !["run_events"].rows = @ \cup table[Old(known[p])].rows]
    /\ UNCHANGED <<version, next>>

DropOld(p) ==
    /\ CanDrop(p)
    /\ GoesOn(p, "drop", "record")
    /\ table' = [table EXCEPT ![Old(known[p])] = Absent]
    /\ UNCHANGED <<version, next>>

(* Faulty variants: the current version is recorded after any script ...   *)
RecordLatestVersion(p) ==
    /\ pc[p] = "record"
    /\ version' = SchemaVersion
    /\ known' = [known EXCEPT ![p] = @ + 1]
    /\ pc' = [pc EXCEPT ![p] = FirstPoint(known[p] + 1)]
    /\ UNCHANGED <<table, next, recorded, interruptions, alternate>>

(* ... the local variable is not brought up to date, or twice. *)
RecordVersionOnly(p) ==
    /\ pc[p] = "record"
    /\ version' = known[p] + 1
    /\ pc' = [pc EXCEPT ![p] = FirstPoint(known[p])]
    /\ UNCHANGED <<table, known, next, recorded, interruptions, alternate>>

(* PRAGMA user_version, then the next script if there is one. *)
RecordVersion(p) ==
    /\ pc[p] = "record"
    /\ version' = known[p] + 1
    /\ known' = [known EXCEPT ![p] = @ + 1]
    /\ pc' = [pc EXCEPT ![p] = FirstPoint(known[p] + 1)]
    /\ UNCHANGED <<table, next, recorded, interruptions, alternate>>

(* The statement cannot be executed: PersistedDataError. *)
StatementFails(p) ==
    /\ \/ pc[p] = "create_object" /\ ~ CanCreateObject(p)
       \/ pc[p] = "rename" /\ ~ CanRename(p)
       \/ pc[p] = "create_events" /\ ~ CanCreateEvents(p)
       \/ pc[p] = "copy" /\ ~ CanCopy(p)
       \/ pc[p] = "drop" /\ ~ CanDrop(p)
    /\ pc' = [pc EXCEPT ![p] = "refused"]
    /\ UNCHANGED <<database, known, next, recorded, interruptions, alternate>>

(* The process dies, or a statement raises: what was executed stays. *)
Interrupted(p) ==
    /\ interruptions < MaxInterruptions
    /\ interruptions' = interruptions + 1
    /\ pc[p] \in Statements
    /\ pc' = [pc EXCEPT ![p] = "out"]
    /\ UNCHANGED <<database, known, next, recorded, alternate>>

-----------------------------------------------------------------------------
(* After initialize *)

(* append_event: the row is refused when its type is not in the table's    *)
(* vocabulary or the table is missing.                                     *)
RecordEvent(p, e) ==
    /\ pc[p] = "ready"
    /\ Exists("run_events")
    /\ Since[e] <= table["run_events"].vocabulary
    /\ e \notin table["run_events"].rows
    /\ e \notin recorded
    /\ table' = [table EXCEPT !["run_events"].rows = @ \cup {e}]
    /\ recorded' = recorded \cup {e}
    /\ UNCHANGED <<version, pc, known, next, interruptions, alternate>>

(* The process ends; initialize may be called again. *)
Leave(p) ==
    /\ pc[p] \in {"ready", "refused"}
    /\ pc' = [pc EXCEPT ![p] = "out"]
    /\ UNCHANGED <<database, known, next, recorded, interruptions, alternate>>

-----------------------------------------------------------------------------
(* A new file, or a database that an earlier release of the program left.  *)
MigrationInit ==
    /\ version \in 0 .. Unsupported
    /\ recorded \in SUBSET {e \in Event : Since[e] <= version}
    /\ table = [name \in Name |->
            IF version = 0 \/ name \notin Initial THEN Absent
            ELSE IF name # "run_events" THEN NewTable(0)
            ELSE [vocabulary |-> IF version \in Supported THEN version
                                 ELSE SchemaVersion,
                  rows |-> recorded]]
    /\ pc = [p \in Process |-> "out"]
    /\ known = [p \in Process |-> 0]
    /\ next = [p \in Process |-> 1]
    /\ interruptions = 0
    /\ alternate \in BOOLEAN

(* What initialize does by itself once it has read the version. *)
Initializes(p) ==
    \/ CreateObject(p)
    \/ RenameEvents(p) \/ CreateEvents(p) \/ CopyEvents(p) \/ DropOld(p)
    \/ RecordVersion(p)
    \/ StatementFails(p)

MigrationNext ==
    \E p \in Process :
        \/ Begin(p)
        \/ Initializes(p)
        \/ Interrupted(p)
        \/ \E e \in Event : RecordEvent(p, e)
        \/ Leave(p)

MigrationSpec ==
    /\ MigrationInit
    /\ [][MigrationNext]_migrationVars
    /\ \A p \in Process : WF_migrationVars(Initializes(p))

-----------------------------------------------------------------------------
MigrationTypeOK ==
    /\ table \in [Name -> Table \cup {Absent}]
    /\ version \in 0 .. Unsupported
    /\ pc \in [Process -> Points]
    /\ known \in [Process -> Supported]
    /\ next \in [Process -> 1 .. Len(InitialObjects)]
    /\ recorded \subseteq Event
    /\ interruptions \in Nat
    /\ alternate \in BOOLEAN

(* No event that was ever recorded is destroyed: it is a row of some table *)
(* whatever scripts overlap, and wherever one of them is cut short.        *)
EventsKept ==
    \A e \in recorded : \E name \in Name : Exists(name) /\ e \in table[name].rows

(* "Create or verify the one supported schema version": when processes     *)
(* initialize one after the other, the current version is on the file, and *)
(* a process is ready, only over the whole current schema with every event *)
(* in it, wherever earlier initializations were cut short.                 *)
CurrentIsWhole ==
    alternate =>
        /\ version = SchemaVersion => Whole(SchemaVersion)
        /\ \A p \in Process : pc[p] = "ready" => version = SchemaVersion

(* A new database, or one of an earlier release, is brought to the current *)
(* schema: initialize ends with success, unless it or an earlier one was   *)
(* interrupted or others initialize at the same time.                      *)
Upgrades ==
    \A p \in Process :
        pc[p] \in Statements ~>
            pc[p] = "ready" \/ interruptions > 0 \/ ~ alternate

(* "Initialization is repeatable": of processes that initialize one after  *)
(* the other none is refused a database of a supported version.            *)
InitializationRepeats ==
    alternate /\ version \in Supported => \A p \in Process : pc[p] # "refused"
=============================================================================
