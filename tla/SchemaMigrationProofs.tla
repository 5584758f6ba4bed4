------------------------- MODULE SchemaMigrationProofs -------------------------
(***************************************************************************)
(* Proofs about SchemaMigration, for any number of processes, events and   *)
(* interruptions:                                                          *)
(*   - MigrationTypeOK;                                                    *)
(*   - EventsKept, however the scripts of several processes overlap: an    *)
(*     old table has one process that may drop it, and when that process   *)
(*     is about to, the rows are in run_events or in an old table that     *)
(*     nobody is about to drop;                                            *)
(*   - CurrentIsWhole, when processes initialize one after the other;      *)
(*   - an initialization executes a bounded number of statements, and when *)
(*     processes initialize one after the other and none is cut short, no  *)
(*     statement fails.                                                    *)
(***************************************************************************)
EXTENDS SchemaMigration, TLAPS

(* A process holds the old table of its script from the renaming on. *)
Holding == {"create_events", "copy", "drop"}
Scripted == {"rename"} \cup Holding

ScriptInv ==
    /\ \A p \in Process : pc[p] \in Statements => known[p] < SchemaVersion
    /\ \A p \in Process : pc[p] \in Scripted => known[p] \in {1, 2}

HoldInv ==
    /\ \A p \in Process : pc[p] \in Holding => Exists(Old(known[p]))
    /\ \A p, q \in Process :
        pc[p] \in Holding /\ pc[q] \in Holding /\ known[p] = known[q] => p = q

(* The rows of the old table of p are in the new one, or in the old table  *)
(* of the other script, which no process is about to drop.                 *)
Copied(p) ==
    /\ Exists("run_events")
    /\ table[Old(known[p])].rows \subseteq table["run_events"].rows

SetAside(p) ==
    \E k \in {1, 2} \ {known[p]} :
        /\ Exists(Old(k))
        /\ table[Old(known[p])].rows \subseteq table[Old(k)].rows
        /\ \A q \in Process : known[q] = k => pc[q] # "drop"

SecuredInv == \A p \in Process : pc[p] = "drop" => Copied(p) \/ SetAside(p)

TypeInv == MigrationTypeOK /\ ScriptInv

(* The inductive invariant behind EventsKept. *)
HistoryInv == TypeInv /\ HoldInv /\ SecuredInv /\ EventsKept

(* What holds in addition when processes initialize one after the other:   *)
(* the database is what its version, and the statement of the process that *)
(* is at work, say.                                                        *)
AloneInv ==
    /\ \A p, q \in Process : pc[p] \in Statements /\ pc[q] \in Statements => p = q
    /\ \A p \in Process : pc[p] \in Statements => known[p] = version
    /\ \A p \in Process : pc[p] = "ready" => version = SchemaVersion

ShapeInv ==
    /\ version = 0 => recorded = {} /\ ~ Exists(Old(1)) /\ ~ Exists(Old(2))
    /\ version > 0 => \A name \in Initial \ {"run_events"} : Exists(name)
    /\ \A k, j \in {1, 2} : version = k /\ j # k => ~ Exists(Old(j))
    /\ \A k \in {1, 2} : version = k =>
        IF Exists(Old(k)) THEN recorded \subseteq table[Old(k)].rows
        ELSE Exists("run_events") /\ recorded \subseteq table["run_events"].rows
    /\ version = SchemaVersion => Whole(SchemaVersion)

NewEvents(p) == Exists("run_events") /\ table["run_events"].vocabulary = known[p] + 1

StatementInv ==
    \A p \in Process :
        /\ pc[p] = "create_object" =>
            known[p] = 0 /\ \A i \in 1 .. next[p] - 1 : Exists(InitialObjects[i])
        /\ pc[p] = "record" /\ known[p] = 0 => \A name \in Initial : Exists(name)
        /\ pc[p] \in Holding => Exists(Old(known[p]))
        /\ pc[p] \in {"copy", "drop"} => NewEvents(p)
        /\ pc[p] = "drop" => recorded \subseteq table["run_events"].rows
        /\ pc[p] = "record" /\ known[p] > 0 =>
            /\ NewEvents(p)
            /\ recorded \subseteq table["run_events"].rows
            /\ ~ Exists(Old(known[p]))

SequentialInv == TypeInv /\ (alternate => AloneInv /\ ShapeInv /\ StatementInv)

-----------------------------------------------------------------------------
(* Types *)

LEMMA Objects ==
    /\ Len(InitialObjects) = 11
    /\ \A i \in 1 .. 11 : InitialObjects[i] \in Initial
    /\ Initial \subseteq Name
    /\ \A k : Old(k) \in Name /\ Old(k) \notin Initial
    /\ "run_events" \in Initial
    /\ \A name \in Initial : \E i \in 1 .. 11 : InitialObjects[i] = name
    /\ Old(1) # Old(2)
BY DEF InitialObjects, Initial, Name, Old

LEMMA NextPoint ==
    \A v \in 1 .. SchemaVersion :
        /\ FirstPoint(v) \in Points
        /\ FirstPoint(v) \in Statements => v < SchemaVersion
        /\ FirstPoint(v) \in {"rename", "ready"}
        /\ FirstPoint(v) = "ready" <=> v = SchemaVersion
BY DEF FirstPoint, Points, Statements, SchemaVersion

LEMMA NewTableType == \A k \in Supported : NewTable(k) \in Table
BY DEF NewTable, Table

LEMMA TypeInit == MigrationInit => TypeInv
<1> SUFFICES ASSUME MigrationInit PROVE TypeInv
    OBVIOUS
<1>1. table \in [Name -> Table \cup {Absent}]
    BY MigrationConstants DEF MigrationInit, NewTable, Table, Supported, Unsupported, SchemaVersion
<1>2. /\ version \in 0 .. Unsupported
      /\ pc \in [Process -> Points]
      /\ known \in [Process -> Supported]
      /\ recorded \subseteq Event
      /\ interruptions \in Nat
      /\ alternate \in BOOLEAN
    BY MigrationConstants DEF MigrationInit, Points, Supported, SchemaVersion
<1>3. next \in [Process -> 1 .. Len(InitialObjects)]
    BY Objects DEF MigrationInit
<1>4. ScriptInv
    BY DEF MigrationInit, ScriptInv, Statements, Scripted, Holding
<1> QED
    BY <1>1, <1>2, <1>3, <1>4 DEF TypeInv, MigrationTypeOK

LEMMA TypeBegin == ASSUME TypeInv, NEW p \in Process, Begin(p) PROVE TypeInv'
<1>1. CASE version \in Supported
    <2>1. /\ pc' = [pc EXCEPT ![p] = FirstPoint(version)]
          /\ known' = [known EXCEPT ![p] = version]
          /\ next' = [next EXCEPT ![p] = 1]
          /\ UNCHANGED <<table, version, recorded, interruptions, alternate>>
        BY <1>1 DEF Begin, database
    <2>2. /\ FirstPoint(version) \in Points
          /\ FirstPoint(version) \in Statements => version < SchemaVersion
          /\ FirstPoint(version) \in Scripted => version \in {1, 2}
        BY <1>1 DEF FirstPoint, Points, Statements, Scripted, Holding, Supported, SchemaVersion
    <2>3. MigrationTypeOK'
        BY <1>1, <2>1, <2>2, Objects DEF TypeInv, MigrationTypeOK
    <2>4. ScriptInv'
        BY <2>1, <2>2 DEF TypeInv, MigrationTypeOK, ScriptInv
    <2> QED
        BY <2>3, <2>4 DEF TypeInv
<1>2. CASE version \notin Supported
    BY <1>2 DEF Begin, database, TypeInv, MigrationTypeOK, ScriptInv, Points, Statements,
        Scripted, Holding
<1> QED
    BY <1>1, <1>2

LEMMA TypeStatements ==
    ASSUME TypeInv, NEW p \in Process, Initializes(p) PROVE TypeInv'
<1> USE DEF TypeInv, MigrationTypeOK, ScriptInv, GoesOn
<1>1. ASSUME CreateObject(p) PROVE TypeInv'
    <2>1. /\ NewTable(0) \in Table /\ NewTable(1) \in Table
        BY NewTableType DEF Supported, SchemaVersion
    <2>2. next[p] \in 1 .. 11 /\ InitialObjects[next[p]] \in Name
        BY Objects
    <2>3. next' \in [Process -> 1 .. Len(InitialObjects)]
        BY <1>1, <2>2, Objects DEF CreateObject
    <2>4. table' \in [Name -> Table \cup {Absent}]
        BY <1>1, <2>1, <2>2 DEF CreateObject
    <2>5. pc' \in [Process -> Points] /\ ScriptInv'
        BY <1>1 DEF CreateObject, Points, Statements, Scripted, Holding
    <2> QED
        BY <1>1, <2>3, <2>4, <2>5 DEF CreateObject
<1>2. ASSUME RenameEvents(p) PROVE TypeInv'
    <2>1. table["run_events"] \in Table
        BY <1>2, Objects DEF RenameEvents, CanRename, Exists
    <2>2. table' \in [Name -> Table \cup {Absent}]
        BY <1>2, <2>1, Objects DEF RenameEvents
    <2>3. pc' \in [Process -> Points] /\ ScriptInv'
        BY <1>2 DEF RenameEvents, Points, Statements, Scripted, Holding
    <2> QED
        BY <1>2, <2>2, <2>3 DEF RenameEvents
<1>3. ASSUME CreateEvents(p) PROVE TypeInv'
    <2>1. known[p] + 1 \in Supported
        BY <1>3 DEF CreateEvents, Statements, Supported, SchemaVersion
    <2>2. table' \in [Name -> Table \cup {Absent}]
        BY <1>3, <2>1, NewTableType, Objects DEF CreateEvents
    <2>3. pc' \in [Process -> Points] /\ ScriptInv'
        BY <1>3 DEF CreateEvents, Points, Statements, Scripted, Holding
    <2> QED
        BY <1>3, <2>2, <2>3 DEF CreateEvents
<1>4. ASSUME CopyEvents(p) PROVE TypeInv'
    <2>1. table["run_events"] \in Table /\ table[Old(known[p])] \in Table
        BY <1>4, Objects DEF CopyEvents, CanCopy, Exists
    <2>2. [table["run_events"] EXCEPT !.rows = @ \cup table[Old(known[p])].rows] \in Table
        BY <2>1 DEF Table
    <2>3. table' \in [Name -> Table \cup {Absent}]
        BY <1>4, <2>2, Objects DEF CopyEvents
    <2>4. pc' \in [Process -> Points] /\ ScriptInv'
        BY <1>4 DEF CopyEvents, Points, Statements, Scripted, Holding
    <2> QED
        BY <1>4, <2>3, <2>4 DEF CopyEvents
<1>5. ASSUME DropOld(p) PROVE TypeInv'
    <2>1. table' \in [Name -> Table \cup {Absent}]
        BY <1>5, Objects DEF DropOld
    <2>2. pc' \in [Process -> Points] /\ ScriptInv'
        BY <1>5 DEF DropOld, Points, Statements, Scripted, Holding
    <2> QED
        BY <1>5, <2>1, <2>2 DEF DropOld
<1>6. ASSUME RecordVersion(p) PROVE TypeInv'
    <2>1. known[p] + 1 \in 1 .. SchemaVersion
        BY <1>6 DEF RecordVersion, Statements, Supported, SchemaVersion
    <2>2. known[p] + 1 \in Supported /\ known[p] + 1 \in 0 .. Unsupported
        BY <2>1 DEF Supported, Unsupported, SchemaVersion
    <2>3. /\ FirstPoint(known[p] + 1) \in Points
          /\ FirstPoint(known[p] + 1) \in Statements => known[p] + 1 < SchemaVersion
          /\ FirstPoint(known[p] + 1) \in Scripted => known[p] + 1 \in {1, 2}
        BY <2>1, NextPoint DEF Scripted, Holding, SchemaVersion
    <2>4. MigrationTypeOK'
        BY <1>6, <2>2, <2>3 DEF RecordVersion
    <2>5. ScriptInv'
        BY <1>6, <2>2, <2>3 DEF RecordVersion
    <2> QED
        BY <2>4, <2>5
<1>7. ASSUME StatementFails(p) PROVE TypeInv'
    BY <1>7 DEF StatementFails, database, Points, Statements, Scripted, Holding
<1> QED
    BY <1>1, <1>2, <1>3, <1>4, <1>5, <1>6, <1>7 DEF Initializes

LEMMA TypeStep == TypeInv /\ [MigrationNext]_migrationVars => TypeInv'
<1> SUFFICES ASSUME TypeInv, [MigrationNext]_migrationVars PROVE TypeInv'
    OBVIOUS
<1>1. ASSUME NEW p \in Process, Interrupted(p) PROVE TypeInv'
    BY <1>1 DEF Interrupted, database, TypeInv, MigrationTypeOK, ScriptInv, Points,
        Statements, Scripted, Holding
<1>2. ASSUME NEW p \in Process, NEW e \in Event, RecordEvent(p, e) PROVE TypeInv'
    <2>1. table["run_events"] \in Table
        BY <1>2, Objects DEF RecordEvent, Exists, TypeInv, MigrationTypeOK
    <2>2. [table["run_events"] EXCEPT !.rows = @ \cup {e}] \in Table
        BY <2>1 DEF Table
    <2>3. table' \in [Name -> Table \cup {Absent}]
        BY <1>2, <2>2, Objects DEF RecordEvent, TypeInv, MigrationTypeOK
    <2> QED
        BY <1>2, <2>3 DEF RecordEvent, TypeInv, MigrationTypeOK, ScriptInv
<1>3. ASSUME NEW p \in Process, Leave(p) PROVE TypeInv'
    BY <1>3 DEF Leave, database, TypeInv, MigrationTypeOK, ScriptInv, Points,
        Statements, Scripted, Holding
<1>4. ASSUME UNCHANGED migrationVars PROVE TypeInv'
    BY <1>4 DEF migrationVars, database, TypeInv, MigrationTypeOK, ScriptInv
<1> QED
    BY <1>1, <1>2, <1>3, <1>4, TypeBegin, TypeStatements DEF MigrationNext

LEMMA TypeInvariant == MigrationSpec => []TypeInv
<1>1. MigrationInit => TypeInv
    BY TypeInit
<1>2. TypeInv /\ [MigrationNext]_migrationVars => TypeInv'
    BY TypeStep
<1> QED
    BY <1>1, <1>2, PTL DEF MigrationSpec

(* Every variable keeps to its type; no process counts past the supported  *)
(* versions, nor past the objects of the first script.                     *)
THEOREM MigrationTypeCorrect == MigrationSpec => []MigrationTypeOK
<1>1. TypeInv => MigrationTypeOK
    BY DEF TypeInv
<1> QED
    BY <1>1, TypeInvariant, PTL

-----------------------------------------------------------------------------
(* No event is destroyed *)

LEMMA HistoryInit == MigrationInit => HistoryInv
<1> SUFFICES ASSUME MigrationInit PROVE HistoryInv
    OBVIOUS
<1>1. TypeInv
    BY TypeInit
<1>2. HoldInv /\ SecuredInv
    BY DEF MigrationInit, HoldInv, SecuredInv, Holding
<1>3. EventsKept
    <2> SUFFICES ASSUME NEW e \in recorded
                 PROVE  Exists("run_events") /\ e \in table["run_events"].rows
        BY Objects DEF EventsKept
    <2>1. version > 0
        BY MigrationConstants DEF MigrationInit, SchemaVersion, Unsupported
    <2>2. table["run_events"].rows = recorded /\ table["run_events"] \in Table
        BY <2>1, Objects, <1>1 DEF MigrationInit, TypeInv, MigrationTypeOK, Table, Supported,
            Unsupported, SchemaVersion
    <2> QED
        BY <2>2, MigrationConstants DEF Exists
<1> QED
    BY <1>1, <1>2, <1>3 DEF HistoryInv

(* Of the two old tables, p at work on the script of one holds that one. *)
LEMMA Olds ==
    ASSUME TypeInv, NEW p \in Process, pc[p] \in Scripted
    PROVE  /\ known[p] \in {1, 2}
           /\ \A k \in {1, 2} : Old(k) = Old(known[p]) <=> k = known[p]
           /\ Old(1) # "run_events" /\ Old(2) # "run_events"
BY DEF TypeInv, ScriptInv, Old

(* A step that leaves the old tables alone, moves no process to the point  *)
(* of dropping one, and takes no row from run_events.                      *)
LEMMA Harmless ==
    ASSUME HistoryInv, TypeInv',
           \A k \in {1, 2} : table'[Old(k)] = table[Old(k)],
           Exists("run_events") =>
                /\ Exists("run_events")'
                /\ table["run_events"].rows \subseteq table'["run_events"].rows,
           \A name \in Initial \ {"run_events"} : Exists(name) => table'[name] = table[name],
           \A p \in Process :
                pc'[p] \in Holding => /\ known'[p] = known[p]
                                      /\ pc[p] \in Holding
                                      /\ pc'[p] = "drop" => pc[p] = "drop",
           recorded' = recorded
    PROVE  HistoryInv'
<1> USE DEF HistoryInv
<1>1. HoldInv'
    BY DEF HoldInv, Exists, Old
<1>2. SecuredInv'
    <2> SUFFICES ASSUME NEW p \in Process, pc'[p] = "drop"
                 PROVE  Copied(p)' \/ SetAside(p)'
        BY DEF SecuredInv
    <2>1. pc[p] = "drop" /\ known'[p] = known[p]
        BY DEF Holding
    <2>2. table'[Old(known[p])] = table[Old(known[p])]
        BY DEF Old
    <2>3. CASE Copied(p)
        BY <2>1, <2>2, <2>3 DEF Copied
    <2>4. CASE SetAside(p)
        BY <2>1, <2>2, <2>4 DEF SetAside, Exists, Holding
    <2> QED
        BY <2>1, <2>3, <2>4 DEF SecuredInv
<1>3. EventsKept'
    BY Objects DEF EventsKept, Exists, Name
<1> QED
    BY <1>1, <1>2, <1>3

LEMMA HistoryObject ==
    ASSUME HistoryInv, TypeInv', NEW p \in Process, CreateObject(p) PROVE HistoryInv'
<1>1. /\ next[p] \in 1 .. 11
      /\ InitialObjects[next[p]] \in Initial
      /\ ~ Exists(InitialObjects[next[p]])
    BY Objects DEF HistoryInv, TypeInv, MigrationTypeOK, CreateObject, CanCreateObject
<1>2. \A name \in Name : name # InitialObjects[next[p]] => table'[name] = table[name]
    BY DEF CreateObject, HistoryInv, TypeInv, MigrationTypeOK
<1>3. \A k \in {1, 2} : table'[Old(k)] = table[Old(k)]
    BY <1>1, <1>2, Objects
<1>4. \A name \in Initial : Exists(name) => table'[name] = table[name]
    BY <1>1, <1>2, Objects
<1>5. \A q \in Process : pc'[q] \in Holding => pc'[q] = pc[q] /\ known'[q] = known[q]
    BY DEF CreateObject, GoesOn, Holding, HistoryInv, TypeInv, MigrationTypeOK
<1> QED
    BY <1>3, <1>4, <1>5, Harmless, Objects DEF CreateObject, GoesOn, Exists

LEMMA HistoryRename ==
    ASSUME HistoryInv, TypeInv', NEW p \in Process, RenameEvents(p) PROVE HistoryInv'
<1> DEFINE K == known[p]
<1> USE DEF HistoryInv, GoesOn
<1>1. /\ pc[p] = "rename" /\ pc' = [pc EXCEPT ![p] = "create_events"]
      /\ UNCHANGED <<known, recorded>>
      /\ Exists("run_events") /\ ~ Exists(Old(K))
    BY DEF RenameEvents, CanRename
<1>2. K \in {1, 2} /\ Old(K) # "run_events" /\ Old(K) \in Name
    BY <1>1, Olds, Objects DEF Scripted
<1>3. /\ table'["run_events"] = Absent
      /\ table'[Old(K)] = table["run_events"]
      /\ \A name \in Name : name \notin {"run_events", Old(K)} => table'[name] = table[name]
    BY <1>2, Objects DEF RenameEvents, TypeInv, MigrationTypeOK
<1>4. ASSUME NEW q \in Process, pc[q] \in Holding
      PROVE  /\ known[q] \in {1, 2} /\ known[q] # K /\ Old(known[q]) # Old(K)
             /\ Exists(Old(known[q])) /\ table'[Old(known[q])] = table[Old(known[q])]
    <2>1. known[q] \in {1, 2} /\ Exists(Old(known[q]))
        BY <1>4, Olds DEF HoldInv, Scripted
    <2>2. known[q] # K /\ Old(known[q]) # Old(K) /\ Old(known[q]) # "run_events"
        BY <2>1, <1>1, <1>2 DEF Old
    <2> QED
        BY <2>1, <2>2, <1>3, Objects
<1>5. \A q \in Process : q # p => pc'[q] = pc[q]
    BY <1>1 DEF TypeInv, MigrationTypeOK
<1>6. HoldInv'
    <2>1. \A q \in Process : pc'[q] \in Holding => Exists(Old(known[q]))'
        BY <1>1, <1>3, <1>4, <1>5 DEF Exists, Holding
    <2>2. \A q, r \in Process :
            pc'[q] \in Holding /\ pc'[r] \in Holding /\ known[q] = known[r] => q = r
        BY <1>4, <1>5 DEF HoldInv
    <2> QED
        BY <1>1, <2>1, <2>2 DEF HoldInv
<1>7. SecuredInv'
    <2> SUFFICES ASSUME NEW q \in Process, pc'[q] = "drop" PROVE SetAside(q)'
        BY DEF SecuredInv
    <2>1. q # p /\ pc[q] = "drop" /\ pc[q] \in Holding
        BY <1>1, <1>5 DEF TypeInv, MigrationTypeOK, Holding
    <2>2. ~ SetAside(q)
        BY <1>1, <1>2, <1>4, <2>1 DEF SetAside
    <2>3. Copied(q)
        BY <2>1, <2>2 DEF SecuredInv
    <2>4. \A r \in Process : known[r] = K => pc'[r] # "drop"
        BY <1>1, <1>4, <1>5 DEF Holding, TypeInv, MigrationTypeOK
    <2>5. K \in {1, 2} \ {known[q]}
        BY <1>2, <1>4, <2>1
    <2>6. Exists(Old(K))'
        BY <1>1, <1>3 DEF Exists
    <2>7. table'[Old(known[q])].rows \subseteq table'[Old(K)].rows
        BY <1>3, <1>4, <2>1, <2>3 DEF Copied
    <2> QED
        BY <1>1, <2>4, <2>5, <2>6, <2>7 DEF SetAside
<1>8. EventsKept'
    BY <1>1, <1>2, <1>3 DEF EventsKept, Exists
<1> QED
    BY <1>6, <1>7, <1>8

LEMMA HistoryCreate ==
    ASSUME HistoryInv, TypeInv', NEW p \in Process, CreateEvents(p) PROVE HistoryInv'
<1>1. /\ ~ Exists("run_events")
      /\ \A name \in Name : name # "run_events" => table'[name] = table[name]
    BY DEF CreateEvents, CanCreateEvents, HistoryInv, TypeInv, MigrationTypeOK
<1>2. \A k \in {1, 2} : table'[Old(k)] = table[Old(k)]
    BY <1>1, Objects
<1>3. \A q \in Process : pc'[q] \in Holding =>
            /\ known'[q] = known[q]
            /\ pc[q] \in Holding
            /\ pc'[q] = "drop" => pc[q] = "drop"
    BY DEF CreateEvents, GoesOn, Holding, HistoryInv, TypeInv, MigrationTypeOK
<1> QED
    BY <1>1, <1>2, <1>3, Harmless, Objects DEF CreateEvents, GoesOn

LEMMA HistoryCopy ==
    ASSUME HistoryInv, TypeInv', NEW p \in Process, CopyEvents(p) PROVE HistoryInv'
<1> DEFINE K == known[p]
<1> USE DEF HistoryInv, GoesOn
<1>1. /\ pc[p] = "copy" /\ pc' = [pc EXCEPT ![p] = "drop"]
      /\ UNCHANGED <<known, recorded>>
      /\ Exists("run_events") /\ Exists(Old(K))
    BY DEF CopyEvents, CanCopy
<1>2. K \in {1, 2} /\ Old(K) # "run_events" /\ Old(K) \in Name
    BY <1>1, Olds, Objects DEF Scripted, Holding
<1>3. table["run_events"] \in Table /\ table'["run_events"] \in Table
    <2>1. table["run_events"] \in Table
        BY <1>1, Objects DEF Exists, TypeInv, MigrationTypeOK
    <2>2. [table["run_events"] EXCEPT !.rows = @ \cup table[Old(K)].rows] \in Table
        BY <1>1, <1>2, <2>1 DEF Exists, TypeInv, MigrationTypeOK, Table
    <2> QED
        BY <2>1, <2>2, Objects DEF CopyEvents, TypeInv, MigrationTypeOK
<1>4. /\ table'["run_events"].rows = table["run_events"].rows \cup table[Old(K)].rows
      /\ \A name \in Name : name # "run_events" => table'[name] = table[name]
    BY <1>3, Objects DEF CopyEvents, TypeInv, MigrationTypeOK, Table
<1>5. \A q \in Process : q # p => pc'[q] = pc[q]
    BY <1>1 DEF TypeInv, MigrationTypeOK
<1>6. \A k \in {1, 2} : table'[Old(k)] = table[Old(k)]
    BY <1>4, Objects
<1>7. Exists("run_events")'
    BY <1>3, MigrationConstants DEF Exists
<1>8. HoldInv'
    <2>1. \A q \in Process : pc'[q] \in Holding => pc[q] \in Holding
        BY <1>1, <1>5 DEF Holding
    <2>2. \A q \in Process : pc[q] \in Holding => table'[Old(known[q])] = table[Old(known[q])]
        BY <1>6, Olds DEF Scripted
    <2> QED
        BY <1>1, <2>1, <2>2 DEF HoldInv, Exists
<1>9. SecuredInv'
    <2> SUFFICES ASSUME NEW q \in Process, pc'[q] = "drop" PROVE Copied(q)' \/ SetAside(q)'
        BY DEF SecuredInv
    <2>1. CASE q = p
        BY <1>1, <1>2, <1>4, <1>7, <2>1 DEF Copied
    <2>2. CASE q # p
        <3>1. pc[q] = "drop" /\ known[q] \in {1, 2} /\ known[q] # K
            BY <1>1, <1>5, <2>2, Olds DEF HoldInv, Holding, Scripted
        <3>2. table'[Old(known[q])] = table[Old(known[q])]
            BY <1>6, <3>1
        <3>3. CASE Copied(q)
            BY <1>1, <1>4, <1>7, <3>2, <3>3 DEF Copied
        <3>4. CASE SetAside(q)
            <4>1. table[Old(known[q])].rows \subseteq table[Old(K)].rows
                BY <1>2, <3>1, <3>4 DEF SetAside
            <4> QED
                BY <1>1, <1>4, <1>7, <3>2, <4>1 DEF Copied
        <3> QED
            BY <3>1, <3>3, <3>4 DEF SecuredInv
    <2> QED
        BY <2>1, <2>2
<1>10. EventsKept'
    BY <1>1, <1>4, <1>7, Objects DEF EventsKept, Exists
<1> QED
    BY <1>8, <1>9, <1>10

LEMMA HistoryDrop ==
    ASSUME HistoryInv, TypeInv', NEW p \in Process, DropOld(p) PROVE HistoryInv'
<1> DEFINE K == known[p]
<1> USE DEF HistoryInv, GoesOn
<1>1. /\ pc[p] = "drop" /\ pc' = [pc EXCEPT ![p] = "record"]
      /\ UNCHANGED <<known, recorded>>
    BY DEF DropOld
<1>2. K \in {1, 2} /\ Old(K) # "run_events" /\ Old(K) \in Name
    BY <1>1, Olds, Objects DEF Scripted, Holding
<1>3. /\ table'[Old(K)] = Absent
      /\ \A name \in Name : name # Old(K) => table'[name] = table[name]
    BY <1>2 DEF DropOld, TypeInv, MigrationTypeOK
<1>4. \A q \in Process : pc'[q] \in Holding => q # p /\ pc'[q] = pc[q]
    BY <1>1 DEF TypeInv, MigrationTypeOK, Holding
<1>5. \A q \in Process : pc'[q] \in Holding =>
            /\ known[q] \in {1, 2} /\ known[q] # K
            /\ table'[Old(known[q])] = table[Old(known[q])]
    BY <1>1, <1>2, <1>3, <1>4, Olds, Objects DEF HoldInv, Holding, Scripted, Old
<1>6. HoldInv'
    BY <1>1, <1>4, <1>5 DEF HoldInv, Exists
<1>7. SecuredInv'
    <2> SUFFICES ASSUME NEW q \in Process, pc'[q] = "drop" PROVE Copied(q)'
        BY DEF SecuredInv
    <2>1. /\ pc[q] = "drop" /\ known[q] \in {1, 2} /\ known[q] # K
          /\ table'[Old(known[q])] = table[Old(known[q])]
        BY <1>4, <1>5 DEF Holding
    <2>2. ~ SetAside(q)
        BY <1>1, <1>2, <2>1 DEF SetAside
    <2>3. Copied(q)
        BY <2>1, <2>2 DEF SecuredInv
    <2> QED
        BY <1>1, <1>2, <1>3, <2>1, <2>3, Objects DEF Copied, Exists
<1>8. EventsKept'
    <2> SUFFICES ASSUME NEW e \in recorded
                 PROVE  \E name \in Name : Exists(name)' /\ e \in table'[name].rows
        BY <1>1 DEF EventsKept
    <2>1. PICK name \in Name : Exists(name) /\ e \in table[name].rows
        BY DEF EventsKept
    <2>2. CASE name # Old(K)
        BY <1>3, <2>1, <2>2 DEF Exists
    <2>3. CASE name = Old(K)
        <3>1. CASE Copied(p)
            BY <1>2, <1>3, <2>1, <2>3, <3>1, Objects DEF Copied, Exists
        <3>2. CASE SetAside(p)
            <4>1. PICK k \in {1, 2} \ {K} :
                    Exists(Old(k)) /\ table[Old(K)].rows \subseteq table[Old(k)].rows
                BY <3>2 DEF SetAside
            <4>2. Old(k) # Old(K) /\ Old(k) \in Name
                BY <1>2, Objects DEF Old
            <4> QED
                BY <1>3, <2>1, <2>3, <4>1, <4>2 DEF Exists
        <3> QED
            BY <1>1, <3>1, <3>2 DEF SecuredInv
    <2> QED
        BY <2>2, <2>3
<1> QED
    BY <1>6, <1>7, <1>8

(* The steps that leave every table as it is. *)
LEMMA HistoryElsewhere ==
    ASSUME HistoryInv, TypeInv', NEW p \in Process,
           Begin(p) \/ RecordVersion(p) \/ StatementFails(p) \/ Interrupted(p) \/ Leave(p)
    PROVE  HistoryInv'
<1>1. /\ table' = table /\ recorded' = recorded
      /\ \A q \in Process : q # p => pc'[q] = pc[q] /\ known'[q] = known[q]
      /\ pc'[p] \in Holding => FALSE
    BY DEF Begin, RecordVersion, StatementFails, Interrupted, Leave, database, FirstPoint,
        Holding, HistoryInv, TypeInv, MigrationTypeOK
<1> QED
    BY <1>1, Harmless DEF Exists

LEMMA HistoryEvent ==
    ASSUME HistoryInv, TypeInv', NEW p \in Process, NEW e \in Event, RecordEvent(p, e)
    PROVE  HistoryInv'
<1> USE DEF HistoryInv
<1>1. table["run_events"] \in Table
    BY Objects DEF RecordEvent, Exists, TypeInv, MigrationTypeOK
<1>2. /\ table'["run_events"].rows = table["run_events"].rows \cup {e}
      /\ table'["run_events"] \in Table
      /\ \A name \in Name : name # "run_events" => table'[name] = table[name]
    BY <1>1, Objects DEF RecordEvent, TypeInv, MigrationTypeOK, Table
<1>3. UNCHANGED <<pc, known>> /\ recorded' = recorded \cup {e}
    BY DEF RecordEvent
<1>4. \A q \in Process : pc[q] \in Holding => table'[Old(known[q])] = table[Old(known[q])]
    BY <1>2, Objects
<1>5. HoldInv'
    BY <1>3, <1>4 DEF HoldInv, Exists
<1>6. SecuredInv'
    <2> SUFFICES ASSUME NEW q \in Process, pc[q] = "drop"
                 PROVE  Copied(q)' \/ SetAside(q)'
        BY <1>3 DEF SecuredInv
    <2>1. Copied(q) => Copied(q)'
        BY <1>2, <1>3, <1>4, MigrationConstants DEF Copied, Exists, Holding
    <2>2. \A k : table'[Old(k)] = table[Old(k)]
        BY <1>2, Objects
    <2>3. SetAside(q) => SetAside(q)'
        BY <1>3, <2>2 DEF SetAside, Exists
    <2> QED
        BY <2>1, <2>3 DEF SecuredInv
<1>7. EventsKept'
    BY <1>2, <1>3, MigrationConstants, Objects DEF EventsKept, Exists
<1> QED
    BY <1>5, <1>6, <1>7

LEMMA HistoryStep == HistoryInv /\ [MigrationNext]_migrationVars => HistoryInv'
<1> SUFFICES ASSUME HistoryInv, [MigrationNext]_migrationVars PROVE HistoryInv'
    OBVIOUS
<1>1. TypeInv'
    BY TypeStep DEF HistoryInv
<1>2. CASE UNCHANGED migrationVars
    BY <1>1, <1>2 DEF migrationVars, database, HistoryInv, HoldInv, SecuredInv, Copied,
        SetAside, EventsKept, Exists
<1>3. CASE MigrationNext
    BY <1>1, <1>3, HistoryObject, HistoryRename, HistoryCreate, HistoryCopy, HistoryDrop,
        HistoryElsewhere, HistoryEvent DEF MigrationNext, Initializes
<1> QED
    BY <1>2, <1>3

(* No event that was ever recorded is destroyed, whatever initializations  *)
(* overlap and wherever they are cut short.                                *)
THEOREM EventsAreKept == MigrationSpec => []EventsKept
<1>1. MigrationInit => HistoryInv
    BY HistoryInit
<1>2. HistoryInv /\ [MigrationNext]_migrationVars => HistoryInv'
    BY HistoryStep
<1>3. HistoryInv => EventsKept
    BY DEF HistoryInv
<1> QED
    BY <1>1, <1>2, <1>3, PTL DEF MigrationSpec

-----------------------------------------------------------------------------
(* One initialization after the other *)

LEMMA SequentialInit == MigrationInit => SequentialInv
<1> SUFFICES ASSUME MigrationInit PROVE SequentialInv
    OBVIOUS
<1>1. TypeInv
    BY TypeInit
<1>2. AloneInv /\ StatementInv
    BY DEF MigrationInit, AloneInv, StatementInv, Statements, Holding
<1>3. version = 0 => recorded = {} /\ \A name \in Name : ~ Exists(name)
    BY MigrationConstants DEF MigrationInit, SchemaVersion, Exists
<1>4. \A name \in Name \ Initial : ~ Exists(name)
    BY DEF MigrationInit, Exists
<1>5. version > 0 =>
        /\ \A name \in Initial : Exists(name)
        /\ table["run_events"].rows = recorded
        /\ version \in Supported => table["run_events"].vocabulary = version
    <2> SUFFICES ASSUME version > 0
                 PROVE  /\ \A name \in Initial : Exists(name)
                        /\ table["run_events"].rows = recorded
                        /\ version \in Supported => table["run_events"].vocabulary = version
        OBVIOUS
    <2>1. \A name \in Initial : table[name] \in Table
        BY Objects, NewTableType
           DEF MigrationInit, Table, Supported, Unsupported, SchemaVersion
    <2>2. \A name \in Initial : Exists(name)
        BY <2>1, MigrationConstants DEF Exists
    <2>3. /\ table["run_events"].rows = recorded
          /\ version \in Supported => table["run_events"].vocabulary = version
        BY Objects DEF MigrationInit
    <2> QED
        BY <2>2, <2>3
<1>6. ShapeInv
    <2>1. Old(1) \in Name \ Initial /\ Old(2) \in Name \ Initial
        BY Objects
    <2>2. version = SchemaVersion => Whole(SchemaVersion)
        BY <1>4, <1>5, <2>1 DEF Whole, Supported, SchemaVersion
    <2> QED
        BY <1>3, <1>4, <1>5, <2>1, <2>2, Objects DEF ShapeInv
<1> QED
    BY <1>1, <1>2, <1>6 DEF SequentialInv

LEMMA AloneBegin ==
    ASSUME SequentialInv, TypeInv', alternate, NEW p \in Process, Begin(p)
    PROVE  (AloneInv /\ ShapeInv /\ StatementInv)'
<1> USE DEF SequentialInv
<1>1. /\ UNCHANGED <<table, version, recorded>>
      /\ \A q \in Process : pc[q] \notin Statements
      /\ \A q \in Process : q # p => pc'[q] = pc[q] /\ known'[q] = known[q]
    BY DEF Begin, database, TypeInv, MigrationTypeOK
<1>2. /\ pc'[p] \in Statements => known'[p] = version
      /\ pc'[p] = "ready" => version = SchemaVersion
      /\ pc'[p] \in Holding \cup {"record"} => FALSE
      /\ pc'[p] = "create_object" => known'[p] = 0 /\ next'[p] = 1
    BY DEF Begin, FirstPoint, Supported, SchemaVersion, Statements, Holding, TypeInv,
       MigrationTypeOK
<1>3. AloneInv'
    BY <1>1, <1>2 DEF AloneInv
<1>4. ShapeInv'
    BY <1>1 DEF ShapeInv, Whole, Exists
<1>5. StatementInv'
    <2> SUFFICES ASSUME NEW q \in Process, pc'[q] \in Statements
                 PROVE  q = p
        BY <1>2 DEF StatementInv, Statements, Holding
    <2> QED
        BY <1>1
<1> QED
    BY <1>3, <1>4, <1>5

(* What every step of the only process at work leaves as it is. *)
LEMMA AtWork ==
    ASSUME SequentialInv, TypeInv', alternate, NEW p \in Process, pc[p] \in Statements,
           UNCHANGED <<known, version>>, NEW to, pc' = [pc EXCEPT ![p] = to], to # "ready"
    PROVE  /\ AloneInv'
           /\ known[p] = version /\ version < SchemaVersion /\ version \in Nat
           /\ \A q \in Process : pc'[q] \in Statements => q = p
BY DEF SequentialInv, AloneInv, TypeInv, ScriptInv, MigrationTypeOK, Supported, SchemaVersion

LEMMA AloneObject ==
    ASSUME SequentialInv, TypeInv', alternate, NEW p \in Process, CreateObject(p)
    PROVE  (AloneInv /\ ShapeInv /\ StatementInv)'
<1> DEFINE to == IF next[p] = Len(InitialObjects) THEN "record" ELSE "create_object"
<1> USE DEF SequentialInv, GoesOn
<1>1. /\ pc[p] = "create_object" /\ pc' = [pc EXCEPT ![p] = to]
      /\ UNCHANGED <<known, recorded, version>>
      /\ pc[p] \in Statements
    BY DEF CreateObject, Statements
<1>2. /\ AloneInv' /\ known[p] = version /\ version < SchemaVersion /\ version \in Nat
      /\ \A q \in Process : pc'[q] \in Statements => q = p
    BY <1>1, AtWork
<1>3. version = 0 /\ known[p] = 0 /\ \A i \in 1 .. next[p] - 1 : Exists(InitialObjects[i])
    BY <1>1, <1>2 DEF StatementInv
<1>4. /\ next[p] \in 1 .. 11
      /\ InitialObjects[next[p]] \in Initial /\ InitialObjects[next[p]] \in Name
    BY Objects DEF TypeInv, MigrationTypeOK
<1>5. /\ \A name \in Name : name # InitialObjects[next[p]] => table'[name] = table[name]
      /\ table'[InitialObjects[next[p]]] \in Table
    BY <1>4, NewTableType DEF CreateObject, TypeInv, MigrationTypeOK, Supported, SchemaVersion
<1>6. table'[InitialObjects[next[p]]] # Absent
    BY <1>5, MigrationConstants
<1>7. \A i \in 1 .. next[p] : Exists(InitialObjects[i])'
    <2> SUFFICES ASSUME NEW i \in 1 .. next[p] PROVE Exists(InitialObjects[i])'
        OBVIOUS
    <2>1. CASE i = next[p]
        BY <1>6, <2>1 DEF Exists
    <2>2. CASE i # next[p]
        <3>1. i \in 1 .. next[p] - 1 /\ i \in 1 .. 11
            BY <1>4, <2>2
        <3>2. Exists(InitialObjects[i]) /\ InitialObjects[i] \in Name
            BY <1>3, <3>1, Objects
        <3> QED
            BY <1>5, <1>6, <3>2 DEF Exists
    <2> QED
        BY <2>1, <2>2
<1>8. ShapeInv'
    <2>1. \A k \in {1, 2} : table'[Old(k)] = table[Old(k)]
        BY <1>4, <1>5, Objects
    <2> QED
        BY <1>1, <1>3, <2>1 DEF ShapeInv, Exists, SchemaVersion
<1>9. StatementInv'
    <2>1. CASE next[p] = 11
        <3>1. \A name \in Initial : Exists(name)'
            BY <1>7, <2>1, Objects
        <3> QED
            BY <1>1, <1>2, <1>3, <2>1, <3>1, Objects
            DEF StatementInv, Statements, Holding, TypeInv, MigrationTypeOK
    <2>2. CASE next[p] # 11
        <3>1. pc'[p] = "create_object" /\ next'[p] = next[p] + 1 /\ next'[p] - 1 = next[p]
            BY <1>1, <1>4, <2>2, Objects DEF CreateObject, TypeInv, MigrationTypeOK
        <3> QED
            BY <1>1, <1>2, <1>3, <1>7, <3>1 DEF StatementInv, Statements, Holding
    <2> QED
        BY <2>1, <2>2
<1> QED
    BY <1>2, <1>8, <1>9

LEMMA AloneRename ==
    ASSUME SequentialInv, TypeInv', alternate, NEW p \in Process, RenameEvents(p)
    PROVE  (AloneInv /\ ShapeInv /\ StatementInv)'
<1> USE DEF SequentialInv, GoesOn
<1>1. /\ pc[p] = "rename" /\ pc' = [pc EXCEPT ![p] = "create_events"]
      /\ UNCHANGED <<known, recorded, version>>
      /\ pc[p] \in Statements /\ pc[p] \in Scripted
      /\ Exists("run_events") /\ ~ Exists(Old(known[p]))
    BY DEF RenameEvents, CanRename, Statements, Scripted
<1>2. /\ AloneInv' /\ known[p] = version
      /\ \A q \in Process : pc'[q] \in Statements => q = p
    BY <1>1, AtWork
<1>3. /\ version \in {1, 2} /\ Old(version) # "run_events" /\ Old(version) \in Name
      /\ \A k \in {1, 2} : k # version => Old(k) # Old(version)
    BY <1>1, <1>2, Olds, Objects
<1>4. /\ table'[Old(version)] = table["run_events"]
      /\ \A name \in Name : name \notin {"run_events", Old(version)} => table'[name] = table[name]
    BY <1>2, <1>3, Objects DEF RenameEvents, TypeInv, MigrationTypeOK
<1>5. ShapeInv'
    <2>1. \A name \in Initial \ {"run_events"} : Exists(name)'
        BY <1>3, <1>4, Objects DEF ShapeInv, Exists
    <2>2. Exists(Old(version))' /\ recorded \subseteq table'[Old(version)].rows
        BY <1>1, <1>2, <1>3, <1>4 DEF ShapeInv, Exists
    <2>3. \A j \in {1, 2} : j # version => ~ Exists(Old(j))'
        BY <1>3, <1>4, Objects DEF ShapeInv, Exists
    <2> QED
        BY <1>1, <1>3, <2>1, <2>2, <2>3 DEF ShapeInv, SchemaVersion
<1>6. StatementInv'
    BY <1>1, <1>2, <1>4 DEF StatementInv, Statements, Holding, Exists, TypeInv, MigrationTypeOK
<1> QED
    BY <1>2, <1>5, <1>6

LEMMA AloneCreate ==
    ASSUME SequentialInv, TypeInv', alternate, NEW p \in Process, CreateEvents(p)
    PROVE  (AloneInv /\ ShapeInv /\ StatementInv)'
<1> USE DEF SequentialInv, GoesOn
<1>1. /\ pc[p] = "create_events" /\ pc' = [pc EXCEPT ![p] = "copy"]
      /\ UNCHANGED <<known, recorded, version>>
      /\ pc[p] \in Statements /\ pc[p] \in Scripted /\ pc[p] \in Holding
    BY DEF CreateEvents, Statements, Scripted, Holding
<1>2. /\ AloneInv' /\ known[p] = version
      /\ \A q \in Process : pc'[q] \in Statements => q = p
    BY <1>1, AtWork
<1>3. version \in {1, 2} /\ Exists(Old(version))
    BY <1>1, <1>2, Olds DEF StatementInv
<1>4. /\ table'["run_events"] = NewTable(version + 1)
      /\ \A name \in Name : name # "run_events" => table'[name] = table[name]
    BY <1>2, Objects DEF CreateEvents, TypeInv, MigrationTypeOK
<1>5. NewEvents(p)'
    <2>1. NewTable(version + 1) \in Table
        BY <1>3, NewTableType DEF Supported, SchemaVersion
    <2>2. table'["run_events"] # Absent
        BY <1>4, <2>1, MigrationConstants
    <2>3. table'["run_events"].vocabulary = version + 1
        BY <1>4 DEF NewTable
    <2> QED
        BY <1>1, <1>2, <2>2, <2>3 DEF NewEvents, Exists
<1>6. \A k : table'[Old(k)] = table[Old(k)]
    BY <1>4, Objects
<1>7. ShapeInv'
    BY <1>1, <1>3, <1>4, <1>6, Objects DEF ShapeInv, Exists, SchemaVersion
<1>8. StatementInv'
    BY <1>1, <1>2, <1>3, <1>5, <1>6
    DEF StatementInv, Statements, Holding, Exists, TypeInv, MigrationTypeOK
<1> QED
    BY <1>2, <1>7, <1>8

LEMMA AloneCopy ==
    ASSUME SequentialInv, TypeInv', alternate, NEW p \in Process, CopyEvents(p)
    PROVE  (AloneInv /\ ShapeInv /\ StatementInv)'
<1> USE DEF SequentialInv, GoesOn
<1>1. /\ pc[p] = "copy" /\ pc' = [pc EXCEPT ![p] = "drop"]
      /\ UNCHANGED <<known, recorded, version>>
      /\ pc[p] \in Statements /\ pc[p] \in Scripted /\ pc[p] \in Holding
      /\ Exists("run_events") /\ Exists(Old(known[p])) /\ NewEvents(p)
    BY DEF CopyEvents, CanCopy, Statements, Scripted, Holding, StatementInv
<1>2. /\ AloneInv' /\ known[p] = version
      /\ \A q \in Process : pc'[q] \in Statements => q = p
    BY <1>1, AtWork
<1>3. version \in {1, 2} /\ recorded \subseteq table[Old(version)].rows
    BY <1>1, <1>2, Olds DEF ShapeInv
<1>4. table["run_events"] \in Table /\ table[Old(version)] \in Table
    BY <1>1, <1>2, Objects DEF Exists, TypeInv, MigrationTypeOK
<1>5. /\ table'["run_events"].rows = table["run_events"].rows \cup table[Old(version)].rows
      /\ table'["run_events"].vocabulary = table["run_events"].vocabulary
      /\ table'["run_events"] \in Table
      /\ \A name \in Name : name # "run_events" => table'[name] = table[name]
    <2>1. [table["run_events"] EXCEPT !.rows = @ \cup table[Old(version)].rows] \in Table
        BY <1>4 DEF Table
    <2> QED
        BY <1>2, <1>4, <2>1, Objects DEF CopyEvents, TypeInv, MigrationTypeOK, Table
<1>6. Exists("run_events")'
    BY <1>5, MigrationConstants DEF Exists
<1>7. \A k : table'[Old(k)] = table[Old(k)]
    BY <1>5, Objects
<1>8. ShapeInv'
    BY <1>1, <1>2, <1>3, <1>5, <1>7, Objects DEF ShapeInv, Exists, SchemaVersion
<1>9. StatementInv'
    BY <1>1, <1>2, <1>3, <1>5, <1>6, <1>7
    DEF StatementInv, NewEvents, Statements, Holding, Exists, TypeInv, MigrationTypeOK
<1> QED
    BY <1>2, <1>8, <1>9

LEMMA AloneDrop ==
    ASSUME SequentialInv, TypeInv', alternate, NEW p \in Process, DropOld(p)
    PROVE  (AloneInv /\ ShapeInv /\ StatementInv)'
<1> USE DEF SequentialInv, GoesOn
<1>1. /\ pc[p] = "drop" /\ pc' = [pc EXCEPT ![p] = "record"]
      /\ UNCHANGED <<known, recorded, version>>
      /\ pc[p] \in Statements /\ pc[p] \in Scripted
      /\ NewEvents(p) /\ recorded \subseteq table["run_events"].rows
    BY DEF DropOld, Statements, Scripted, Holding, StatementInv
<1>2. /\ AloneInv' /\ known[p] = version
      /\ \A q \in Process : pc'[q] \in Statements => q = p
    BY <1>1, AtWork
<1>3. /\ version \in {1, 2} /\ Old(version) # "run_events" /\ Old(version) \in Name
    BY <1>1, <1>2, Olds, Objects
<1>4. /\ table'[Old(version)] = Absent
      /\ \A name \in Name : name # Old(version) => table'[name] = table[name]
    BY <1>2, <1>3 DEF DropOld, TypeInv, MigrationTypeOK
<1>5. NewEvents(p)' /\ recorded \subseteq table'["run_events"].rows
    BY <1>1, <1>3, <1>4, Objects DEF NewEvents, Exists
<1>6. ShapeInv'
    <2>1. \A name \in Initial \ {"run_events"} : Exists(name)'
        BY <1>3, <1>4, Objects DEF ShapeInv, Exists
    <2>2. \A j \in {1, 2} : ~ Exists(Old(j))'
        <3> SUFFICES ASSUME NEW j \in {1, 2} PROVE ~ Exists(Old(j))'
            OBVIOUS
        <3>1. CASE j = version
            BY <1>1, <1>4, <3>1 DEF Exists
        <3>2. CASE j # version
            <4>1. ~ Exists(Old(j)) /\ Old(j) # Old(version) /\ Old(j) \in Name
                BY <1>3, <3>2, Objects DEF ShapeInv, Old
            <4> QED
                BY <1>4, <4>1 DEF Exists
        <3> QED
            BY <3>1, <3>2
    <2> QED
        BY <1>1, <1>3, <1>5, <2>1, <2>2 DEF ShapeInv, NewEvents, SchemaVersion
<1>7. StatementInv'
    <2>1. ~ Exists(Old(known[p]))' /\ pc'[p] = "record" /\ known' = known
        BY <1>1, <1>2, <1>4 DEF Exists, TypeInv, MigrationTypeOK
    <2> QED
        BY <1>1, <1>2, <1>3, <1>5, <2>1 DEF StatementInv, Statements, Holding
<1> QED
    BY <1>2, <1>6, <1>7

LEMMA AloneRecord ==
    ASSUME SequentialInv, TypeInv', alternate, NEW p \in Process, RecordVersion(p)
    PROVE  (AloneInv /\ ShapeInv /\ StatementInv)'
<1> DEFINE v == version + 1
<1> USE DEF SequentialInv
<1>1. /\ pc[p] = "record" /\ pc[p] \in Statements
      /\ UNCHANGED <<table, recorded>>
    BY DEF RecordVersion, Statements
<1>2. known[p] = version /\ version \in {0, 1, 2}
    BY <1>1 DEF AloneInv, TypeInv, ScriptInv, MigrationTypeOK, Supported, SchemaVersion
<1>3. /\ version' = v /\ known' = [known EXCEPT ![p] = v]
      /\ pc' = [pc EXCEPT ![p] = IF v < SchemaVersion THEN "rename" ELSE "ready"]
      /\ v \in {1, 2, 3}
    <2>1. v \in {1, 2, 3} /\ known[p] + 1 = v
        BY <1>2
    <2>2. FirstPoint(v) = IF v < SchemaVersion THEN "rename" ELSE "ready"
        BY <2>1 DEF FirstPoint, SchemaVersion
    <2> QED
        BY <2>1, <2>2 DEF RecordVersion
<1>4. \A q \in Process : q # p =>
        pc'[q] = pc[q] /\ known'[q] = known[q] /\ pc[q] \notin Statements /\ pc[q] # "ready"
    BY <1>1, <1>2, <1>3 DEF AloneInv, TypeInv, MigrationTypeOK, SchemaVersion
<1>5. AloneInv'
    BY <1>3, <1>4 DEF AloneInv, TypeInv, MigrationTypeOK, Statements, SchemaVersion
<1>6. /\ \A name \in Initial : Exists(name)
      /\ recorded \subseteq table["run_events"].rows
      /\ \A j \in {1, 2} : ~ Exists(Old(j))
      /\ version > 0 => table["run_events"].vocabulary = v
    <2>1. CASE version = 0
        BY <1>1, <1>2, <2>1 DEF ShapeInv, StatementInv
    <2>2. CASE version > 0
        <3>1. /\ NewEvents(p) /\ recorded \subseteq table["run_events"].rows
              /\ ~ Exists(Old(version))
            BY <1>1, <1>2, <2>2 DEF StatementInv
        <3>2. \A j \in {1, 2} : ~ Exists(Old(j))
            BY <1>2, <2>2, <3>1 DEF ShapeInv
        <3>3. \A name \in Initial : Exists(name)
            BY <2>2, <3>1 DEF ShapeInv, NewEvents
        <3> QED
            BY <1>2, <3>1, <3>2, <3>3 DEF NewEvents
    <2> QED
        BY <1>2, <2>1, <2>2
<1>7. ShapeInv'
    <2>1. v = SchemaVersion => Whole(SchemaVersion)
        BY <1>2, <1>6 DEF Whole, SchemaVersion
    <2> QED
        BY <1>1, <1>3, <1>6, <2>1, Objects DEF ShapeInv, Whole, Exists, SchemaVersion
<1>8. StatementInv'
    BY <1>1, <1>3, <1>4
    DEF StatementInv, Statements, Holding, TypeInv, MigrationTypeOK
<1> QED
    BY <1>5, <1>7, <1>8

LEMMA AloneElsewhere ==
    ASSUME SequentialInv, TypeInv', alternate, NEW p \in Process,
           StatementFails(p) \/ Interrupted(p) \/ Leave(p)
    PROVE  (AloneInv /\ ShapeInv /\ StatementInv)'
<1>1. /\ UNCHANGED <<table, version, recorded, known, next>>
      /\ pc'[p] \notin Statements /\ pc'[p] # "ready"
      /\ \A q \in Process : q # p => pc'[q] = pc[q]
    BY DEF StatementFails, Interrupted, Leave, database, Statements, SequentialInv, TypeInv,
        MigrationTypeOK
<1>2. AloneInv'
    BY <1>1 DEF SequentialInv, AloneInv
<1>3. ShapeInv'
    BY <1>1 DEF SequentialInv, ShapeInv, Whole, Exists
<1>4. StatementInv'
    BY <1>1 DEF SequentialInv, StatementInv, NewEvents, Statements, Holding, Exists
<1> QED
    BY <1>2, <1>3, <1>4

LEMMA AloneEvent ==
    ASSUME SequentialInv, TypeInv', alternate,
           NEW p \in Process, NEW e \in Event, RecordEvent(p, e)
    PROVE  (AloneInv /\ ShapeInv /\ StatementInv)'
<1> USE DEF SequentialInv
<1>1. /\ pc[p] = "ready" /\ Exists("run_events")
      /\ UNCHANGED <<version, pc, known, next>>
      /\ recorded' = recorded \cup {e}
    BY DEF RecordEvent
<1>2. version = SchemaVersion
    BY <1>1 DEF AloneInv
<1>3. \A q \in Process : pc[q] \notin Statements
    BY <1>2 DEF AloneInv, TypeInv, ScriptInv, SchemaVersion
<1>4. table["run_events"] \in Table
    BY <1>1, Objects DEF Exists, TypeInv, MigrationTypeOK
<1>5. /\ table'["run_events"].rows = table["run_events"].rows \cup {e}
      /\ table'["run_events"].vocabulary = table["run_events"].vocabulary
      /\ table'["run_events"] # Absent
      /\ \A name \in Name : name # "run_events" => table'[name] = table[name]
    <2>1. [table["run_events"] EXCEPT !.rows = @ \cup {e}] \in Table
        BY <1>4 DEF Table
    <2> QED
        BY <1>4, <2>1, Objects, MigrationConstants
        DEF RecordEvent, TypeInv, MigrationTypeOK, Table
<1>6. Whole(SchemaVersion)'
    BY <1>1, <1>2, <1>5, Objects DEF ShapeInv, Whole, Exists, SchemaVersion
<1>7. ShapeInv'
    BY <1>1, <1>2, <1>6 DEF ShapeInv, Whole, SchemaVersion
<1>8. AloneInv' /\ StatementInv'
    BY <1>1, <1>3 DEF AloneInv, StatementInv, Statements, Holding
<1> QED
    BY <1>7, <1>8

LEMMA SequentialStep == SequentialInv /\ [MigrationNext]_migrationVars => SequentialInv'
<1> SUFFICES ASSUME SequentialInv, [MigrationNext]_migrationVars PROVE SequentialInv'
    OBVIOUS
<1>1. TypeInv'
    BY TypeStep DEF SequentialInv
<1>2. CASE UNCHANGED migrationVars
    BY <1>1, <1>2 DEF migrationVars, database, SequentialInv, AloneInv, ShapeInv,
        StatementInv, NewEvents, Whole, Exists
<1>3. CASE MigrationNext
    <2> SUFFICES ASSUME alternate' PROVE (AloneInv /\ ShapeInv /\ StatementInv)'
        BY <1>1 DEF SequentialInv
    <2>1. alternate
        BY <1>3 DEF MigrationNext, Initializes, Begin, CreateObject, RenameEvents, CreateEvents,
            CopyEvents, DropOld, RecordVersion, StatementFails, Interrupted, RecordEvent, Leave,
            GoesOn
    <2> QED
        BY <1>1, <1>3, <2>1, AloneBegin, AloneObject, AloneRename, AloneCreate, AloneCopy,
            AloneDrop, AloneRecord, AloneElsewhere, AloneEvent DEF MigrationNext, Initializes
<1> QED
    BY <1>2, <1>3

(* When processes initialize one after the other, the current version is   *)
(* on the file, and a process is ready, only over the whole current schema *)
(* with every recorded event in it, however often one was cut short.       *)
THEOREM CurrentSchemaIsWhole == MigrationSpec => []CurrentIsWhole
<1>1. MigrationInit => SequentialInv
    BY SequentialInit
<1>2. SequentialInv /\ [MigrationNext]_migrationVars => SequentialInv'
    BY SequentialStep
<1>3. SequentialInv => CurrentIsWhole
    BY DEF SequentialInv, AloneInv, ShapeInv, CurrentIsWhole
<1> QED
    BY <1>1, <1>2, <1>3, PTL DEF MigrationSpec

-----------------------------------------------------------------------------
(* Initialization that nobody interrupts *)

(* A table holds only events of its vocabulary. *)
FitInv ==
    \A name \in Name : Exists(name) =>
        \A e \in table[name].rows : Since[e] <= table[name].vocabulary

(* What the next statement of a process finds. *)
Finds(p) ==
    /\ pc[p] = "create_object" =>
        /\ \A i \in next[p] .. Len(InitialObjects) : ~ Exists(InitialObjects[i])
        /\ Exists("run_events") => table["run_events"].vocabulary = 1
    /\ pc[p] = "rename" => Whole(version)
    /\ pc[p] = "create_events" => ~ Exists("run_events")
    /\ pc[p] = "copy" => table["run_events"].rows = {}
    /\ pc[p] \in {"create_events", "copy"} => table[Old(known[p])].vocabulary = known[p]
    /\ pc[p] = "record" => Whole(version + 1)

SmoothInv ==
    /\ \A p \in Process : Finds(p)
    /\ \A p \in Process : pc[p] = "refused" => version \notin Supported
    /\ version \in Supported /\ (\A p \in Process : pc[p] \notin Statements) =>
            Whole(version)

Uninterrupted == alternate /\ interruptions = 0

SucceedsInv == SequentialInv /\ FitInv /\ (Uninterrupted => SmoothInv)

(* A process that initializes alone and is not interrupted is refused a    *)
(* database only for its version.                                          *)
InitializationSucceeds ==
    alternate /\ interruptions = 0 =>
        \A p \in Process : pc[p] = "refused" => version \notin Supported

(* The statements an initialization can still execute, counted generously. *)
ScriptLength == 14

StatementsLeft(p) ==
    IF pc[p] \notin Statements THEN 0
    ELSE (SchemaVersion - known[p]) * ScriptLength +
            (CASE pc[p] = "create_object" -> ScriptLength - 1 - next[p]
               [] pc[p] = "rename" -> 5
               [] pc[p] = "create_events" -> 4
               [] pc[p] = "copy" -> 3
               [] pc[p] = "drop" -> 2
               [] OTHER -> 1)

StatementsOfAll == (SchemaVersion + 1) * ScriptLength

StatementsBounded == \A p \in Process : StatementsLeft(p) \in 0 .. StatementsOfAll

InitializationShortens ==
    [][\A p \in Process : pc[p] \in Statements =>
            \/ StatementsLeft(p)' < StatementsLeft(p)
            \/ UNCHANGED <<pc[p], known[p], next[p]>>]_migrationVars

LEMMA ObjectsDiffer ==
    \A i, j \in 1 .. 11 : InitialObjects[i] = InitialObjects[j] => i = j
BY DEF InitialObjects

LEMMA FitInit == MigrationInit => FitInv
<1> SUFFICES ASSUME MigrationInit, NEW name \in Name, Exists(name), NEW e \in table[name].rows
             PROVE  Since[e] <= table[name].vocabulary
    BY DEF FitInv
<1>1. version > 0 /\ version \in Nat /\ name \in Initial
    BY DEF MigrationInit, Exists
<1>2. name = "run_events"
    BY <1>1 DEF MigrationInit, NewTable
<1>3. e \in Event /\ Since[e] <= version
    BY <1>1, <1>2 DEF MigrationInit
<1>4. Since[e] <= SchemaVersion
    BY <1>3, MigrationConstants DEF SchemaVersion
<1> QED
    BY <1>1, <1>2, <1>3, <1>4 DEF MigrationInit

LEMMA FitStep ==
    ASSUME TypeInv, FitInv, NEW p \in Process,
           \/ CreateObject(p) \/ RenameEvents(p) \/ CreateEvents(p) \/ CopyEvents(p)
           \/ DropOld(p) \/ \E e \in Event : RecordEvent(p, e)
    PROVE  FitInv'
<1> USE DEF TypeInv, MigrationTypeOK
<1> DEFINE Fits(t) == t # Absent => \A e \in t.rows : Since[e] <= t.vocabulary
<1>1. \A name \in Name : Fits(table[name])
    BY DEF FitInv, Exists
<1>2. SUFFICES \A name \in Name : Fits(table'[name])
    BY DEF FitInv, Exists
<1>3. Fits(Absent) /\ \A k : Fits(NewTable(k))
    BY DEF NewTable
<1> HIDE DEF Fits
<1>4. "run_events" \in Name /\ Old(known[p]) \in Name
    BY Objects
<1>5. CASE CreateObject(p)
    BY <1>1, <1>3, <1>5 DEF CreateObject
<1>6. CASE RenameEvents(p)
    BY <1>1, <1>3, <1>4, <1>6 DEF RenameEvents
<1>7. CASE CreateEvents(p)
    BY <1>1, <1>3, <1>7 DEF CreateEvents
<1>8. CASE CopyEvents(p)
    <2> DEFINE new == [table["run_events"] EXCEPT !.rows = @ \cup table[Old(known[p])].rows]
    <2>1. table["run_events"] \in Table
        BY <1>4, <1>8 DEF CopyEvents, CanCopy, Exists
    <2>2. new.rows = table["run_events"].rows \cup table[Old(known[p])].rows
          /\ new.vocabulary = table["run_events"].vocabulary
        BY <2>1 DEF Table
    <2>3. Fits(new)
        BY <1>1, <1>4, <1>8, <2>2 DEF Fits, CopyEvents, CanCopy, Exists
    <2>4. table' = [table EXCEPT !["run_events"] = new]
        BY <1>8 DEF CopyEvents
    <2> HIDE DEF new
    <2> QED
        BY <1>1, <2>3, <2>4
<1>9. CASE DropOld(p)
    BY <1>1, <1>3, <1>9 DEF DropOld
<1>10. ASSUME NEW e \in Event, RecordEvent(p, e) PROVE \A name \in Name : Fits(table'[name])
    <2> DEFINE new == [table["run_events"] EXCEPT !.rows = @ \cup {e}]
    <2>1. table["run_events"] \in Table
        BY <1>4, <1>10 DEF RecordEvent, Exists
    <2>2. new.rows = table["run_events"].rows \cup {e}
          /\ new.vocabulary = table["run_events"].vocabulary
        BY <2>1 DEF Table
    <2>3. Fits(new)
        BY <1>1, <1>4, <1>10, <2>2 DEF Fits, RecordEvent, Exists
    <2>4. table' = [table EXCEPT !["run_events"] = new]
        BY <1>10 DEF RecordEvent
    <2> HIDE DEF new
    <2> QED
        BY <1>1, <2>3, <2>4
<1> QED
    BY <1>5, <1>6, <1>7, <1>8, <1>9, <1>10

(* While one process is at work nobody else is, and what it finds next is  *)
(* all there is to say.                                                    *)
LEMMA OnlyAtWork ==
    ASSUME SequentialInv, SmoothInv, alternate, NEW p \in Process, pc[p] \in Statements,
           NEW to \in Statements, pc' = [pc EXCEPT ![p] = to], UNCHANGED version,
           Finds(p)'
    PROVE  SmoothInv'
<1>1. pc \in [Process -> Points]
    BY DEF SequentialInv, TypeInv, MigrationTypeOK
<1>2. \A q \in Process : q # p => pc'[q] = pc[q] /\ pc[q] \notin Statements
    BY <1>1 DEF SequentialInv, AloneInv
<1>3. pc'[p] \in Statements /\ "refused" \notin Statements
    BY <1>1 DEF Statements
<1>4. \A q \in Process : Finds(q)'
    BY <1>2 DEF Finds, Statements
<1> QED
    BY <1>2, <1>3, <1>4 DEF SmoothInv

LEMMA SmoothBegin ==
    ASSUME SequentialInv, SmoothInv, alternate, NEW p \in Process, Begin(p)
    PROVE  SmoothInv'
<1> USE DEF SequentialInv, TypeInv, MigrationTypeOK
<1>1. /\ UNCHANGED <<table, version, recorded>>
      /\ \A q \in Process : pc[q] \notin Statements
      /\ \A q \in Process : q # p => pc'[q] = pc[q]
    BY DEF Begin, database
<1>2. CASE version \in Supported
    <2>1. Whole(version)
        BY <1>1, <1>2 DEF SmoothInv
    <2>2. pc'[p] = FirstPoint(version) /\ next'[p] = 1
        BY <1>2 DEF Begin
    <2>3. version = 0 => \A name \in Initial : ~ Exists(name)
        BY <2>1 DEF Whole
    <2>4. Finds(p)'
        <3>1. CASE version = 0
            <4>1. pc'[p] = "create_object"
                BY <2>2, <3>1 DEF FirstPoint
            <4>2. \A i \in 1 .. Len(InitialObjects) : ~ Exists(InitialObjects[i])
                BY <2>3, <3>1, Objects
            <4>3. ~ Exists("run_events")
                BY <2>3, <3>1, Objects
            <4> QED
                BY <1>1, <2>2, <4>1, <4>2, <4>3 DEF Finds, Exists
        <3>2. CASE version # 0
            <4>1. pc'[p] \in {"rename", "ready"}
                BY <1>2, <2>2, <3>2, NextPoint DEF Supported, SchemaVersion
            <4>2. Whole(version)'
                BY <1>1, <2>1 DEF Whole, Exists
            <4> QED
                BY <4>1, <4>2 DEF Finds
        <3> QED
            BY <3>1, <3>2
    <2>5. pc'[p] # "refused"
        BY <1>2, <2>2 DEF FirstPoint
    <2>6. Whole(version)'
        BY <1>1, <2>1 DEF Whole, Exists
    <2>7. \A q \in Process : Finds(q)'
        BY <1>1, <2>4 DEF Finds, Statements
    <2> QED
        BY <1>1, <2>5, <2>6, <2>7 DEF SmoothInv
<1>3. CASE version \notin Supported
    <2>1. pc'[p] = "refused"
        BY <1>3 DEF Begin
    <2>2. \A q \in Process : Finds(q)'
        BY <1>1, <2>1 DEF Finds, Statements
    <2> QED
        BY <1>1, <1>3, <2>2 DEF SmoothInv
<1> QED
    BY <1>2, <1>3

LEMMA SmoothObject ==
    ASSUME SequentialInv, SequentialInv', SmoothInv, alternate, alternate',
           NEW p \in Process, CreateObject(p)
    PROVE  SmoothInv'
<1> USE DEF SequentialInv, TypeInv, MigrationTypeOK
<1>1. /\ pc[p] = "create_object" /\ pc[p] \in Statements
      /\ UNCHANGED <<known, recorded, version>>
      /\ pc'[p] = (IF next[p] = 11 THEN "record" ELSE "create_object")
      /\ pc' = [pc EXCEPT ![p] = IF next[p] = 11 THEN "record" ELSE "create_object"]
      /\ next'[p] = (IF next[p] = 11 THEN 11 ELSE next[p] + 1)
    BY Objects DEF CreateObject, GoesOn, Statements
<1>2. version = 0 /\ known[p] = 0
    BY <1>1 DEF AloneInv, StatementInv
<1>3. /\ next[p] \in 1 .. 11
      /\ InitialObjects[next[p]] \in Initial /\ InitialObjects[next[p]] \in Name
    BY Objects
<1>4. /\ \A name \in Name : name # InitialObjects[next[p]] => table'[name] = table[name]
      /\ table'[InitialObjects[next[p]]] =
            NewTable(IF InitialObjects[next[p]] = "run_events" THEN 1 ELSE 0)
    BY <1>3 DEF CreateObject
<1>5. Exists("run_events")' => table'["run_events"].vocabulary = 1
    <2>1. CASE InitialObjects[next[p]] = "run_events"
        BY <1>4, <2>1 DEF NewTable
    <2>2. CASE InitialObjects[next[p]] # "run_events"
        BY <1>1, <1>4, <2>2, Objects DEF SmoothInv, Finds, Exists
    <2> QED
        BY <2>1, <2>2
<1>6. \A i \in next[p] + 1 .. 11 : ~ Exists(InitialObjects[i])'
    <2> SUFFICES ASSUME NEW i \in next[p] + 1 .. 11 PROVE ~ Exists(InitialObjects[i])'
        OBVIOUS
    <2>1. i \in 1 .. 11 /\ i # next[p] /\ i \in next[p] .. Len(InitialObjects)
        BY <1>3, Objects
    <2>2. InitialObjects[i] # InitialObjects[next[p]] /\ InitialObjects[i] \in Name
        BY <1>3, <2>1, ObjectsDiffer, Objects
    <2>3. ~ Exists(InitialObjects[i])
        BY <1>1, <2>1 DEF SmoothInv, Finds
    <2> QED
        BY <1>4, <2>2, <2>3 DEF Exists
<1>7. Finds(p)'
    <2>1. CASE next[p] = 11
        <3>1. pc'[p] = "record" /\ known'[p] = 0 /\ version' = 0
            BY <1>1, <1>2, <2>1
        <3>2. \A name \in Initial : Exists(name)'
            BY <3>1 DEF StatementInv
        <3>3. recorded' = {} /\ \A k \in {1, 2} : ~ Exists(Old(k))'
            BY <3>1 DEF ShapeInv
        <3>4. Whole(1)'
            BY <1>5, <3>2, <3>3, Objects DEF Whole
        <3> QED
            BY <3>1, <3>4 DEF Finds
    <2>2. CASE next[p] # 11
        BY <1>1, <1>5, <1>6, <2>2, Objects DEF Finds
    <2> QED
        BY <2>1, <2>2
<1> QED
    BY <1>1, <1>7, OnlyAtWork DEF Statements

(* The statements of the scripts that move the events. *)
LEMMA SmoothScript ==
    ASSUME SequentialInv, SequentialInv', FitInv, SmoothInv, alternate, alternate',
           NEW p \in Process,
           RenameEvents(p) \/ CreateEvents(p) \/ CopyEvents(p) \/ DropOld(p)
    PROVE  SmoothInv'
<1> USE DEF SequentialInv, TypeInv, MigrationTypeOK
<1>1. pc[p] \in Statements /\ pc[p] \in Scripted
    BY DEF RenameEvents, CreateEvents, CopyEvents, DropOld, GoesOn, Statements, Scripted, Holding
<1>2. known[p] = version /\ version \in {1, 2}
    BY <1>1 DEF AloneInv, ScriptInv
<1>3. UNCHANGED <<known, recorded, version>>
    BY DEF RenameEvents, CreateEvents, CopyEvents, DropOld, GoesOn
<1>4. /\ Old(version) # "run_events" /\ Old(version) \in Name /\ "run_events" \in Name
      /\ "run_events" \in Initial
    BY Objects
<1>5. CASE RenameEvents(p)
    <2>1. /\ pc[p] = "rename" /\ pc' = [pc EXCEPT ![p] = "create_events"]
          /\ table'["run_events"] = Absent /\ table'[Old(version)] = table["run_events"]
        BY <1>2, <1>4, <1>5 DEF RenameEvents, GoesOn
    <2>2. table["run_events"].vocabulary = version
        BY <1>2, <2>1 DEF SmoothInv, Finds, Whole
    <2>3. Finds(p)'
        BY <1>2, <1>3, <2>1, <2>2 DEF Finds, Exists
    <2> QED
        BY <1>1, <1>3, <2>1, <2>3, OnlyAtWork DEF Statements
<1>6. CASE CreateEvents(p)
    <2>1. /\ pc[p] = "create_events" /\ pc' = [pc EXCEPT ![p] = "copy"]
          /\ table'["run_events"].rows = {} /\ table'[Old(version)] = table[Old(version)]
        BY <1>2, <1>4, <1>6 DEF CreateEvents, GoesOn, NewTable
    <2>2. table[Old(version)].vocabulary = version
        BY <1>2, <2>1 DEF SmoothInv, Finds
    <2>3. Finds(p)'
        BY <1>2, <1>3, <2>1, <2>2 DEF Finds
    <2> QED
        BY <1>1, <1>3, <2>1, <2>3, OnlyAtWork DEF Statements
<1>7. CASE CopyEvents(p)
    <2>1. pc[p] = "copy" /\ pc' = [pc EXCEPT ![p] = "drop"]
        BY <1>7 DEF CopyEvents, GoesOn
    <2>2. Finds(p)'
        BY <2>1 DEF Finds
    <2> QED
        BY <1>1, <1>3, <2>1, <2>2, OnlyAtWork DEF Statements
<1>8. CASE DropOld(p)
    <2>1. pc[p] = "drop" /\ pc' = [pc EXCEPT ![p] = "record"] /\ pc'[p] = "record"
          /\ known'[p] = version /\ version' = version
        BY <1>2, <1>3, <1>8 DEF DropOld, GoesOn
    <2>2. NewEvents(p)' /\ recorded' \subseteq table'["run_events"].rows /\ ~ Exists(Old(version))'
        BY <1>2, <2>1 DEF StatementInv
    <2>3. /\ \A name \in Initial : Exists(name)'
          /\ \A k \in {1, 2} : ~ Exists(Old(k))'
        BY <1>2, <2>1, <2>2 DEF ShapeInv, NewEvents
    <2>4. Whole(version + 1)'
        BY <1>2, <2>1, <2>2, <2>3 DEF Whole, NewEvents
    <2>5. Finds(p)'
        BY <2>1, <2>4 DEF Finds
    <2> QED
        BY <1>1, <1>3, <2>1, <2>5, OnlyAtWork DEF Statements
<1> QED
    BY <1>5, <1>6, <1>7, <1>8

LEMMA SmoothRecord ==
    ASSUME SequentialInv, SmoothInv, alternate, NEW p \in Process, RecordVersion(p)
    PROVE  SmoothInv'
<1> USE DEF SequentialInv, TypeInv, MigrationTypeOK
<1>1. /\ pc[p] = "record" /\ pc[p] \in Statements
      /\ UNCHANGED <<table, recorded>>
    BY DEF RecordVersion, Statements
<1>2. known[p] = version /\ version \in {0, 1, 2}
    BY <1>1 DEF AloneInv, ScriptInv, Supported, SchemaVersion
<1>3. version' = version + 1 /\ version' \in 1 .. SchemaVersion
      /\ pc' = [pc EXCEPT ![p] = FirstPoint(version')]
    BY <1>2 DEF RecordVersion, SchemaVersion
<1>4. pc'[p] \in {"rename", "ready"}
    BY <1>3, NextPoint
<1>5. \A q \in Process : q # p => pc'[q] = pc[q] /\ pc[q] \notin Statements
    BY <1>1, <1>3 DEF AloneInv
<1>6. Whole(version)'
    <2>1. Whole(version + 1)
        BY <1>1 DEF SmoothInv, Finds
    <2> QED
        BY <1>1, <1>3, <2>1 DEF Whole, Exists
<1>7. \A q \in Process : Finds(q)'
    BY <1>4, <1>5, <1>6 DEF Finds, Statements
<1>8. \A q \in Process : pc'[q] # "refused"
    <2>1. version \in Supported
        BY <1>2 DEF Supported, SchemaVersion
    <2> QED
        BY <1>4, <1>5, <2>1 DEF SmoothInv
<1> QED
    BY <1>6, <1>7, <1>8 DEF SmoothInv

(* No statement of an initialization that was not cut short fails. *)
LEMMA NothingFails ==
    ASSUME SequentialInv, FitInv, SmoothInv, alternate, NEW p \in Process
    PROVE  ~ StatementFails(p)
<1> USE DEF SequentialInv, TypeInv, MigrationTypeOK
<1> SUFFICES ASSUME StatementFails(p) PROVE FALSE
    OBVIOUS
<1>1. pc[p] \in Statements \ {"record"}
    BY DEF StatementFails, Statements
<1>2. /\ known[p] = version
      /\ pc[p] \in Scripted => version \in {1, 2}
    BY <1>1 DEF AloneInv, ScriptInv
<1>3. CASE pc[p] = "create_object"
    <2>1. next[p] \in next[p] .. Len(InitialObjects)
        BY Objects
    <2> QED
        BY <1>3, <2>1 DEF StatementFails, CanCreateObject, SmoothInv, Finds
<1>4. CASE pc[p] = "rename"
    BY <1>2, <1>4, Objects DEF StatementFails, CanRename, SmoothInv, Finds, Whole, Scripted
<1>5. CASE pc[p] = "create_events"
    BY <1>5 DEF StatementFails, CanCreateEvents, SmoothInv, Finds
<1>6. CASE pc[p] = "copy"
    <2>1. Exists("run_events") /\ Exists(Old(known[p])) /\ version \in {1, 2}
          /\ table["run_events"].vocabulary = known[p] + 1
        BY <1>2, <1>6 DEF StatementInv, NewEvents, Holding, Scripted
    <2>2. table["run_events"].rows = {} /\ table[Old(known[p])].vocabulary = known[p]
        BY <1>6 DEF SmoothInv, Finds
    <2>3. table[Old(known[p])] \in Table
        BY <2>1, Objects DEF Exists
    <2>4. \A e \in table[Old(known[p])].rows : e \in Event /\ Since[e] <= known[p]
        BY <2>1, <2>2, <2>3, Objects DEF FitInv, Table
    <2>5. \A e \in table[Old(known[p])].rows : Since[e] <= known[p] + 1
        BY <1>2, <2>1, <2>4, MigrationConstants DEF SchemaVersion
    <2> QED
        BY <1>6, <2>1, <2>2, <2>5 DEF StatementFails, CanCopy
<1>7. CASE pc[p] = "drop"
    BY <1>7 DEF StatementFails, CanDrop, StatementInv, Holding
<1> QED
    BY <1>1, <1>3, <1>4, <1>5, <1>6, <1>7 DEF Statements

LEMMA SmoothAfter ==
    ASSUME SequentialInv, SequentialInv', SmoothInv, alternate, alternate', NEW p \in Process,
           Leave(p) \/ \E e \in Event : RecordEvent(p, e)
    PROVE  SmoothInv'
<1> USE DEF SequentialInv, TypeInv, MigrationTypeOK
<1>1. CASE Leave(p)
    <2>1. /\ UNCHANGED <<table, version, recorded, known, next>>
          /\ pc[p] \notin Statements /\ pc'[p] = "out"
          /\ \A q \in Process : q # p => pc'[q] = pc[q]
        BY <1>1 DEF Leave, database, Statements
    <2>2. \A q \in Process : Finds(q)'
        BY <2>1 DEF SmoothInv, Finds, Whole, Exists
    <2>3. Whole(version) => Whole(version)'
        BY <2>1 DEF Whole, Exists
    <2> QED
        BY <2>1, <2>2, <2>3 DEF SmoothInv, Statements
<1>2. ASSUME NEW e \in Event, RecordEvent(p, e) PROVE SmoothInv'
    <2>1. pc[p] = "ready" /\ UNCHANGED <<version, pc, known, next>> /\ version = SchemaVersion
        BY <1>2 DEF RecordEvent, AloneInv
    <2>2. \A q \in Process : pc'[q] \notin Statements
        BY <2>1 DEF AloneInv, ScriptInv
    <2>3. Whole(SchemaVersion)'
        BY <2>1 DEF ShapeInv
    <2>4. \A q \in Process : Finds(q)'
        BY <2>2 DEF Finds, Statements
    <2> QED
        BY <2>1, <2>3, <2>4 DEF SmoothInv
<1> QED
    BY <1>1, <1>2

LEMMA SmoothStep ==
    SucceedsInv /\ SequentialInv' /\ [MigrationNext]_migrationVars => SucceedsInv'
<1> SUFFICES ASSUME SucceedsInv, SequentialInv', [MigrationNext]_migrationVars PROVE SucceedsInv'
    OBVIOUS
<1> USE DEF SucceedsInv
<1>1. CASE UNCHANGED migrationVars
    <2>1. FitInv'
        BY <1>1 DEF migrationVars, database, FitInv, Exists
    <2>2. Uninterrupted' => SmoothInv'
        BY <1>1 DEF migrationVars, database, Uninterrupted, SmoothInv, Finds, Whole, Exists
    <2> QED
        BY <2>1, <2>2
<1>2. CASE MigrationNext
    <2>1. PICK p \in Process :
            \/ Begin(p) \/ Initializes(p) \/ Interrupted(p)
            \/ (\E e \in Event : RecordEvent(p, e)) \/ Leave(p)
        BY <1>2 DEF MigrationNext
    <2>2. FitInv'
        <3>1. CASE \/ CreateObject(p) \/ RenameEvents(p) \/ CreateEvents(p) \/ CopyEvents(p)
                   \/ DropOld(p) \/ \E e \in Event : RecordEvent(p, e)
            BY <3>1, FitStep DEF SequentialInv
        <3>2. CASE UNCHANGED table
            BY <3>2 DEF FitInv, Exists
        <3> QED
            BY <2>1, <3>1, <3>2
            DEF Begin, Initializes, Interrupted, Leave, RecordVersion, StatementFails, database
    <2>3. ASSUME Uninterrupted' PROVE SmoothInv'
        <3>1. UNCHANGED alternate /\ interruptions \in Nat
            BY <2>1 DEF Initializes, Begin, CreateObject, RenameEvents, CreateEvents,
                CopyEvents, DropOld, RecordVersion, StatementFails, Interrupted, RecordEvent,
                Leave, GoesOn, SequentialInv, TypeInv, MigrationTypeOK
        <3>2. interruptions' = interruptions + 1 \/ UNCHANGED interruptions
            BY <2>1 DEF Initializes, Begin, CreateObject, RenameEvents, CreateEvents,
                CopyEvents, DropOld, RecordVersion, StatementFails, Interrupted, RecordEvent,
                Leave, GoesOn
        <3>3. alternate /\ alternate' /\ interruptions = 0 /\ SmoothInv
            BY <2>3, <3>1, <3>2 DEF Uninterrupted
        <3>4. ~ Interrupted(p)
            BY <2>3, <3>3 DEF Interrupted, Uninterrupted
        <3> QED
            BY <2>1, <3>3, <3>4, SmoothBegin, SmoothObject, SmoothScript, SmoothRecord,
               NothingFails, SmoothAfter DEF Initializes
    <2> QED
        BY <2>2, <2>3
<1> QED
    BY <1>1, <1>2

LEMMA SmoothInit == MigrationInit => SmoothInv
<1> SUFFICES ASSUME MigrationInit PROVE SmoothInv
    OBVIOUS
<1>1. pc = [p \in Process |-> "out"]
    BY DEF MigrationInit
<1>2. ASSUME version \in Supported PROVE Whole(version)
    <2>1. \A name \in Name \ Initial : ~ Exists(name)
        BY DEF MigrationInit, Exists
    <2>2. version = 0 => recorded = {} /\ \A name \in Name : ~ Exists(name)
        BY MigrationConstants DEF MigrationInit, SchemaVersion, Exists
    <2>3. ASSUME version > 0
          PROVE  /\ \A name \in Initial : table[name] \in Table
                 /\ table["run_events"].rows = recorded
                 /\ table["run_events"].vocabulary = version
        BY <1>2, <2>3, Objects, NewTableType
           DEF MigrationInit, Table, Supported, SchemaVersion
    <2>4. version > 0 => \A name \in Initial : Exists(name)
        BY <2>3, MigrationConstants DEF Exists
    <2>5. \A k \in {1, 2} : Old(k) \in Name \ Initial
        BY Objects
    <2> QED
        BY <1>2, <2>1, <2>2, <2>3, <2>4, <2>5, Objects DEF Whole, Supported, SchemaVersion
<1> QED
    BY <1>1, <1>2 DEF SmoothInv, Finds, Statements

(* A process that initializes alone, with no initialization cut short      *)
(* before, brings a database of any supported version to the current one:  *)
(* no statement of any script is refused, whatever events are recorded.    *)
THEOREM UninterruptedSucceeds == MigrationSpec => []InitializationSucceeds
<1>1. MigrationInit => SequentialInv /\ SucceedsInv
    BY SequentialInit, FitInit, SmoothInit DEF SucceedsInv
<1>2. (SequentialInv /\ SucceedsInv) /\ [MigrationNext]_migrationVars
        => (SequentialInv /\ SucceedsInv)'
    BY SequentialStep, SmoothStep
<1>3. SucceedsInv => InitializationSucceeds
    BY DEF SucceedsInv, Uninterrupted, SmoothInv, InitializationSucceeds
<1> QED
    BY <1>1, <1>2, <1>3, PTL DEF MigrationSpec

LEMMA LeftIsBounded == TypeInv => StatementsBounded
<1> SUFFICES ASSUME TypeInv, NEW p \in Process PROVE StatementsLeft(p) \in 0 .. StatementsOfAll
    BY DEF StatementsBounded
<1>1. StatementsOfAll = 56
    BY DEF StatementsOfAll, SchemaVersion, ScriptLength
<1>2. CASE pc[p] \notin Statements
    BY <1>1, <1>2 DEF StatementsLeft
<1>3. CASE pc[p] \in Statements
    <2>1. /\ known[p] \in 0 .. 2 /\ next[p] \in 1 .. 11
          /\ SchemaVersion = 3 /\ ScriptLength = 14
        BY <1>3, Objects DEF TypeInv, ScriptInv, MigrationTypeOK, Supported, SchemaVersion,
           ScriptLength
    <2>2. \E k \in 1 .. 13 : StatementsLeft(p) = (3 - known[p]) * 14 + k
        <3>1. CASE pc[p] = "create_object"
            BY <1>3, <2>1, <3>1 DEF StatementsLeft
        <3>2. CASE pc[p] # "create_object"
            BY <1>3, <2>1, <3>2 DEF StatementsLeft, Statements
        <3> QED
            BY <3>1, <3>2
    <2> QED
        BY <1>1, <2>1, <2>2
<1> QED
    BY <1>2, <1>3

(* Every statement of an initialization leaves fewer to go, whatever other *)
(* processes do between two of them: an initialization ends after a        *)
(* bounded number of its own statements.                                   *)
THEOREM InitializationIsBounded ==
    MigrationSpec => []StatementsBounded /\ InitializationShortens
<1>1. TypeInv => StatementsBounded
    BY LeftIsBounded
<1>2. TypeInv /\ TypeInv' /\ [MigrationNext]_migrationVars =>
        [\A p \in Process : pc[p] \in Statements =>
            \/ StatementsLeft(p)' < StatementsLeft(p)
            \/ UNCHANGED <<pc[p], known[p], next[p]>>]_migrationVars
    <2> SUFFICES ASSUME TypeInv, TypeInv', MigrationNext, NEW q \in Process,
                        pc[q] \in Statements
                 PROVE  \/ StatementsLeft(q)' < StatementsLeft(q)
                        \/ UNCHANGED <<pc[q], known[q], next[q]>>
        OBVIOUS
    <2> USE DEF TypeInv, MigrationTypeOK
    <2>1. PICK p \in Process :
            \/ Begin(p) \/ Initializes(p) \/ Interrupted(p)
            \/ (\E e \in Event : RecordEvent(p, e)) \/ Leave(p)
        BY DEF MigrationNext
    <2>2. CASE q # p
        BY <2>1, <2>2 DEF Begin, Initializes, CreateObject, RenameEvents, CreateEvents,
            CopyEvents, DropOld, RecordVersion, StatementFails, Interrupted, RecordEvent,
            Leave, GoesOn
    <2>3. CASE q = p /\ Initializes(p)
        <3>1. /\ known[p] \in 0 .. 2 /\ next[p] \in 1 .. 11
              /\ StatementsLeft(p) \in Nat /\ StatementsLeft(p) > 0
            BY <2>3, Objects DEF ScriptInv, Statements, Supported, SchemaVersion,
               StatementsLeft, ScriptLength
        <3>2. CASE pc'[p] \notin Statements
            BY <2>3, <3>1, <3>2 DEF StatementsLeft
        <3>3. CASE RecordVersion(p) /\ pc'[p] \in Statements
            <4>1. pc[p] = "record" /\ known'[p] = known[p] + 1 /\ pc'[p] = "rename"
                BY <3>1, <3>3, NextPoint
                DEF RecordVersion, FirstPoint, SchemaVersion, Statements
            <4>2. /\ StatementsLeft(p) = (3 - known[p]) * 14 + 1
                  /\ StatementsLeft(p)' = (3 - known'[p]) * 14 + 5
                BY <4>1 DEF StatementsLeft, Statements, SchemaVersion, ScriptLength
            <4> QED
                BY <2>3, <3>1, <4>1, <4>2
        <3>4. CASE CreateObject(p) \/ RenameEvents(p) \/ CreateEvents(p) \/ CopyEvents(p)
                   \/ DropOld(p)
            <4>1. /\ known'[p] = known[p]
                  /\ \/ pc[p] = "create_object" /\ pc'[p] = "create_object"
                          /\ next'[p] = next[p] + 1
                     \/ pc[p] = "create_object" /\ pc'[p] = "record"
                     \/ pc[p] = "rename" /\ pc'[p] = "create_events"
                     \/ pc[p] = "create_events" /\ pc'[p] = "copy"
                     \/ pc[p] = "copy" /\ pc'[p] = "drop"
                     \/ pc[p] = "drop" /\ pc'[p] = "record"
                BY <3>4, Objects DEF CreateObject, RenameEvents, CreateEvents, CopyEvents,
                   DropOld, GoesOn
            <4>2. CASE pc[p] = "create_object" /\ pc'[p] = "create_object"
                <5>1. StatementsLeft(p) = (3 - known[p]) * 14 + (13 - next[p])
                    BY <4>2 DEF StatementsLeft, Statements, SchemaVersion, ScriptLength
                <5>2. StatementsLeft(p)' = (3 - known'[p]) * 14 + (13 - next'[p])
                    BY <4>2 DEF StatementsLeft, Statements, SchemaVersion, ScriptLength
                <5>3. next'[p] = next[p] + 1
                    BY <4>1, <4>2
                <5> QED
                    BY <2>3, <3>1, <4>1, <5>1, <5>2, <5>3
            <4>3. CASE ~ (pc[p] = "create_object" /\ pc'[p] = "create_object")
                <5>1. \E k \in 2 .. 12 : StatementsLeft(p) = (3 - known[p]) * 14 + k
                        /\ \E j \in 1 .. k - 1 : StatementsLeft(p)' = (3 - known'[p]) * 14 + j
                    <6>1. CASE pc[p] = "create_object"
                        <7>1. StatementsLeft(p) = (3 - known[p]) * 14 + (13 - next[p])
                            BY <6>1 DEF StatementsLeft, Statements, SchemaVersion, ScriptLength
                        <7>2. StatementsLeft(p)' = (3 - known'[p]) * 14 + 1
                            BY <4>1, <4>3, <6>1
                               DEF StatementsLeft, Statements, SchemaVersion, ScriptLength
                        <7>3. next[p] \in 1 .. 11
                            BY <3>1
                        <7>4. \A n \in 1 .. 11 : 13 - n \in 2 .. 12 /\ 1 \in 1 .. (13 - n) - 1
                            OBVIOUS
                        <7> QED
                            BY <7>1, <7>2, <7>3, <7>4
                    <6>2. CASE pc[p] = "rename"
                        BY <4>1, <6>2 DEF StatementsLeft, Statements, SchemaVersion, ScriptLength
                    <6>3. CASE pc[p] = "create_events"
                        BY <4>1, <6>3 DEF StatementsLeft, Statements, SchemaVersion, ScriptLength
                    <6>4. CASE pc[p] = "copy"
                        BY <4>1, <6>4 DEF StatementsLeft, Statements, SchemaVersion, ScriptLength
                    <6>5. CASE pc[p] = "drop"
                        BY <4>1, <6>5 DEF StatementsLeft, Statements, SchemaVersion, ScriptLength
                    <6> QED
                        BY <4>1, <6>1, <6>2, <6>3, <6>4, <6>5
                <5> QED
                    BY <2>3, <3>1, <4>1, <5>1
            <4> QED
                BY <4>2, <4>3
        <3>5. CASE StatementFails(p)
            BY <3>2, <3>5 DEF StatementFails, Statements
        <3> QED
            BY <2>3, <3>2, <3>3, <3>4, <3>5 DEF Initializes
    <2>4. CASE q = p /\ Interrupted(p)
        <3>1. StatementsLeft(p) \in Nat /\ StatementsLeft(p) > 0
            BY <2>4, Objects DEF ScriptInv, Statements, Supported, SchemaVersion,
               StatementsLeft, ScriptLength
        <3> QED
            BY <2>4, <3>1 DEF Interrupted, StatementsLeft, Statements
    <2>5. CASE q = p /\ (Begin(p) \/ Leave(p) \/ \E e \in Event : RecordEvent(p, e))
        BY <2>5 DEF Begin, Leave, RecordEvent, Statements
    <2> QED
        BY <2>1, <2>2, <2>3, <2>4, <2>5
<1> QED
    BY <1>1, <1>2, TypeInvariant, PTL DEF MigrationSpec, InitializationShortens
=============================================================================
