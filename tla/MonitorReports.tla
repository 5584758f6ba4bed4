----------------------------- MODULE MonitorReports -----------------------------
(***************************************************************************)
(* What happens to a bundle: the demo (scripts/demo_stage5.py) writes it   *)
(* to a file and judges it, processes of scripts/run_monitor.py judge the  *)
(* file; MonitorRunner.evaluate lets one reply of a model through, and     *)
(* persist_monitor_report publishes it (monitoring/).                      *)
(*                                                                         *)
(* The report goes to a temporary file first and is then linked or renamed *)
(* to its path.  Between any two calls other processes act, a call may     *)
(* fail, or the process may die.                                           *)
(***************************************************************************)
EXTENDS RunBundle

CONSTANTS
    Cited,    \* the versions a reply of the model may cite, and NoVersion
    NoFile,   \* the content of a file that does not exist
    Cut       \* the content of a file that was not written to its end

Path == {"bundle", "report"}
Report == [by : Cli \cup {Demo}, cites : VersionRef \cup {NoVersion}]

ASSUME MonitorConstants ==
    /\ Cited \subseteq VersionRef \cup {NoVersion}
    /\ NoFile \notin Report /\ Cut \notin Report /\ NoFile # Cut

VARIABLES
    files,       \* the content at each path
    temporary,   \* the processes whose temporary file exists
    forced,      \* --force
    target,      \* --output
    judged,      \* what the findings of its report cite
    published,   \* the processes whose report was put at its path
    exit         \* the exit code

monitorVars == <<files, temporary, forced, target, judged, published, exit>>
allVars == <<vars, bundleVars, monitorVars>>

NoExit == 9
Died == 8
Uncaught == 1

(* A step of a process between two of its calls. *)
Goes(p, from, to) ==
    /\ Moves(p, from, to)
    /\ UNCHANGED <<vars, held>>

Exits(p, from, code) ==
    /\ Goes(p, from, "ended")
    /\ exit' = [exit EXCEPT ![p] = code]

(* Faulty variant: the demo does not look at what it got. *)
ExitWithoutReport(p) == 4

(* No report was obtained. *)
ExitWithout(p) == IF p = Demo THEN 2 ELSE 4

(* The demo exits by the status of its run once it holds a report, whether *)
(* or not the report was persisted.                                        *)
DemoExit == IF held[Demo].run.status = "failed" THEN 1 ELSE 0

-----------------------------------------------------------------------------
(* The demo writes the bundle *)

(* The exit codes when rules or settings cannot be had.  The loader's error *)
(* for a document that is missing or blank is caught by neither program;    *)
(* one that cannot be decoded, and a missing key, are reported.             *)
SettingsExits(p) == {Uncaught, IF p = Demo THEN 2 ELSE 3}

(* When its run() has returned, run_demo loads the rules that the bundle is *)
(* to hold.                                                                *)
LacksRules ==
    /\ \E r \in Runner : pc[r] = "returned"
    /\ \E code \in SettingsExits(Demo) : Exits(Demo, "idle", code)
    /\ UNCHANGED <<files, temporary, forced, target, judged, published>>

(* A refused bundle ends the demo. *)
EndWithoutBundle ==
    /\ Moves(Demo, "refused", "ended")
    /\ exit' = [exit EXCEPT ![Demo] = 2]
    /\ held' = [held EXCEPT ![Demo] = NothingHeld]
    /\ UNCHANGED <<vars, files, temporary, forced, target, judged, published>>

(* _write_json_exclusive: created, ... *)
OpenBundle ==
    /\ Goes(Demo, "built", "write_bundle")
    /\ files["bundle"] = NoFile
    /\ files' = [files EXCEPT !["bundle"] = Cut]
    /\ UNCHANGED <<temporary, forced, target, judged, published, exit>>

(* ... then written. *)
WriteBundle ==
    /\ Goes(Demo, "write_bundle", "respond")
    /\ files' = [files EXCEPT !["bundle"] = held[Demo]]
    /\ UNCHANGED <<temporary, forced, target, judged, published, exit>>

-----------------------------------------------------------------------------
(* run_monitor.py reads it *)

LoadBundle(p) ==
    /\ p \in Cli
    /\ files["bundle"] \notin {NoFile, Cut}
    /\ Moves(p, "idle", "respond")
    /\ held' = [held EXCEPT ![p] = files["bundle"]]
    /\ \E f \in BOOLEAN : forced' = [forced EXCEPT ![p] = f]
    /\ \E path \in Path : target' = [target EXCEPT ![p] = path]
    /\ UNCHANGED <<vars, files, temporary, judged, published, exit>>

(* Not there, or not a whole bundle. *)
RefuseFile(p) ==
    /\ p \in Cli
    /\ files["bundle"] \in {NoFile, Cut}
    /\ Exits(p, "idle", 2)
    /\ UNCHANGED <<files, temporary, forced, target, judged, published>>

(* The rubric or the key cannot be had, before a model is asked. *)
Misconfigured(p) ==
    /\ \E code \in SettingsExits(p) : Exits(p, "respond", code)
    /\ UNCHANGED <<files, temporary, forced, target, judged, published>>

-----------------------------------------------------------------------------
(* MonitorRunner.evaluate *)

(* Faulty variant: any version of the document may be cited. *)
MayCiteDocument(p, ref) ==
    ref = NoVersion \/ \E v \in versions : Ref(v) = ref

MayCite(p, ref) == ref = NoVersion \/ ref \in References(held[p])

(* The model's reply is a report of this run with every axis once, that    *)
(* cites evidence of the bundle.                                           *)
TakeReport(p) ==
    /\ Goes(p, "respond", "persist")
    /\ \E ref \in Cited :
            /\ MayCite(p, ref)
            /\ judged' = [judged EXCEPT ![p] = ref]
    /\ UNCHANGED <<files, temporary, forced, target, published, exit>>

(* The model fails, asks for tools, or replies with anything else. *)
RefuseReport(p) ==
    /\ Exits(p, "respond", ExitWithout(p))
    /\ UNCHANGED <<files, temporary, forced, target, judged, published>>

-----------------------------------------------------------------------------
(* persist_monitor_report *)

ReportBy(p) == [by |-> p, cites |-> judged[p]]

ExitUnpublished(p) == IF p = Demo THEN DemoExit ELSE 4

CanPersist(p) ==
    /\ target[p] # "bundle"
    /\ files[target[p]] = NoFile \/ forced[p]

RefuseOutput(p) ==
    /\ ~ CanPersist(p)
    /\ Exits(p, "persist", ExitUnpublished(p))
    /\ UNCHANGED <<files, temporary, forced, target, judged, published>>

(* mkstemp, write, flush, fsync *)
WriteTemporary(p) ==
    /\ CanPersist(p)
    /\ Goes(p, "persist", "publish")
    /\ temporary' = temporary \cup {p}
    /\ UNCHANGED <<files, forced, target, judged, published, exit>>

(* os.replace takes the temporary file away, os.link does not. *)
ReplaceReport(p) ==
    /\ forced[p]
    /\ Exits(p, "publish", IF p = Demo THEN DemoExit ELSE 0)
    /\ files' = [files EXCEPT ![target[p]] = ReportBy(p)]
    /\ temporary' = temporary \ {p}
    /\ published' = published \cup {p}
    /\ UNCHANGED <<forced, target, judged>>

(* Faulty variant: the report is renamed, whatever is there. *)
LinkReportOver(p) ==
    /\ ~ forced[p]
    /\ Goes(p, "publish", "unlink")
    /\ files' = [files EXCEPT ![target[p]] = ReportBy(p)]
    /\ published' = published \cup {p}
    /\ UNCHANGED <<temporary, forced, target, judged, exit>>

LinkReport(p) ==
    /\ ~ forced[p]
    /\ files[target[p]] = NoFile
    /\ Goes(p, "publish", "unlink")
    /\ files' = [files EXCEPT ![target[p]] = ReportBy(p)]
    /\ published' = published \cup {p}
    /\ UNCHANGED <<temporary, forced, target, judged, exit>>

(* Faulty variant: that another report is there is no error. *)
LinkRefusedQuietly(p) ==
    /\ ~ forced[p]
    /\ files[target[p]] # NoFile
    /\ Goes(p, "publish", "unlink")
    /\ UNCHANGED monitorVars

(* FileExistsError: another report was published meanwhile. *)
LinkRefused(p) ==
    /\ ~ forced[p]
    /\ files[target[p]] # NoFile
    /\ Goes(p, "publish", "clean_up")
    /\ UNCHANGED monitorVars

Unlink(p) ==
    /\ Exits(p, "unlink", IF p = Demo THEN DemoExit ELSE 0)
    /\ temporary' = temporary \ {p}
    /\ UNCHANGED <<files, forced, target, judged, published>>

(* The finally clause after an error. *)
CleanUp(p) ==
    /\ Exits(p, "clean_up", ExitUnpublished(p))
    /\ temporary' = temporary \ {p}
    /\ UNCHANGED <<files, forced, target, judged, published>>

-----------------------------------------------------------------------------
(* Failures *)

(* A file call fails: the bundle cannot be created or written, the         *)
(* temporary file not written, linked, renamed or removed.  An error of    *)
(* the removal in the finally clause is swallowed.                         *)
FileCallFails(p) ==
    /\ faults < MaxFaults
    /\ faults' = faults + 1
    /\ \/ /\ at[p] \in {"built", "write_bundle"}
          /\ p = Demo
          /\ at' = [at EXCEPT ![p] = "ended"]
          /\ exit' = [exit EXCEPT ![p] = 2]
          /\ UNCHANGED temporary
       \/ /\ \/ at[p] = "clean_up"
             \/ at[p] = "persist" /\ CanPersist(p)
          /\ at' = [at EXCEPT ![p] = "ended"]
          /\ exit' = [exit EXCEPT ![p] = ExitUnpublished(p)]
          /\ UNCHANGED temporary
       \/ /\ at[p] = "persist" /\ CanPersist(p)
          /\ at' = [at EXCEPT ![p] = "clean_up"]
          /\ temporary' = temporary \cup {p}
          /\ UNCHANGED exit
       \/ /\ at[p] \in {"publish", "unlink"}
          /\ at' = [at EXCEPT ![p] = "clean_up"]
          /\ UNCHANGED <<temporary, exit>>
    /\ UNCHANGED <<repoVars, pc, localVars, facts, crashes, grants>>
    /\ UNCHANGED <<held, files, forced, target, judged, published>>

Judging == {"write_bundle", "respond", "persist", "publish", "unlink", "clean_up"}

Dies(p) ==
    /\ crashes < MaxCrashes
    /\ crashes' = crashes + 1
    /\ at[p] \in Judging
    /\ at' = [at EXCEPT ![p] = "ended"]
    /\ exit' = [exit EXCEPT ![p] = Died]
    /\ UNCHANGED <<repoVars, pc, localVars, facts, faults, grants>>
    /\ UNCHANGED <<held, files, temporary, forced, target, judged, published>>

-----------------------------------------------------------------------------
MonitorInit ==
    /\ Init
    /\ at = [p \in Process |-> "idle"]
    /\ held = [p \in Process |-> NothingHeld]
    /\ files = [path \in Path |-> NoFile]
    /\ temporary = {}
    /\ forced = [p \in Process |-> FALSE]
    /\ target = [p \in Process |-> "report"]
    /\ judged = [p \in Process |-> NoVersion]
    /\ published = {}
    /\ exit = [p \in Process |-> NoExit]

Judges(p) ==
    \/ LoadBundle(p) \/ RefuseFile(p) \/ Misconfigured(p)
    \/ TakeReport(p) \/ RefuseReport(p)
    \/ RefuseOutput(p) \/ WriteTemporary(p)
    \/ ReplaceReport(p) \/ LinkReport(p) \/ LinkRefused(p)
    \/ Unlink(p) \/ CleanUp(p)
    \/ FileCallFails(p) \/ Dies(p)

MonitorNext ==
    \/ Next /\ UNCHANGED <<bundleVars, monitorVars>>
    \/ \E p \in Process : CollectsBundle(p) /\ UNCHANGED monitorVars
    \/ LacksRules \/ EndWithoutBundle \/ OpenBundle \/ WriteBundle
    \/ \E p \in Process : Judges(p)

MonitorSpec == MonitorInit /\ [][MonitorNext]_allVars

-----------------------------------------------------------------------------
MonitorTypeOK ==
    /\ at \in [Process -> {"idle", "run", "events", "handoffs", "versions", "check",
                           "built", "refused", "write_bundle", "respond", "persist",
                           "publish", "unlink", "clean_up", "ended"}]
    /\ \A p \in Process :
            /\ held[p].run \in RunRow \cup {NoRun}
            /\ held[p].events \subseteq EventRow
            /\ held[p].handoffs \subseteq HandoffRow
            /\ held[p].versions \subseteq VersionRow
    /\ files["report"] \in Report \cup {NoFile}
    /\ temporary \subseteq Process /\ published \subseteq Process
    /\ forced \in [Process -> BOOLEAN]
    /\ target \in [Process -> Path]
    /\ judged \in [Process -> VersionRef \cup {NoVersion}]
    /\ \A p \in Process : exit[p] \in {0, 2, Uncaught, Died, NoExit} \cup
            (IF p = Demo THEN {} ELSE {3, 4})

(* A report that can be read cites only what is in its run's final record, *)
(* and the bundle beside it is that record: nothing a monitor publishes    *)
(* rests on another version, another editor's say, or half a file.         *)
ReportRestsOnRecord ==
    files["report"] # NoFile =>
        /\ files["bundle"] = held[Demo]
        /\ held[Demo].run = runs[Subject]
        /\ files["report"].cites \in {NoVersion} \cup {Ref(v) : v \in held[Demo].versions}

(* "Existing output is refused unless --force is supplied", "The input     *)
(* bundle is never modified": whatever monitors race, what is at a path is *)
(* replaced only by a forced one, and a written bundle never.              *)
FirstReportStands ==
    [][ /\ files["report"] \notin {NoFile, files'["report"]} =>
                \E p \in Cli : forced[p] /\ at[p] = "publish" /\ at'[p] = "ended"
        /\ files["bundle"] \notin {NoFile, Cut} => files'["bundle"] = files["bundle"]
      ]_allVars

(* "persistence failures return nonzero exit codes": a monitor exits with  *)
(* 0 exactly when it published its report, unless a call failed while it   *)
(* tidied up, and leaves no temporary file unless it died or could not.    *)
(* The demo is left out: it exits with 0 although its report was refused.  *)
ExitTellsOutcome ==
    /\ \A p \in Cli : exit[p] \notin {NoExit, Died} =>
            /\ exit[p] = 0 => p \in published
            /\ p \in published => exit[p] = 0 \/ faults > 0
    /\ \A p \in temporary : at[p] = "ended" => exit[p] = Died \/ faults > 0
=============================================================================
