------------------------------ MODULE MCStores ------------------------------
(* The files that the program keeps beside the repository, each a component   *)
(* of its own: the workspace metadata, the operations log with its undo and   *)
(* redo, the commits that hold the log, the settings.  They share nothing, so *)
(* that one run takes one of them at a time, from its initial states through  *)
(* all its steps, while the others rest.                                      *)
EXTENDS MetadataStore, SnapshotStore, Oplog, Settings, TLC

CONSTANTS Plain, Optional

VARIABLE focus

MCMaxTime == 2
MCMaxEntries == 4

(* A setting that always has a value and one that may have none; three        *)
(* updates, edits or failures, of two processes and an editor.                *)
MCValue == [k \in Key |-> IF k = Plain THEN {0, 1} ELSE {Null, 1}]
MCDefault == [k \in Key |-> IF k = Plain THEN 0 ELSE Null]
MCMaxChanges == 3

Same == Permutations(Process) \cup Permutations(Client)

StoresInit ==
    /\ focus \in {"metadata", "oplog", "snapshots", "settings"}
    /\ Init /\ (focus # "metadata" => file.content = Missing)
    /\ LogInit /\ SnapshotInit
    /\ SettingsInit /\ settings = None

StoresNext ==
    /\ UNCHANGED focus
    /\ \/ focus = "metadata" /\ Next /\ UNCHANGED <<logVars, snapshotVars, settingsVars>>
       \/ focus = "oplog" /\ LogNext /\ UNCHANGED <<vars, snapshotVars, settingsVars>>
       \/ focus = "snapshots" /\ SnapshotNext /\ UNCHANGED <<vars, logVars, settingsVars>>
       \/ focus = "settings" /\ SettingsNext /\ UNCHANGED <<vars, logVars, snapshotVars>>

StoresSpec == StoresInit /\ [][StoresNext]_<<focus, vars, logVars, snapshotVars, settingsVars>>

-----------------------------------------------------------------------------
(* The type invariants of the four.                                           *)
StoresTypeOK == TypeOK /\ LogTypeOK /\ SnapshotTypeOK /\ SettingsTypeOK
=============================================================================
