------------------------------- MODULE Settings -------------------------------
(* The application settings: a file of customizations, merged into compiled-in *)
(* defaults, that every process of the program holds in memory, updates, and   *)
(* reloads when its watcher says that the file changed                         *)
(* (crates/but-settings/src/{persistence,watch,api,json}.rs).                  *)
(* The write lock of one process is held for a whole update, from the change   *)
(* in memory to the write, and for a whole reload; nothing excludes two        *)
(* processes.  As on Linux, a file that is replaced is no longer watched until *)
(* the watcher is told to.  A key stands for one leaf of the JSON.             *)
EXTENDS Naturals

CONSTANTS Process, Key,
          Value,            \* the values of each key
          Default,          \* the value in assets/defaults.jsonc
          Null,             \* a value of optional settings, and their default
          Absent,           \* no customization of a key
          Broken, NoFile,   \* a file that does not parse, no file
          MaxChanges        \* updates, edits and failures together

VARIABLES settings,  \* settings.json: customizations, Broken or NoFile
          memory,    \* the settings of each process
          call,      \* its update or reload
          notices,   \* events its watcher has not handled
          watch,     \* does its watcher watch the file that is at the path
          changes,   \* so far
          excused    \* history: why the memory of a process may be stale
settingsVars == <<settings, memory, call, notices, watch, changes, excused>>

Values == UNION {Value[k] : k \in Key}
Customizations ==
    {f \in [Key -> Values \cup {Absent}] : \A k \in Key : f[k] \in (Value[k] \ {Null}) \cup {Absent}}
Settled == {f \in [Key -> Values] : \A k \in Key : f[k] \in Value[k]}
None == [k \in Key |-> Absent]

ASSUME ThereAreKeys == Key # {}
ASSUME DefaultsAreValues == Default \in Settled
ASSUME AbsentIsNoValue == Absent \notin Values
ASSUME FilesDiffer ==
    Broken \notin Customizations /\ NoFile \notin Customizations /\ Broken # NoFile
ASSUME MaxChangesIsNatural == MaxChanges \in Nat

(* merge_json_value of what is customized into the defaults.                  *)
Effective(custom) ==
    [k \in Key |-> IF custom[k] = Absent THEN Default[k] ELSE custom[k]]

(* AppSettings::load makes a file if there is none, and fails on a broken one. *)
Loadable == settings # Broken
Readable == settings \notin {Broken, NoFile}
Created == IF settings = NoFile THEN None ELSE settings

Waiting(k) == [step |-> "idle", key |-> k, before |-> Default, current |-> Default, custom |-> None]
AtRest(p) == call[p].step = "idle"

Calls == [step : {"idle", "load", "read", "write", "rewatch"}, key : Key,
          before : Settled, current : Settled, custom : Customizations]
SettingsTypeOK ==
    /\ settings \in Customizations \cup {Broken, NoFile}
    /\ memory \in [Process -> Settled]
    /\ call \in [Process -> Calls]
    /\ notices \in [Process -> SUBSET {"modified", "removed"}]
    /\ watch \in [Process -> {"starting", "on", "off"}]
    /\ excused \in [Process -> SUBSET {"missed", "blind", "unsaved"}]
    /\ changes \in 0..MaxChanges

SettingsInit ==
    /\ settings \in Customizations
    /\ memory = [p \in Process |-> Effective(settings)]
    /\ call = [p \in Process |-> Waiting(CHOOSE k \in Key : TRUE)]
    /\ notices = [p \in Process |-> {}]
    /\ watch = [p \in Process |-> "starting"]
    /\ changes = 0
    /\ excused = [p \in Process |-> {}]

-----------------------------------------------------------------------------
(* What the file system tells the watchers of a file that is written in place *)
(* or replaced.  Who does not watch, and has not yet to load the file for an  *)
(* earlier notice, misses the change.                                         *)
Tell(notice) ==
    /\ notices' = [q \in Process |->
                     IF watch[q] = "on" THEN notices[q] \cup {notice} ELSE notices[q]]
    /\ excused' = [q \in Process |->
                     IF watch[q] = "on" \/ "removed" \in notices[q] THEN excused[q]
                     ELSE excused[q] \cup {"missed"}]
WriteInPlace(f) == settings' = f /\ Tell("modified") /\ UNCHANGED watch
Replace(f) ==
    /\ settings' = f /\ Tell("removed")
    /\ watch' = [q \in Process |-> IF watch[q] = "on" THEN "off" ELSE watch[q]]

Change == changes < MaxChanges /\ changes' = changes + 1
Continue(p, c) == call' = [call EXCEPT ![p] = c]
Finish(p) == Continue(p, Waiting(call[p].key))

(* Another program or the user edits, replaces or deletes the file.           *)
Edit ==
    /\ Change
    /\ \/ settings # NoFile /\ \E f \in Customizations \cup {Broken} : WriteInPlace(f)
       \/ \E f \in Customizations \cup {Broken, NoFile} : f # settings /\ Replace(f)
    /\ UNCHANGED <<memory, call>>

(* update_...: the write lock is taken and the setting changed in memory, ... *)
Update(p, k, v) ==
    /\ AtRest(p) /\ Change
    /\ memory' = [memory EXCEPT ![p][k] = v]
    /\ Continue(p, [Waiting(k) EXCEPT !.step = "load", !.before = memory[p]])
    /\ UNCHANGED <<settings, notices, watch, excused>>

(* ... then AppSettings::save loads what the file holds now, ...              *)
LoadCurrent(p) ==
    /\ call[p].step = "load" /\ Loadable
    /\ settings' = Created
    /\ Continue(p, [call[p] EXCEPT !.step = "read", !.current = Effective(Created)])
    /\ UNCHANGED <<memory, notices, watch, changes, excused>>

(* ... reads it once more to get at the customizations alone, ...             *)
ReadFile(p) ==
    /\ call[p].step = "read" /\ Readable
    /\ Continue(p, [call[p] EXCEPT !.step = "write", !.custom = settings])
    /\ UNCHANGED <<settings, memory, notices, watch, changes, excused>>

(* json_difference *)
Difference(p) == {k \in Key : memory[p][k] # call[p].current[k]}

(* mutant: a null that is merged is kept.                                     *)
StoredAsNull(v) == v

(* merge_json_value: a null removes the key.                                  *)
Stored(v) == IF v = Null THEN Absent ELSE v

(* mutant: everything in memory is written, as the comment on save says.      *)
MergedWholesale(p) == [k \in Key |-> Stored(memory[p][k])]

Merged(p) ==
    [k \in Key |-> IF k \in Difference(p) THEN Stored(memory[p][k]) ELSE call[p].custom[k]]

(* ... and writes them with the difference, if there is one.                  *)
WriteSettings(p) ==
    /\ call[p].step = "write"
    /\ IF Difference(p) = {} THEN UNCHANGED <<settings, notices, watch, excused>>
                             ELSE Replace(Merged(p))
    /\ Finish(p)
    /\ UNCHANGED <<memory, changes>>

(* An error leaves the change in memory only.                                 *)
SaveFails(p) ==
    /\ call[p].step \in {"load", "read", "write"}
    /\ IF call[p].step # "write" /\ ~Readable THEN UNCHANGED changes ELSE Change
    /\ Finish(p)
    /\ excused' = [excused EXCEPT ![p] = @ \cup {"unsaved"}]
    /\ UNCHANGED <<settings, memory, notices, watch>>

-----------------------------------------------------------------------------
(* The watcher thread starts after the settings were first loaded, and ends   *)
(* at once if there is no file.                                               *)
StartWatching(p) ==
    /\ watch[p] = "starting"
    /\ watch' = [watch EXCEPT ![p] = IF settings = NoFile THEN "off" ELSE "on"]
    /\ UNCHANGED <<settings, memory, call, notices, changes, excused>>

Reload(p) ==
    /\ settings' = Created
    /\ excused' = [excused EXCEPT ![p] = {}]

(* EventKind::Modify(ModifyKind::Data)                                        *)
Modified(p) ==
    /\ AtRest(p) /\ "modified" \in notices[p]
    /\ notices' = [notices EXCEPT ![p] = @ \ {"modified"}]
    /\ IF Loadable
       THEN Reload(p) /\ memory' = [memory EXCEPT ![p] = Effective(Created)]
       ELSE UNCHANGED <<settings, memory, excused>>
    /\ UNCHANGED <<call, watch, changes>>

(* mutant: a file that was replaced is watched again, but not loaded.         *)
RemovedRewatchOnly(p) ==
    /\ AtRest(p) /\ notices[p] = {"removed"}
    /\ notices' = [notices EXCEPT ![p] = {}]
    /\ Continue(p, [call[p] EXCEPT !.step = "rewatch", !.current = memory[p]])
    /\ UNCHANGED <<settings, memory, watch, changes, excused>>

(* EventKind::Remove(RemoveKind::File): the file is loaded, and watched again *)
(* before it is in force; if it does not load the new one is never watched.   *)
Removed(p) ==
    /\ AtRest(p) /\ notices[p] = {"removed"}
    /\ notices' = [notices EXCEPT ![p] = {}]
    /\ IF Loadable
       THEN /\ Reload(p)
            /\ Continue(p, [call[p] EXCEPT !.step = "rewatch", !.current = Effective(Created)])
       ELSE /\ excused' = [excused EXCEPT ![p] = @ \cup {"blind"}]
            /\ UNCHANGED <<settings, call>>
    /\ UNCHANGED <<memory, watch, changes>>

(* A file that is gone by now cannot be watched, which ends the thread.       *)
Rewatch(p) ==
    /\ call[p].step = "rewatch"
    /\ IF settings = NoFile THEN UNCHANGED <<memory, watch>>
       ELSE /\ watch' = [watch EXCEPT ![p] = "on"]
            /\ memory' = [memory EXCEPT ![p] = call[p].current]
    /\ Finish(p)
    /\ UNCHANGED <<settings, notices, changes, excused>>

SettingsNext ==
    \/ Edit
    \/ \E p \in Process :
         \/ \E k \in Key : \E v \in Value[k] : Update(p, k, v)
         \/ LoadCurrent(p) \/ ReadFile(p) \/ WriteSettings(p) \/ SaveFails(p)
         \/ StartWatching(p) \/ Modified(p) \/ Removed(p) \/ Rewatch(p)

SettingsSpec == SettingsInit /\ [][SettingsNext]_settingsVars

-----------------------------------------------------------------------------
(* A process that has handled its events has the settings of the file, unless *)
(* it could not load or save them, or the file was changed while the watcher  *)
(* was not watching it.                                                       *)
MemoryFollowsFile == \A p \in Process :
    AtRest(p) /\ notices[p] = {} /\ excused[p] = {} /\ Readable => memory[p] = Effective(settings)

(* An update that found in the file what the process had in memory, and whose *)
(* file nobody wrote since it was read, changes the setting it was asked to,  *)
(* and no other, not even one that another process has changed meanwhile.     *)
Exact(p) ==
    LET c == call[p] IN
    c.before = c.current /\ c.custom = settings =>
        \A k \in Key :
            IF k = c.key THEN c.current[k] # memory[p][k] => settings'[k] = Stored(memory[p][k])
                         ELSE settings'[k] = settings[k]
UpdatesAreExact == [][\A p \in Process : WriteSettings(p) => Exact(p)]_settingsVars
=============================================================================
