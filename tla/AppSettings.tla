------------------------------ MODULE AppSettings ------------------------------
(***************************************************************************)
(* settings.rs, migrate_config.rs and their commands: the application's own      *)
(* settings.  A start renames the directories of the old brand name, then loads    *)
(* settings.json and writes it back, falling back to another directory and then     *)
(* to memory alone.  An update keeps the write lock while it saves, and save takes   *)
(* the read lock of the same RwLock (parking_lot, not reentrant): the first update    *)
(* or reset never returns, and every later settings command waits for it.              *)
(***************************************************************************)
EXTENDS Naturals, Sequences

CONSTANTS SettingsClient,
          DefaultSettings,   \* field -> value
          EarlierSettings,   \* settings an earlier run may have left in settings.json
          SettingsUpdate,    \* the fields a command gives: partial functions
          MaxSettingsCalls, MaxSettingsTrouble

ASSUME SettingsAssumption == MaxSettingsCalls \in Nat /\ MaxSettingsTrouble \in Nat

VARIABLES dirs,    \* <<name, kind>> of the directories that exist
          stored,  \* directory -> its settings.json: Json(settings), Absent or Torn
          prefs,   \* the settings in memory
          writer,  \* holder of the write lock, or Nobody
          task,    \* Main and the clients: [pc, i]
          settingsCalls, settingsTrouble,
          earlier, \* history: the settings in force before the first start
          refused, \* history: a rename or a directory of the home failed
          cut      \* history: a save failed or was cut off in the middle

settingsVars == <<dirs, stored, prefs, writer, task, settingsCalls, settingsTrouble, earlier, refused, cut>>

Main == "main"
Nobody == "nobody"
ASSUME SettingsClientAssumption == Main \notin SettingsClient /\ Nobody \notin SettingsClient
Absent == [text |-> "absent", of |-> DefaultSettings]
Torn == [text |-> "torn", of |-> DefaultSettings]
Json(s) == [text |-> "json", of |-> s]
Kinds == <<"config", "data", "cache">>
SettingsDirs == <<"diaspor", "fallback">>
TaskAt(c, pc) == task[c].pc = pc
TaskTo(c, pc, i) == task' = [task EXCEPT ![c] = [pc |-> pc, i |-> i]]
SettingsMishap == settingsTrouble < MaxSettingsTrouble /\ settingsTrouble' = settingsTrouble + 1

\* A file that does not parse counts as none.
Parsed(f) == f.of

\* run(): the migration comes before anything looks at the settings.
\* Mutant of start_run: the settings are looked at first.
start_run_unmigrated ==
    /\ TaskAt(Main, "off") /\ TaskTo(Main, "load", 1)
    /\ UNCHANGED <<dirs, stored, prefs, writer, settingsCalls, settingsTrouble, earlier, refused, cut>>
start_run == /\ TaskAt(Main, "off") /\ TaskTo(Main, "migrate", 1)
             /\ UNCHANGED <<dirs, stored, prefs, writer, settingsCalls, settingsTrouble, earlier, refused, cut>>

\* One directory of the old name; the new one, when it exists, is left alone.
MigrationDone(i) == IF i = Len(Kinds) THEN TaskTo(Main, "load", 1) ELSE TaskTo(Main, "migrate", i + 1)
migrate_ursly_to_diaspor ==
    /\ TaskAt(Main, "migrate")
    /\ LET i == task[Main].i
           from == <<"ursly", Kinds[i]>>
           to == <<"diaspor", Kinds[i]>>
       IN  /\ MigrationDone(i)
           /\ \/ (from \notin dirs \/ to \in dirs) /\ UNCHANGED <<dirs, stored, settingsTrouble, refused>>
              \/ /\ from \in dirs /\ to \notin dirs /\ UNCHANGED <<settingsTrouble, refused>>
                 /\ dirs' = (dirs \ {from}) \cup {to}
                 /\ stored' = IF Kinds[i] # "data" THEN stored
                              ELSE [stored EXCEPT !["diaspor"] = stored["ursly"], !["ursly"] = Absent]
              \/ /\ from \in dirs /\ to \notin dirs /\ SettingsMishap /\ refused' = TRUE
                 /\ UNCHANGED <<dirs, stored>>
    /\ UNCHANGED <<prefs, writer, settingsCalls, earlier, cut>>

\* SettingsManager::new on the i-th directory; after the last there is only memory.
new == /\ TaskAt(Main, "load")
       /\ LET i == task[Main].i
          IN  IF i > Len(SettingsDirs)
              THEN prefs' = DefaultSettings /\ TaskTo(Main, "up", i) /\ UNCHANGED dirs
              ELSE /\ dirs' = IF i = 1 THEN dirs \cup {<<"diaspor", "data">>} ELSE dirs
                   /\ prefs' = Parsed(stored[SettingsDirs[i]]) /\ TaskTo(Main, "save", i)
       /\ UNCHANGED <<stored, writer, settingsCalls, settingsTrouble, earlier, refused, cut>>
\* The directory cannot be made or the file cannot be read.
NewFails ==
    /\ TaskAt(Main, "load") /\ task[Main].i <= Len(SettingsDirs) /\ SettingsMishap
    /\ TaskTo(Main, "load", task[Main].i + 1) /\ refused' = TRUE
    /\ UNCHANGED <<dirs, stored, prefs, writer, settingsCalls, earlier, cut>>

\* save() waits for the read lock, whoever holds the write lock; then std::fs::write
\* empties the file and fills it.
save_prefs(c) == /\ TaskAt(c, "save") /\ writer = Nobody /\ TaskTo(c, "open", task[c].i)
                 /\ UNCHANGED <<dirs, stored, prefs, writer, settingsCalls, settingsTrouble, earlier, refused, cut>>
File(c) == SettingsDirs[task[c].i]
OpenSettings(c) ==
    /\ TaskAt(c, "open") /\ stored' = [stored EXCEPT ![File(c)] = Torn] /\ TaskTo(c, "write", task[c].i)
    /\ UNCHANGED <<dirs, prefs, writer, settingsCalls, settingsTrouble, earlier, refused, cut>>
WriteSettings(c) ==
    /\ TaskAt(c, "write") /\ stored' = [stored EXCEPT ![File(c)] = Json(prefs)]
    /\ TaskTo(c, IF c = Main THEN "up" ELSE "idle", task[c].i)
    /\ UNCHANGED <<dirs, prefs, writer, settingsCalls, settingsTrouble, earlier, refused, cut>>
FirstSaveFails ==
    /\ task[Main].pc \in {"open", "write"} /\ SettingsMishap /\ TaskTo(Main, "load", task[Main].i + 1)
    /\ cut' = TRUE /\ UNCHANGED <<dirs, stored, prefs, writer, settingsCalls, earlier, refused>>

Call(c) == /\ TaskAt(Main, "up") /\ TaskAt(c, "idle") /\ writer = Nobody
           /\ settingsCalls < MaxSettingsCalls /\ settingsCalls' = settingsCalls + 1
get_settings(c) ==
    /\ Call(c) /\ UNCHANGED <<dirs, stored, prefs, writer, task, settingsTrouble, earlier, refused, cut>>
\* The fields that are given replace those in memory, under the write lock.
Applied(old, given) == [f \in DOMAIN old |-> IF f \in DOMAIN given THEN given[f] ELSE old[f]]
ChangeSettings(c, new_settings) ==
    /\ Call(c) /\ writer' = c /\ prefs' = new_settings /\ TaskTo(c, "save", task[Main].i)
    /\ UNCHANGED <<dirs, stored, settingsTrouble, earlier, refused, cut>>
update_settings(c) == \E given \in SettingsUpdate : ChangeSettings(c, Applied(prefs, given))
reset_settings(c) == ChangeSettings(c, DefaultSettings)

\* The application stops, in the middle of anything.
StopSettings ==
    /\ ~TaskAt(Main, "off") /\ SettingsMishap
    /\ task' = [c \in DOMAIN task |-> [pc |-> IF c = Main THEN "off" ELSE "idle", i |-> 1]]
    /\ writer' = Nobody /\ prefs' = DefaultSettings /\ cut' = (cut \/ \E c \in DOMAIN task : TaskAt(c, "write"))
    /\ UNCHANGED <<dirs, stored, settingsCalls, earlier, refused>>

\* A first installation, one of the old brand name, one of this one, or both.
SettingsInit ==
    /\ \E ds \in {{}, {"ursly"}, {"diaspor"}, {"ursly", "diaspor"}} :
         /\ dirs = ds \X {"config", "data", "cache"}
         /\ stored \in [{"ursly", "diaspor", "fallback"} -> {Json(s) : s \in EarlierSettings} \cup {Absent}]
         /\ stored["fallback"] = Absent /\ \A d \in {"ursly", "diaspor"} : stored[d] # Absent => d \in ds
         /\ earlier = Parsed(stored[IF "diaspor" \in ds THEN "diaspor" ELSE "ursly"])
    /\ prefs = DefaultSettings /\ writer = Nobody
    /\ task = [c \in SettingsClient \cup {Main} |-> [pc |-> IF c = Main THEN "off" ELSE "idle", i |-> 1]]
    /\ settingsCalls = 0 /\ settingsTrouble = 0 /\ refused = FALSE /\ cut = FALSE
SettingsNext == \/ start_run \/ migrate_ursly_to_diaspor \/ new \/ NewFails \/ FirstSaveFails \/ StopSettings
                \/ \E c \in SettingsClient \cup {Main} : save_prefs(c) \/ OpenSettings(c) \/ WriteSettings(c)
                \/ \E c \in SettingsClient : get_settings(c) \/ update_settings(c) \/ reset_settings(c)
SettingsSpec == SettingsInit /\ [][SettingsNext]_settingsVars

-----------------------------------------------------------------------------
(* Unless a save was cut off, no start loses settings, however many there are      *)
(* and wherever they were interrupted: those of the earlier installation are in      *)
(* one of the two directories, and, when no rename or directory failed either, are    *)
(* the ones a command is answered (the order run() in lib.rs insists on).  And         *)
(* whatever went wrong, what a command is answered is what the file holds that the      *)
(* next start reads, if there is one: an update is never seen before it is saved.        *)
SettingsKept ==
    LET answering == TaskAt(Main, "up") /\ writer = Nobody
        i == task[Main].i
        saving == \E c \in DOMAIN task : TaskAt(c, "write")
    IN  /\ ~cut /\ ~saving => \E d \in {"ursly", "diaspor"} : Parsed(stored[d]) = earlier
        /\ answering /\ ~cut /\ ~refused => prefs = earlier
        /\ answering /\ i <= Len(SettingsDirs) => Json(prefs) = stored[SettingsDirs[i]]
=============================================================================
