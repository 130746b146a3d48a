------------------------------ MODULE Settings ------------------------------
(* The settings files: config.yaml (config.py) and ui-prefs.json (UiPrefsStore *)
(* and `dictate config`), and the entry that starts Dictate at sign-in         *)
(* (startup.py).  Every change is a read of the whole file, which may fail,    *)
(* and a later write of the whole file, which empties it first; the tray, the  *)
(* requests of the window and `dictate config` do that without a lock.         *)
EXTENDS Integers, Sequences, FiniteSets

CONSTANTS Https,        \* request threads of the engine
          Clis,         \* `dictate config` processes
          MaxSets,      \* bound on the changes made
                  MaxFaults,    \* bound on crashes and failed reads and writes
          Stale         \* a backend this build does not ship

ASSUME BoundsAssumption == MaxSets \in Nat /\ MaxFaults \in Nat

Tray == "tray"          \* the main thread of the engine
Engine == Https \cup {Tray}
Actors == Engine \cup Clis
Files == {"config", "prefs"}
\* "device" stands for the retired settings, "stt" for a setting that is set
\* whatever it was; 0 is a key that is not there.
Keys == [config |-> {"stt", "hotwords", "device"}, prefs |-> {"theme"}]
Values == 0..(MaxSets + 1) \cup {Stale}
Entries == [there : BOOLEAN, on : BOOLEAN, icon : {"old", "new", "none"}]
NoEntry == [there |-> FALSE, on |-> FALSE, icon |-> "new"]
Installed == [there |-> TRUE, on |-> TRUE, icon |-> "new"]
Emptied == [Installed EXCEPT !.icon = "none"]   \* nothing in it says it is off
Nothing(f) == [k \in Keys[f] |-> 0]

VARIABLES
  file,         \* [Files -> contents]; empty while it is written
  entry,        \* the entry that starts Dictate at sign-in
  open,         \* actors that have opened that very file and will write it
  marker,       \* .desktop-integrated
  up,           \* the engine runs
  pc, todo, data,       \* of an actor: step, operations to do, what it will save
  seen,         \* the entry as the engine read it
  sets, faults,
  want,         \* ghost: what was last chosen for a key
  late,         \* ghost: actors that do not go by what their file holds: another
                \* wrote it since they read it, or they could not read it
  excused,      \* ghost: files that lost something in a known way
  wish, entryExcused    \* ghost: the same for the start entry

files == <<file, entry, open, marker>>
job == <<pc, todo, data, seen>>
ghost == <<want, late, excused, wish, entryExcused>>
vars == <<files, up, job, sets, faults, ghost>>

Set(f, k, v) == [op |-> "set", f |-> f, k |-> k, to |-> v]
Rewrite == Set("config", "stt", 0)
Load == [Rewrite EXCEPT !.op = "load"]
LoadUi == [Rewrite EXCEPT !.op = "load ui"]
Startup(on) == [Rewrite EXCEPT !.op = "startup", !.to = on]
Integrate == [Rewrite EXCEPT !.op = "integrate"]

Init ==
  /\ \E stt \in {1, Stale} :
       file = [f \in Files |-> [k \in Keys[f] |-> IF k = "stt" THEN stt ELSE 1]]
  /\ entry \in {NoEntry, [Installed EXCEPT !.icon = "old"]} /\ marker = entry.there
  /\ open = {} /\ up = FALSE
  /\ pc = [a \in Actors |-> "idle"] /\ todo = [a \in Actors |-> <<>>]
  /\ data = [a \in Actors |-> Nothing("config")] /\ seen = NoEntry
  /\ sets = 0 /\ faults = 0
  /\ want = file /\ late = {} /\ excused = {} /\ wish = "any" /\ entryExcused = FALSE

Go(a, l) == pc' = [pc EXCEPT ![a] = l]
Now(a) == Head(todo[a])
Ready(a, op) == pc[a] = "idle" /\ todo[a] # <<>> /\ Now(a).op = op
Next1(a) == todo' = [todo EXCEPT ![a] = Tail(@)]
Fault == faults < MaxFaults /\ faults' = faults + 1
Enabled == entry.there /\ entry.on

-----------------------------------------------------------------------------
(* Who asks for what.                                                         *)

\* patch_config: up to two parts of one request, in this order, then the new
\* state; the hotwords requests; the state alone.
Parts(v) ==
  LET stt == Set("config", "stt", v)  theme == Set("prefs", "theme", v)
      one == {<<>>, <<stt>>, <<theme>>}
  IN one \cup {<<stt, theme>>} \cup {p \o <<Startup(on)>> : p \in one, on \in {0, 1}}
Patches(v) == {p \o <<LoadUi>> : p \in Parts(v)}
Requests(v) == Patches(v) \cup {<<Set("config", "hotwords", v), Load>>}

\* `dictate config`: set-model reads the backend first.
Subcommands(v) == {<<Load, Set("config", "stt", v)>>, <<Set("config", "hotwords", v), Load>>,
                   <<Set("prefs", "theme", v)>>, <<Startup(0)>>, <<Startup(1)>>}

\* The older switches, --add-hotword and its like.
Switches(v) == {<<Set("config", "hotwords", v)>>}
Commands(v) == Subcommands(v) \cup Switches(v)

\* A new model or shortcut; the hotwords dialog, which reads the list first.
TrayWork(v) == {<<Set("config", "stt", v)>>, <<Load, Set("config", "hotwords", v)>>}

Changes(ops) == Cardinality({i \in DOMAIN ops : ops[i].op \in {"set", "startup"}})

Ask(a) ==
  /\ pc[a] = "idle" /\ todo[a] = <<>> /\ (a \in Engine => up)
  /\ \E ops \in IF a \in Clis THEN Commands(sets + 2)
                ELSE IF a = Tray THEN TrayWork(sets + 2) ELSE Requests(sets + 2) :
       /\ sets + Changes(ops) <= MaxSets /\ sets' = sets + Changes(ops)
       /\ todo' = [todo EXCEPT ![a] = ops]
  /\ UNCHANGED <<files, up, pc, data, seen, faults, ghost>>

\* The engine reads its settings and registers itself before anything else.
Start ==
  /\ ~up /\ up' = TRUE
  /\ todo' = [todo EXCEPT ![Tray] = <<Load, Integrate>>]
  /\ UNCHANGED <<files, pc, data, seen, sets, faults, ghost>>

\* A part of a request is refused (ApiError); the parts before it are done.
Refuse(a) ==
  /\ a \in Https /\ pc[a] = "idle" /\ todo[a] # <<>> /\ Now(a) # Rewrite
  /\ todo' = [todo EXCEPT ![a] = <<>>]
  /\ UNCHANGED <<files, up, pc, data, seen, sets, faults, ghost>>

-----------------------------------------------------------------------------
(* config.yaml and ui-prefs.json.                                             *)

\* migrate_saved_settings: retired settings go, in memory first.
Migrated(f, c) == IF f = "config" THEN [c EXCEPT !["device"] = 0] ELSE c

\* mutant: setters save the retired settings they read
RawAsIs(f, c) == c

\* _load_raw, UiPrefsStore.load: what a setter starts from.
Raw(f, c) == Migrated(f, c)

\* mutant: the rest of the file is not carried over
ChangedOnly(a, c) == [Nothing(Now(a).f) EXCEPT ![Now(a).k] = Now(a).to]

\* What a setter writes: the file as read, one key changed.
Changed(a, c) == [c EXCEPT ![Now(a).k] = Now(a).to]

\* An empty file reads as no settings.
ReadToSet(a) ==
  /\ Ready(a, "set")
  /\ data' = [data EXCEPT ![a] = Changed(a, Raw(Now(a).f, file[Now(a).f]))]
  /\ late' = IF Now(a) = Rewrite THEN late ELSE late \ {a}
  /\ Go(a, "save")
  /\ UNCHANGED <<files, up, todo, seen, sets, faults, want, excused, wish, entryExcused>>

\* The file cannot be read or makes no sense: a setter goes on from no settings
\* at all, load_config from the defaults.
ReadFails(a) ==
  /\ Fault
  /\ \/ /\ Ready(a, "set") /\ Go(a, "save")
        /\ data' = [data EXCEPT ![a] = Changed(a, Nothing(Now(a).f))]
        /\ late' = late \cup {a} /\ UNCHANGED todo
     \/ /\ Ready(a, "load") \/ Ready(a, "load ui")
        /\ Next1(a) /\ UNCHANGED <<pc, data, late>>
  /\ UNCHANGED <<files, up, seen, sets, want, excused, wish, entryExcused>>

\* A word that is already there is not added again: nothing is written.
NothingToSet(a) ==
  /\ Ready(a, "set") /\ Now(a).k = "hotwords" /\ Next1(a)
  /\ UNCHANGED <<files, up, pc, data, seen, sets, faults, ghost>>

\* _load_ui_config: a stale backend is then replaced by the default.
After(a, c) ==
  todo' = [todo EXCEPT ![a] =
    (IF Now(a).op = "load ui" /\ c["stt"] = Stale THEN <<Rewrite, Load>> ELSE <<>>) \o Tail(@)]

\* load_config: saved back if there was something to migrate.
ReadToLoad(a) ==
  /\ Ready(a, "load") \/ Ready(a, "load ui")
  /\ LET old == file["config"] IN
       IF Migrated("config", old) # old
         THEN /\ data' = [data EXCEPT ![a] = Migrated("config", old)]
              /\ Go(a, "save") /\ UNCHANGED todo
         ELSE After(a, old) /\ UNCHANGED <<pc, data>>
  /\ late' = late \ {a}
  /\ UNCHANGED <<files, up, seen, sets, faults, want, excused, wish, entryExcused>>

\* Who goes by an older reading of file f.
Relying(f) == {b \in Actors : todo[b] # <<>> /\ Now(b).f = f /\ (pc[b] # "idle" \/ Now(b) = Rewrite)}
Written(a, f) ==
  /\ excused' = IF a \in late THEN excused \cup {f} ELSE excused
  /\ late' = (late \cup Relying(f)) \ {a}

\* write_text opens the file and empties it ...
Truncate(a) ==
  /\ pc[a] = "save"
  /\ file' = [file EXCEPT ![Now(a).f] = Nothing(Now(a).f)]
  /\ Written(a, Now(a).f) /\ Go(a, "write")
  /\ UNCHANGED <<entry, open, marker, up, todo, data, seen, sets, faults, want, wish, entryExcused>>

\* What a change makes of the settings that were chosen before.
Chosen(a, c) ==
  [Migrated(Now(a).f, c) EXCEPT ![Now(a).k] = IF Now(a).op = "set" THEN Now(a).to ELSE @]

\* ... and writes what there is to write.
Fill(a) ==
  /\ pc[a] = "write"
  /\ file' = [file EXCEPT ![Now(a).f] = data[a]]
  /\ want' = [want EXCEPT ![Now(a).f] = Chosen(a, want[Now(a).f])]
  /\ Written(a, Now(a).f)
  /\ Go(a, "idle") /\ After(a, data[a])
  /\ data' = [data EXCEPT ![a] = Nothing("config")]
  /\ UNCHANGED <<entry, open, marker, up, seen, sets, faults, wish, entryExcused>>

\* The write fails: the file stays empty.  load_config goes on all the same.
WriteFails(a) ==
  /\ pc[a] = "write" /\ Fault
  /\ excused' = excused \cup {Now(a).f}
  /\ Go(a, "idle")
  /\ IF Now(a).op = "set" THEN todo' = [todo EXCEPT ![a] = <<>>] ELSE After(a, data[a])
  /\ data' = [data EXCEPT ![a] = Nothing("config")]
  /\ late' = late \ {a}
  /\ UNCHANGED <<files, up, seen, sets, want, wish, entryExcused>>

-----------------------------------------------------------------------------
(* The start entry: written like the settings, and removed by its name.       *)

\* set_startup_enabled.  Who still writes a removed entry writes into nothing.
SetStartup(a) ==
  /\ Ready(a, "startup")
  /\ IF Now(a).to = 1
       THEN entry' = Emptied /\ open' = open \cup {a} /\ Go(a, "install") /\ UNCHANGED todo
       ELSE entry' = NoEntry /\ open' = {} /\ Next1(a) /\ UNCHANGED pc
  /\ wish' = IF Now(a).to = 1 THEN "on" ELSE "off"
  /\ entryExcused' = FALSE
  /\ UNCHANGED <<file, marker, up, data, seen, sets, faults, want, late, excused>>

\* The user hides the entry with the tools of the desktop.
Hide ==
  /\ Enabled /\ sets < MaxSets /\ sets' = sets + 1
  /\ entry' = [entry EXCEPT !.on = FALSE] /\ wish' = "off" /\ entryExcused' = FALSE
  /\ UNCHANGED <<file, open, marker, up, job, faults, want, late, excused>>

\* mutant: at every start
InstallsAlways == TRUE

\* ensure_desktop_integration_once: the first run of the installed app.
Installs == ~marker

IntegrateFirst ==
  /\ Ready(Tray, "integrate") /\ Installs
  /\ entry' = Emptied /\ open' = open \cup {Tray}
  /\ entryExcused' = (entryExcused \/ (wish = "off" /\ ~marker))
  /\ Go(Tray, "install")
  /\ UNCHANGED <<file, marker, up, todo, data, seen, sets, faults, want, late, excused, wish>>

\* The entries cannot be written: no marker, the next start tries again.
IntegrateFails ==
  /\ Ready(Tray, "integrate") /\ Installs /\ Fault /\ Next1(Tray)
  /\ UNCHANGED <<files, up, pc, data, seen, sets, ghost>>

\* The marker is written afterwards; without it the next start does it again.
Mark(ok) ==
  /\ pc[Tray] = "mark"
  /\ IF ok THEN marker' = TRUE /\ UNCHANGED faults ELSE Fault /\ UNCHANGED marker
  /\ Go(Tray, "idle") /\ Next1(Tray)
  /\ UNCHANGED <<file, entry, open, up, data, seen, sets, ghost>>

\* _repair_linux_entry_icons: reads the entry, and writes it with a new icon.
RepairRead ==
  /\ Ready(Tray, "integrate") /\ ~Installs
  /\ IF entry.there /\ entry.icon = "old"
       THEN seen' = entry /\ Go(Tray, "repair") /\ UNCHANGED todo
       ELSE Next1(Tray) /\ UNCHANGED <<pc, seen>>
  /\ UNCHANGED <<files, up, data, sets, faults, ghost>>

RepairOpen ==
  /\ pc[Tray] = "repair" /\ Go(Tray, "mend")
  /\ entry' = Emptied /\ open' = open \cup {Tray}
  /\ entryExcused' = (entryExcused \/ entry # seen)
  /\ UNCHANGED <<file, marker, up, todo, data, seen, sets, faults, want, late, excused, wish>>

\* What the repair writes: only the icon is new.
Repaired == [seen EXCEPT !.icon = "new"]

\* What was opened is written, over whatever came there meanwhile.
EntryWrite(a) ==
  /\ pc[a] \in {"install", "mend"}
  /\ entry' = IF a \notin open THEN entry ELSE IF pc[a] = "mend" THEN Repaired ELSE Installed
  /\ entryExcused' = (entryExcused \/ (a \in open /\ entry # Emptied))
  /\ open' = open \ {a}
  /\ IF pc[a] = "install" /\ Now(a).op = "integrate"
       THEN Go(a, "mark") /\ UNCHANGED todo
       ELSE Go(a, "idle") /\ Next1(a)
  /\ UNCHANGED <<file, marker, up, data, seen, sets, faults, want, late, excused, wish>>

\* The write fails and the entry stays empty, or it cannot even be opened; the
\* start of the engine goes on all the same, without a marker for an entry.
EntryFails(a) ==
  /\ pc[a] \in {"install", "repair", "mend"} /\ Fault
  /\ entryExcused' = (entryExcused \/ pc[a] = "mend")
  /\ open' = open \ {a}
  /\ Go(a, "idle")
  /\ todo' = [todo EXCEPT ![a] = IF Now(a).op = "startup" THEN <<>> ELSE Tail(@)]
  /\ UNCHANGED <<file, entry, marker, up, data, seen, sets, want, late, excused, wish>>

-----------------------------------------------------------------------------
\* The engine, or a command, dies between any two steps.
Die(dead) ==
  /\ Fault
  /\ excused' = excused \cup {Now(a).f : a \in {b \in dead : pc[b] = "write"}}
  /\ pc' = [a \in Actors |-> IF a \in dead THEN "idle" ELSE pc[a]]
  /\ todo' = [a \in Actors |-> IF a \in dead THEN <<>> ELSE todo[a]]
  /\ data' = [a \in Actors |-> IF a \in dead THEN Nothing("config") ELSE data[a]]
  /\ up' = (up /\ dead # Engine)
  /\ late' = late \ dead /\ open' = open \ dead
  /\ entryExcused' = (entryExcused \/ (Tray \in dead /\ pc[Tray] = "mend"))
  /\ UNCHANGED <<file, entry, marker, seen, sets, want, wish>>

Crash == up /\ Die(Engine)
Kill(a) == todo[a] # <<>> /\ Die({a})

\* The engine ends, with nothing under way.
Exit ==
  /\ up /\ (\A a \in Engine : todo[a] = <<>>) /\ up' = FALSE
  /\ UNCHANGED <<files, job, sets, faults, ghost>>

Next ==
  \/ Start \/ Exit \/ Crash \/ Hide
  \/ IntegrateFirst \/ IntegrateFails \/ RepairRead \/ RepairOpen
  \/ \E ok \in BOOLEAN : Mark(ok)
  \/ \E a \in Clis : Kill(a)
  \/ \E a \in Actors :
       \/ Ask(a) \/ Refuse(a)
       \/ ReadToSet(a) \/ ReadFails(a) \/ NothingToSet(a) \/ ReadToLoad(a)
       \/ Truncate(a) \/ Fill(a) \/ WriteFails(a)
       \/ SetStartup(a) \/ EntryWrite(a) \/ EntryFails(a)

Spec == Init /\ [][Next]_vars

-----------------------------------------------------------------------------
Contents(f) == [Keys[f] -> Values]
Writing(f) == \E a \in Actors : pc[a] = "write" /\ Now(a).f = f

\* The shape of the state; an actor in the middle of an operation has it to do.
TypeOK ==
  /\ \A f \in Files : file[f] \in Contents(f) /\ want[f] \in Contents(f)
  /\ entry \in Entries /\ marker \in BOOLEAN /\ (entry.on => entry.there)
  /\ open \subseteq Actors
  /\ pc \in [Actors -> {"idle", "save", "write", "install", "mark", "repair", "mend"}]
  /\ \A a \in Actors : pc[a] # "idle" => todo[a] # <<>>
  /\ up \/ \A a \in Engine : todo[a] = <<>>
  /\ late \subseteq Actors /\ excused \subseteq Files /\ wish \in {"any", "on", "off"}

\* Each setting has the value that was chosen last, whoever changes another
\* one.  Excused: changes of one file that overlapped, a write that was cut off
\* after the file was emptied, and a setter that could not read the file and
\* wrote it all the same.
SettingsKept ==
  \A f \in Files : f \in excused \/ Writing(f) \/ file[f] = want[f]

\* Files of the right shape with the settings that were chosen.
FilesInv == TypeOK /\ SettingsKept

\* A retired setting that is gone does not come back, not even from a setter
\* that read the file before it went.
RetiredStaysAway ==
  [][want["config"]["device"] = 0 => file'["config"]["device"] = 0]_vars

\* Who switched the start at sign-in off is not overridden by a later start of
\* the engine.  Excused: a first start that never left its marker, a repair that
\* overlapped with a change of the entry or was cut off after it had emptied
\* the entry, and the moment between the two steps of its write.
DisabledStaysDisabled ==
  wish = "off" /\ ~entryExcused => ~Enabled \/ (entry = Emptied /\ pc[Tray] = "mend")
=============================================================================
