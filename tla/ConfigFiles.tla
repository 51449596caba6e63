----------------------------- MODULE ConfigFiles -----------------------------
(***************************************************************************)
(* Who reads and writes config.toml: the editor (tui/app.rs), calibrate,   *)
(* calibrate-cameras and setup (crates/facegate_cli/src/commands), and the *)
(* daemons that read it when they start.                                   *)
(*                                                                         *)
(* A command reads the file once and writes its copy back, changed, maybe  *)
(* much later.  A write truncates the file and then fills it; calibrate,   *)
(* calibrate-cameras and setup first copy the file to config.toml.bak, and *)
(* do not validate what they write; the editor validates and makes no      *)
(* copy.  After a write both daemons are restarted.  The menu, the editor  *)
(* and the daemons take the defaults if the file does not load.            *)
(*                                                                         *)
(* Of the settings the cameras and one threshold are kept: the rest is     *)
(* copied along by all writers.  Its validation is in AuthFlow.            *)
(***************************************************************************)
EXTENDS Naturals

CONSTANTS
  Cameras,    \* device paths
  Blank,      \* an empty name of a device
  Procs,      \* facegate processes
  InitialFiles, \* what config.toml may be at first
  MaxWrites,  \* bound: writes begun, and edits
  Torn,       \* a file that is truncated, or does not load for another reason
  None

\* What a field or an option may name.
Names == Cameras \cup {Blank}

\* homography: the identity, or one that was measured.  aligned:
\* allow_identity_homography.  threshold: that of a scope, or what calibrate
\* measured.
Settings == [rgb : Names, ir : Names \cup {None}, cross : BOOLEAN,
             homography : {"identity", "measured"}, aligned : BOOLEAN,
             threshold : {"usual", "measured"}]

ASSUME ConfigAssumption ==
  /\ MaxWrites \in Nat
  /\ None \notin Settings \cup Names \cup {Torn} /\ Torn \notin Settings
  /\ Blank \notin Cameras
  /\ "video0" \in Cameras

\* Config::default.
Default == [rgb |-> "video0", ir |-> None, cross |-> FALSE, homography |-> "identity",
            aligned |-> FALSE, threshold |-> "usual"]

\* validate.
Valid(c) ==
  /\ c.rgb # Blank /\ c.ir # Blank
  /\ c.ir # c.rgb
  /\ c.cross => c.ir # None /\ (c.homography = "identity" => c.aligned)

ASSUME InitialAssumption ==
  /\ InitialFiles \subseteq Settings \cup {Torn}
  /\ \A c \in InitialFiles \ {Torn} : Valid(c)

VARIABLES
  file,    \* config.toml
  backup,  \* config.toml.bak, or None
  broker,  \* what the broker runs with, or None if it is down
  watch,   \* what the watch daemon runs with, or None
  proc,    \* proc[p]: what process p is doing
  writes,  \* writes begun, and edits
  mishap   \* history: a command ended between its write and the restarts, a
           \* daemon was left as it was, or somebody edited the file by hand

vars == <<file, backup, broker, watch, proc, writes, mishap>>

\* op: the command; config: its copy; new: what it is about to write; then:
\* the step after its restarts; alone (history): nobody else has written since
\* it began its backup.
Free == [op |-> "none", at |-> "free", config |-> None, new |-> None, then |-> "free",
         alone |-> TRUE]

Loadable(c) == c # Torn /\ Valid(c)

\* Slip: whatever is there is taken.
AsItIs(c) == c

\* What does not load is replaced by the defaults.
OrDefault(c) == IF Loadable(c) THEN c ELSE Default

Init ==
  /\ file \in InitialFiles
  /\ backup = None
  /\ broker = None
  /\ watch = None
  /\ proc = [p \in Procs |-> Free]
  /\ writes = 0
  /\ mishap = FALSE

At(p, step) == proc[p].at = step
Storing == {"backup", "backingUp", "open", "writing"}
Busy(p) == proc[p].at \in Storing \cup {"broker", "watch"}

-----------------------------------------------------------------------------
(* Commands begin: load_config under the policy of the command. *)

Files == <<file, backup, broker, watch, writes, mishap>>

\* facegate, or facegate configure.
StartMenu(p, at) ==
  /\ At(p, "free")
  /\ at \in {"menu", "editing"}
  /\ proc' = [proc EXCEPT ![p] = [Free EXCEPT !.op = "editor", !.at = at,
                                              !.config = OrDefault(file)]]
  /\ UNCHANGED Files

\* A command that ends at once if the file does not load.
StartStrict(p, op) ==
  /\ At(p, "free")
  /\ op \in {"calibrate", "calibrate_cameras", "setup"}
  /\ Loadable(file)
  /\ proc' = [proc EXCEPT ![p] = [Free EXCEPT !.op = op, !.at = "asking",
                                              !.config = file]]
  /\ UNCHANGED Files

\* Configure in the menu edits the copy the menu has.
Configure(p) ==
  /\ At(p, "menu")
  /\ proc' = [proc EXCEPT ![p].at = "editing"]
  /\ UNCHANGED Files

\* Back reads the file anew for the menu.
Back(p) ==
  /\ At(p, "editing")
  /\ proc' = [proc EXCEPT ![p].at = "menu", ![p].config = OrDefault(file)]
  /\ UNCHANGED Files

\* Quit, an answer of no, or an error before anything is written.
Leave(p) ==
  /\ proc[p].at \in {"menu", "editing", "asking"}
  /\ proc' = [proc EXCEPT ![p] = Free]
  /\ UNCHANGED Files

-----------------------------------------------------------------------------
(* What is to be written. *)

Disturbed(q) == [proc[q] EXCEPT !.alone = @ /\ ~Busy(q)]

\* Something is to be stored, with its backup first or without.
Store(p, new, at, then) ==
  /\ writes < MaxWrites
  /\ writes' = writes + 1
  /\ proc' = [q \in Procs |->
       IF q = p THEN [proc[p] EXCEPT !.new = new, !.at = at, !.then = then,
                                     !.config = IF then = "editing" THEN @ ELSE None,
                                     !.alone = \A r \in Procs \ {p} : ~Busy(r)]
       ELSE Disturbed(q)]
  /\ UNCHANGED <<file, backup, broker, watch, mishap>>

\* Bound: a save changes the cameras or their cross-check, two saves both.
Drafts(c) ==
  {d \in Settings : \/ d = [c EXCEPT !.rgb = d.rgb, !.ir = d.ir]
                    \/ d = [c EXCEPT !.cross = d.cross, !.aligned = d.aligned]}

\* save in the editor: its fields, empty ones too, replace those of the copy,
\* homography and scope thresholds are kept; what is not valid is not written.
Save(p, new) ==
  /\ At(p, "editing")
  /\ Valid(new)
  /\ Store(p, new, "open", "editing")

\* calibrate: the recommended threshold for one scope.
Calibrate(p) ==
  /\ At(p, "asking")
  /\ proc[p].op = "calibrate"
  /\ Store(p, [proc[p].config EXCEPT !.threshold = "measured"], "backup", "free")

\* calibrate-cameras: the devices are those of the copy unless others are named.
\* The IR camera named is opened, next to the RGB camera of the copy, whatever
\* is named for that: the name written need not be that of a camera.
CalibrateCameras(p, rgb, ir, enable) ==
  /\ At(p, "asking")
  /\ proc[p].op = "calibrate_cameras"
  /\ ir # rgb /\ ir # proc[p].config.rgb
  /\ Store(p, [proc[p].config EXCEPT !.rgb = rgb, !.ir = ir, !.homography = "measured",
                                     !.cross = @ \/ enable], "backup", "free")

\* Slip: cross-check stays on.
SetupKeepsCross(p, rgb, ir, wanted) ==
  /\ At(p, "asking")
  /\ proc[p].op = "setup"
  /\ rgb # ir
  /\ wanted => ir # None
  /\ Store(p, [proc[p].config EXCEPT !.rgb = rgb, !.ir = IF wanted THEN ir ELSE None],
           "backup", IF wanted THEN "calibrating" ELSE "free")

\* setup: the cameras found; without IR, or if it is not wanted, it is dropped.
\* Cross-check is off until calibrated, if the file had an IR camera or has now.
Setup(p, rgb, ir, wanted) ==
  /\ At(p, "asking")
  /\ proc[p].op = "setup"
  /\ rgb # ir
  /\ wanted => ir # None
  /\ Store(p, [proc[p].config EXCEPT !.rgb = rgb, !.ir = IF wanted THEN ir ELSE None,
                                     !.cross = FALSE],
           "backup", IF wanted THEN "calibrating" ELSE "free")

\* setup goes on with calibrate-cameras --write --enable, or not.
SetupCalibrates(p) ==
  /\ At(p, "calibrating")
  /\ \/ Store(p, [proc[p].config EXCEPT !.homography = "measured", !.cross = TRUE],
              "backup", "free")
     \/ /\ proc' = [proc EXCEPT ![p] = Free]
        /\ UNCHANGED Files

-----------------------------------------------------------------------------
(* Storing. *)

\* Slip: a backup that is there is kept.
KeepsFirstBackup(p) ==
  /\ At(p, "backup")
  /\ IF backup # None
     THEN proc' = [proc EXCEPT ![p].at = "open"] /\ UNCHANGED backup
     ELSE proc' = [proc EXCEPT ![p].at = "backingUp"] /\ backup' = Torn
  /\ UNCHANGED <<file, broker, watch, writes, mishap>>

\* backup_config copies the file; the copy is truncated first.
OpenBackup(p) ==
  /\ At(p, "backup")
  /\ backup' = Torn
  /\ proc' = [proc EXCEPT ![p].at = "backingUp"]
  /\ UNCHANGED <<file, broker, watch, writes, mishap>>

FillBackup(p) ==
  /\ At(p, "backingUp")
  /\ backup' = file
  /\ proc' = [proc EXCEPT ![p].at = "open"]
  /\ UNCHANGED <<file, broker, watch, writes, mishap>>

\* fs::write truncates the file and then fills it.
OpenFile(p) ==
  /\ At(p, "open")
  /\ file' = Torn
  /\ proc' = [proc EXCEPT ![p].at = "writing"]
  /\ UNCHANGED <<backup, broker, watch, writes, mishap>>

\* Slip: the daemons are left alone.
FillOnly(p) ==
  /\ At(p, "writing")
  /\ file' = proc[p].new
  /\ proc' = [proc EXCEPT ![p].at = proc[p].then, ![p].new = None,
         ![p].config = IF proc[p].then = "free" THEN None ELSE proc[p].new]
  /\ UNCHANGED <<backup, broker, watch, writes, mishap>>

FillFile(p) ==
  /\ At(p, "writing")
  /\ file' = proc[p].new
  /\ proc' = [proc EXCEPT ![p].at = "broker", ![p].new = None,
         ![p].config = IF proc[p].then = "free" THEN None ELSE proc[p].new]
  /\ UNCHANGED <<backup, broker, watch, writes, mishap>>

\* restart_broker_if_available: a restart or a start, which may fail.
RefreshBroker(p) ==
  /\ At(p, "broker")
  /\ \/ broker' = OrDefault(file) /\ UNCHANGED mishap
     \/ mishap' = TRUE /\ UNCHANGED broker
  /\ proc' = [proc EXCEPT ![p].at = "watch"]
  /\ UNCHANGED <<file, backup, watch, writes>>

\* restart_if_active: if it is running; the restart fails or is not tried if the
\* user who called sudo is not known.
RefreshWatch(p) ==
  /\ At(p, "watch")
  /\ \/ watch' = (IF watch = None THEN None ELSE OrDefault(file)) /\ UNCHANGED mishap
     \/ mishap' = TRUE /\ watch # None /\ UNCHANGED watch
  /\ proc' = [proc EXCEPT ![p] = IF @.then = "free" THEN Free
                                 ELSE [@ EXCEPT !.at = proc[p].then, !.then = "free"]]
  /\ UNCHANGED <<file, backup, broker, writes>>

\* An error ends a command, and leaves the editor where it was; or the process dies.
Fail(p) ==
  /\ Busy(p)
  /\ mishap' = (mishap \/ proc[p].at \notin {"backup", "backingUp", "open"})
  /\ \/ proc' = [proc EXCEPT ![p] = Free]
     \/ /\ proc[p].op = "editor" /\ At(p, "writing")
        /\ proc' = [proc EXCEPT ![p] = [@ EXCEPT !.at = "editing", !.new = None]]
  /\ UNCHANGED <<file, backup, broker, watch, writes>>

-----------------------------------------------------------------------------
(* Daemons, and hands. *)

\* The broker is started, anew if it was running.
BrokerStarts == /\ broker' = OrDefault(file)
                /\ UNCHANGED <<file, backup, watch, proc, writes, mishap>>

\* The watch daemon is enabled or disabled, or starts and stops with its session.
WatchToggles == /\ watch' = IF watch = None THEN OrDefault(file) ELSE None
                /\ UNCHANGED <<file, backup, broker, proc, writes, mishap>>

\* An administrator edits the file, restores the backup, or breaks it.
Edit ==
  /\ writes < MaxWrites
  /\ writes' = writes + 1
  /\ file' \in {backup, Torn} \ {None}
  /\ mishap' = TRUE
  /\ proc' = [p \in Procs |-> Disturbed(p)]
  /\ UNCHANGED <<backup, broker, watch>>

Choose(p) ==
  \/ \E at \in {"menu", "editing"} : StartMenu(p, at)
  \/ \E op \in {"calibrate", "calibrate_cameras", "setup"} : StartStrict(p, op)
  \/ Configure(p) \/ Back(p) \/ Leave(p)
  \/ Calibrate(p) \/ SetupCalibrates(p)
  \/ /\ At(p, "editing")
     /\ \E new \in Drafts(proc[p].config) : Save(p, new)
  \/ \E rgb \in Names, ir \in Cameras, yes \in BOOLEAN : CalibrateCameras(p, rgb, ir, yes)
  \/ \E rgb \in Cameras, ir \in Cameras \cup {None}, yes \in BOOLEAN : Setup(p, rgb, ir, yes)

Carry(p) ==
  \/ OpenBackup(p) \/ FillBackup(p) \/ OpenFile(p) \/ FillFile(p)
  \/ RefreshBroker(p) \/ RefreshWatch(p) \/ Fail(p)

Next == (\E p \in Procs : Choose(p) \/ Carry(p)) \/ BrokerStarts \/ WatchToggles \/ Edit

Spec == Init /\ [][Next]_vars

-----------------------------------------------------------------------------
(* Properties. *)

Commands == {"none", "editor", "calibrate", "calibrate_cameras", "setup"}
Steps    == Storing \cup {"free", "menu", "editing", "asking", "calibrating", "broker", "watch"}
Process  == [op : Commands, at : Steps, config : Settings \cup {None},
             new : Settings \cup {None}, then : {"free", "editing", "calibrating"},
             alone : BOOLEAN]

TypeOK ==
  /\ file \in Settings \cup {Torn}
  /\ backup \in Settings \cup {Torn, None}
  /\ broker \in Settings \cup {None}
  /\ watch \in Settings \cup {None}
  /\ writes \in 0 .. MaxWrites
  /\ mishap \in BOOLEAN
  /\ proc \in [Procs -> Process]
  /\ \A p \in Procs : proc[p].new # None <=> proc[p].at \in Storing

\* Settings that do not load only because calibrate-cameras, which measured
\* their homography, was given an empty name for the RGB camera.
Unnamed(c) == c.rgb = Blank /\ c.ir \in Cameras /\ c.homography = "measured"

\* Whatever writes the file whole writes settings that load, although only the
\* editor validates (calibrate_cameras.rs:168, setup.rs:113), with the one
\* exception of calibrate-cameras with an empty --rgb-device; and no command or
\* daemon works with settings that do not.
SavedConfigsLoad ==
  /\ file # Torn => Valid(file) \/ Unnamed(file)
  /\ \A p \in Procs : proc[p].config # None => Valid(proc[p].config)
  /\ \A c \in {broker, watch} \ {None} : Valid(c)

\* When no command is amid its work, the daemons run with the settings in the
\* file: each command restarts them after its own write (services.rs:33), so the
\* last one does, however they overlap, and a start amid a write is put right.
DaemonsCurrent ==
  (\A p \in Procs : ~Busy(p)) /\ ~mishap =>
    /\ broker \in {None, OrDefault(file)}
    /\ watch \in {None, OrDefault(file)}

\* calibrate, calibrate-cameras and setup truncate the file only when the backup
\* is a whole copy of it (setup.rs:112), as long as nobody else writes.
WholeBackup ==
  [][\A p \in Procs : OpenFile(p) /\ proc[p].op # "editor" /\ proc[p].alone => backup = file]_vars

-----------------------------------------------------------------------------
(* Inductive strengthening of the properties, for the proofs. *)

\* What is on disk or to be restored loads, but for an empty name; what the
\* daemons run with does.
FilesLoad ==
  /\ \A c \in {file, backup} \ {Torn, None} : Valid(c) \/ Unnamed(c)
  /\ \A c \in {broker, watch} \ {None} : Valid(c)

\* A process in state r has the copy its next steps use; what it has is valid, and
\* what it will write but for an empty name, which no later step of its reads;
\* and there is an IR camera when setup is to calibrate.
WritesValid(r) ==
  /\ r.config # None => Valid(r.config)
  /\ r.new # None => Valid(r.new) \/ (Unnamed(r.new) /\ r.then = "free")
  /\ r.at \in {"menu", "editing"} \/ r.then = "editing" => r.op = "editor"
  /\ r.at = "calibrating" \/ r.then = "calibrating" => r.op # "editor"
  /\ r.at \in {"menu", "editing", "asking", "calibrating"} => r.config # None
  /\ r.at \in Storing /\ r.op = "editor" => r.config # None
  /\ r.at \in {"broker", "watch"} /\ r.then # "free" => r.config # None
  /\ r.at = "calibrating" => r.config.ir # None
  /\ r.then = "calibrating" => /\ r.at \in Storing => r.new.ir # None
                               /\ r.at \in {"broker", "watch"} => r.config.ir # None

\* Daemons that run with other settings will be restarted by somebody.
RestartsDue ==
  ~mishap =>
    /\ broker \notin {None, OrDefault(file)} =>
         \E p \in Procs : proc[p].at \in {"writing", "broker"}
    /\ watch \notin {None, OrDefault(file)} =>
         \E p \in Procs : proc[p].at \in {"writing", "broker", "watch"}

\* A process that works alone is the only one amid its work, and its backup is
\* that of the file.
AloneInv ==
  \A p \in Procs : Busy(p) /\ proc[p].alone =>
    /\ \A q \in Procs \ {p} : ~Busy(q)
    /\ At(p, "open") /\ proc[p].op # "editor" => backup = file

ConfigInv ==
  TypeOK /\ FilesLoad /\ (\A p \in Procs : WritesValid(proc[p])) /\ RestartsDue /\ AloneInv

=============================================================================
