-------------------------- MODULE ConfigFilesProofs --------------------------
(***************************************************************************)
(* Proofs about ConfigFiles: any number of processes, any number of        *)
(* cameras and writes.                                                     *)
(*                                                                         *)
(* ConfigInv is inductive.  It says of each process that what it will      *)
(* write is valid but for an empty name of the RGB camera, and has the IR  *)
(* camera its calibration will need; of the daemons that they run with     *)
(* settings that load, and that somebody is going to restart those that    *)
(* are not current; and of a process that works alone that its backup is   *)
(* that of the file.                                                       *)
(***************************************************************************)
EXTENDS ConfigFiles, TLAPS

-----------------------------------------------------------------------------
(* Settings. *)

\* The defaults load.
LEMMA DefaultLoads == Default \in Settings /\ Valid(Default)
BY ConfigAssumption DEF Default, Settings, Names, Valid

\* What a daemon takes from the file always loads.
LEMMA TakesValid ==
  ASSUME NEW c \in Settings \cup {Torn}
  PROVE  OrDefault(c) \in Settings /\ Valid(OrDefault(c)) /\ OrDefault(c) # None
BY DefaultLoads, ConfigAssumption DEF OrDefault, Loadable

\* What is known of a process.
LEMMA Known ==
  ASSUME ConfigInv, NEW p \in Procs
  PROVE  /\ proc \in [Procs -> Process] /\ proc[p] \in Process /\ WritesValid(proc[p])
         /\ (proc[p].new # None <=> proc[p].at \in Storing)
         /\ file \in Settings \cup {Torn} /\ OrDefault(file) \in Settings
         /\ Valid(OrDefault(file)) /\ OrDefault(file) # None
BY TakesValid DEF ConfigInv, TypeOK

\* A process that is doing nothing.
LEMMA FreeProcess ==
  /\ Free \in Process /\ WritesValid(Free) /\ Free.at = "free" /\ Free.new = None
  /\ Free.config = None /\ Free.then = "free"
BY DEF Free, Process, WritesValid, Commands, Steps, Storing

\* Restarts that are due stay due as long as nobody who is to do them moves on.
LEMMA DueStays ==
  ASSUME RestartsDue, UNCHANGED <<file, broker, watch, mishap>>,
         \A q \in Procs : proc[q].at \in {"writing", "broker", "watch"} =>
                           proc'[q].at = proc[q].at
  PROVE  RestartsDue'
<1>1. OrDefault(file)' = OrDefault(file)
  BY DEF OrDefault, Loadable
<1>2. ASSUME ~mishap, broker \notin {None, OrDefault(file)}
      PROVE  \E q \in Procs : proc'[q].at \in {"writing", "broker"}
  BY <1>2 DEF RestartsDue
<1>3. ASSUME ~mishap, watch \notin {None, OrDefault(file)}
      PROVE  \E q \in Procs : proc'[q].at \in {"writing", "broker", "watch"}
  BY <1>3 DEF RestartsDue
<1>4. QED
  BY <1>1, <1>2, <1>3 DEF RestartsDue

-----------------------------------------------------------------------------
(* A process that is not amid its work. *)

Quiet == {"free", "menu", "editing", "asking", "calibrating"}

\* It changes nothing but its own state.
LEMMA Choosing ==
  ASSUME ConfigInv, NEW p \in Procs, ~Busy(p), NEW r \in Process, r.at \in Quiet,
         r.new = None, WritesValid(r), proc' = [proc EXCEPT ![p] = r], UNCHANGED Files
  PROVE  ConfigInv'
<1>1. /\ proc \in [Procs -> Process] /\ UNCHANGED <<file, backup, broker, watch, writes, mishap>>
      /\ TypeOK /\ FilesLoad /\ RestartsDue /\ AloneInv
  BY Known DEF Files, ConfigInv
<1>2. /\ proc' \in [Procs -> Process] /\ proc'[p] = r
      /\ \A q \in Procs : q # p => proc'[q] = proc[q]
  BY <1>1
<1>3. r.at \notin Storing \cup {"broker", "watch"}
  BY DEF Quiet, Storing
<1>4. TypeOK'
  BY <1>1, <1>2, <1>3 DEF TypeOK
<1>5. FilesLoad' /\ \A q \in Procs : WritesValid(proc[q])'
  BY <1>1, <1>2 DEF FilesLoad, ConfigInv, WritesValid
<1>6. RestartsDue'
  <2>1. \A q \in Procs : proc[q].at \in {"writing", "broker", "watch"} =>
                         proc'[q].at = proc[q].at
    BY <1>2 DEF Busy, Storing
  <2>2. QED
    BY <1>1, <2>1, DueStays
<1>7. \A q \in Procs : Busy(q)' => q # p /\ Busy(q)
  BY <1>2, <1>3 DEF Busy
<1>8. AloneInv'
  BY <1>1, <1>2, <1>7 DEF AloneInv, At
<1>9. QED
  BY <1>4, <1>5, <1>6, <1>8 DEF ConfigInv

\* It begins to store something valid, or something it will not use itself.
LEMMA Storings ==
  ASSUME ConfigInv, NEW p \in Procs, ~Busy(p), NEW new \in Settings,
         NEW at \in {"open", "backup"}, NEW then \in {"free", "editing", "calibrating"},
         Store(p, new, at, then),
         Valid(new) \/ (Unnamed(new) /\ then = "free"),
         proc[p].op = "editor" <=> then = "editing",
         then = "editing" => proc[p].config # None,
         at = "open" => then = "editing",
         then = "calibrating" => new.ir # None
  PROVE  ConfigInv'
<1> DEFINE sole == \A q \in Procs \ {p} : ~Busy(q)
           copy == IF then = "editing" THEN proc[p].config ELSE None
           r == [proc[p] EXCEPT !.new = new, !.at = at, !.then = then, !.config = copy,
                                !.alone = sole]
<1>1. /\ proc \in [Procs -> Process] /\ UNCHANGED <<file, backup, broker, watch, mishap>>
      /\ TypeOK /\ FilesLoad /\ RestartsDue /\ AloneInv
      /\ proc[p] \in Process /\ WritesValid(proc[p]) /\ new # None
  BY Known, ConfigAssumption DEF Store, ConfigInv
<1>2. proc' = [q \in Procs |-> IF q = p THEN r ELSE Disturbed(q)]
  BY <1>1 DEF Store
<1>3. copy \in Settings \cup {None} /\ (copy # None => Valid(copy))
  BY <1>1 DEF Process, WritesValid
<1>4. /\ r.at = at /\ r.new = new /\ r.then = then /\ r.config = copy
      /\ r.op = proc[p].op /\ (r.alone <=> sole)
  BY <1>1 DEF Process
<1>5. r \in Process
  <2>1. at \in Steps /\ sole \in BOOLEAN
    BY DEF Steps, Storing
  <2> HIDE DEF sole, copy
  <2>2. QED
    BY <1>1, <1>3, <2>1 DEF Process
<1>6. WritesValid(r)
  <2> HIDE DEF r, sole
  <2>1. QED
    BY <1>1, <1>3, <1>4 DEF WritesValid, Storing
<1>7. \A q \in Procs : q # p =>
        /\ Disturbed(q) \in Process /\ Disturbed(q).at = proc[q].at
        /\ Disturbed(q).new = proc[q].new /\ Disturbed(q).config = proc[q].config
        /\ Disturbed(q).op = proc[q].op /\ Disturbed(q).then = proc[q].then
        /\ Disturbed(q).alone => ~Busy(q)
  <2> SUFFICES ASSUME NEW q \in Procs
               PROVE  /\ Disturbed(q) \in Process /\ Disturbed(q).at = proc[q].at
                      /\ Disturbed(q).new = proc[q].new /\ Disturbed(q).config = proc[q].config
                      /\ Disturbed(q).op = proc[q].op /\ Disturbed(q).then = proc[q].then
                      /\ Disturbed(q).alone => ~Busy(q)
    OBVIOUS
  <2> DEFINE b == proc[q].alone /\ ~Busy(q)
  <2>1. proc[q] \in Process /\ b \in BOOLEAN
    BY <1>1
  <2>2. Disturbed(q) = [proc[q] EXCEPT !.alone = b]
    BY DEF Disturbed
  <2>3. b => ~Busy(q)
    OBVIOUS
  <2> HIDE DEF b
  <2>4. QED
    BY <2>1, <2>2, <2>3 DEF Process
<1>8. /\ proc'[p] = r /\ \A q \in Procs : q # p => proc'[q] = Disturbed(q)
      /\ proc' \in [Procs -> Process]
  <2> HIDE DEF r
  <2>1. QED
    BY <1>2, <1>5, <1>7
<1> HIDE DEF r
<1>9. writes' \in 0 .. MaxWrites
  <2>1. writes \in 0 .. MaxWrites /\ writes < MaxWrites /\ writes' = writes + 1
    BY DEF Store, ConfigInv, TypeOK
  <2>2. QED
    BY <2>1, ConfigAssumption
<1>10. TypeOK'
  BY <1>1, <1>4, <1>7, <1>8, <1>9 DEF TypeOK, Storing
<1>11. FilesLoad'
  BY <1>1 DEF FilesLoad
<1>12. \A q \in Procs : WritesValid(proc[q])'
  <2> SUFFICES ASSUME NEW q \in Procs PROVE WritesValid(proc[q])'
    OBVIOUS
  <2>1. CASE q = p
    BY <1>6, <1>8, <2>1 DEF WritesValid
  <2>2. CASE q # p
    <3>1. WritesValid(proc[q])
      BY DEF ConfigInv
    <3>2. QED
      BY <1>7, <1>8, <2>2, <3>1 DEF WritesValid
  <2>3. QED
    BY <2>1, <2>2
<1>13. RestartsDue'
  <2>1. \A q \in Procs : proc[q].at \in {"writing", "broker", "watch"} =>
                         proc'[q].at = proc[q].at
    BY <1>7, <1>8 DEF Busy, Storing
  <2>2. QED
    BY <1>1, <2>1, DueStays
<1>14. AloneInv'
  <2> SUFFICES ASSUME NEW q \in Procs, Busy(q)', proc'[q].alone
               PROVE  /\ \A t \in Procs \ {q} : ~Busy(t)'
                      /\ At(q, "open")' /\ proc'[q].op # "editor" => backup' = file'
    BY DEF AloneInv
  <2>1. q = p
    BY <1>7, <1>8 DEF Busy
  <2>2. \A t \in Procs \ {p} : ~Busy(t)'
    BY <1>4, <1>7, <1>8, <2>1 DEF Busy
  <2>3. At(p, "open")' => proc'[p].op = "editor"
    BY <1>4, <1>8 DEF At
  <2>4. QED
    BY <2>1, <2>2, <2>3
<1>15. QED
  BY <1>10, <1>11, <1>12, <1>13, <1>14 DEF ConfigInv

-----------------------------------------------------------------------------
(* What is chosen. *)

\* A command begins with settings that load, or does not begin.
LEMMA BeginsStep ==
  ASSUME ConfigInv, NEW p \in Procs,
         \/ \E at \in {"menu", "editing"} : StartMenu(p, at)
         \/ \E op \in {"calibrate", "calibrate_cameras", "setup"} : StartStrict(p, op)
  PROVE  ConfigInv'
<1>1. ~Busy(p) /\ Free.at = "free" /\ Free \in Process
  BY FreeProcess DEF StartMenu, StartStrict, At, Busy, Storing
<1>2. ASSUME NEW at \in {"menu", "editing"}, StartMenu(p, at)
      PROVE  ConfigInv'
  <2> DEFINE r == [Free EXCEPT !.op = "editor", !.at = at, !.config = OrDefault(file)]
  <2>1. proc' = [proc EXCEPT ![p] = r] /\ UNCHANGED Files
    BY <1>2 DEF StartMenu
  <2>2. OrDefault(file) \in Settings /\ Valid(OrDefault(file)) /\ OrDefault(file) # None
    BY Known
  <2>3. /\ r.op = "editor" /\ r.at = at /\ r.config = OrDefault(file) /\ r.new = None
        /\ r.then = "free"
    BY DEF Free
  <2>4. r \in Process
    BY <1>1, <2>2 DEF Process, Commands, Steps
  <2> HIDE DEF r
  <2>5. WritesValid(r) /\ r.at \in Quiet
    BY <2>2, <2>3 DEF WritesValid, Quiet, Storing
  <2>6. QED
    BY <1>1, <2>1, <2>3, <2>4, <2>5, Choosing
<1>3. ASSUME NEW op \in {"calibrate", "calibrate_cameras", "setup"}, StartStrict(p, op)
      PROVE  ConfigInv'
  <2> DEFINE r == [Free EXCEPT !.op = op, !.at = "asking", !.config = file]
  <2>1. proc' = [proc EXCEPT ![p] = r] /\ UNCHANGED Files
    BY <1>3 DEF StartStrict
  <2>2. file \in Settings /\ Valid(file) /\ file # None
    BY <1>3, Known, ConfigAssumption DEF StartStrict, Loadable
  <2>3. /\ r.op = op /\ r.at = "asking" /\ r.config = file /\ r.new = None
        /\ r.then = "free"
    BY DEF Free
  <2>4. r \in Process
    BY <1>1, <2>2 DEF Process, Commands, Steps
  <2> HIDE DEF r
  <2>5. WritesValid(r) /\ r.at \in Quiet
    BY <2>2, <2>3 DEF WritesValid, Quiet, Storing
  <2>6. QED
    BY <1>1, <2>1, <2>3, <2>4, <2>5, Choosing
<1>4. QED
  BY <1>2, <1>3

\* What is not saved is forgotten.
LEMMA QuietStep ==
  ASSUME ConfigInv, NEW p \in Procs, Configure(p) \/ Back(p) \/ Leave(p)
  PROVE  ConfigInv'
<1>1. /\ proc \in [Procs -> Process] /\ proc[p] \in Process /\ WritesValid(proc[p])
      /\ (proc[p].new # None <=> proc[p].at \in Storing)
      /\ OrDefault(file) \in Settings /\ Valid(OrDefault(file)) /\ OrDefault(file) # None
  BY Known
<1>2. ASSUME Configure(p)
      PROVE  ConfigInv'
  <2> DEFINE r == [proc[p] EXCEPT !.at = "editing"]
  <2>1. /\ proc' = [proc EXCEPT ![p] = r] /\ UNCHANGED Files /\ proc[p].at = "menu"
    BY <1>1, <1>2 DEF Configure, At
  <2>2. /\ r.op = proc[p].op /\ r.at = "editing" /\ r.config = proc[p].config
        /\ r.new = proc[p].new /\ r.then = proc[p].then
    BY <1>1 DEF Process
  <2>3. r \in Process
    BY <1>1 DEF Process, Steps
  <2> HIDE DEF r
  <2>4. ~Busy(p) /\ r.new = None /\ r.at \in Quiet
    BY <1>1, <2>1, <2>2 DEF Busy, Storing, Quiet
  <2>5. WritesValid(r)
    BY <1>1, <2>1, <2>2 DEF WritesValid, Storing
  <2>6. QED
    BY <2>1, <2>3, <2>4, <2>5, Choosing
<1>3. ASSUME Back(p)
      PROVE  ConfigInv'
  <2> DEFINE r == [proc[p] EXCEPT !.at = "menu", !.config = OrDefault(file)]
  <2>1. /\ proc' = [proc EXCEPT ![p] = r] /\ UNCHANGED Files /\ proc[p].at = "editing"
    BY <1>1, <1>3 DEF Back, At
  <2>2. /\ r.op = proc[p].op /\ r.at = "menu" /\ r.config = OrDefault(file)
        /\ r.new = proc[p].new /\ r.then = proc[p].then
    BY <1>1 DEF Process
  <2>3. r \in Process
    BY <1>1 DEF Process, Steps
  <2> HIDE DEF r
  <2>4. ~Busy(p) /\ r.new = None /\ r.at \in Quiet
    BY <1>1, <2>1, <2>2 DEF Busy, Storing, Quiet
  <2>5. WritesValid(r)
    BY <1>1, <2>1, <2>2 DEF WritesValid, Storing
  <2>6. QED
    BY <2>1, <2>3, <2>4, <2>5, Choosing
<1>4. ASSUME Leave(p)
      PROVE  ConfigInv'
  <2>1. ~Busy(p) /\ proc' = [proc EXCEPT ![p] = Free] /\ UNCHANGED Files
    BY <1>4 DEF Leave, Busy, Storing
  <2>2. QED
    BY <2>1, FreeProcess, Choosing DEF Quiet
<1>5. QED
  BY <1>2, <1>3, <1>4

\* What calibrating adds to valid settings leaves them valid.
LEMMA Calibrated ==
  ASSUME NEW c \in Settings, Valid(c)
  PROVE  /\ LET d == [c EXCEPT !.threshold = "measured"] IN d \in Settings /\ Valid(d)
         /\ c.ir # None =>
              LET d == [c EXCEPT !.homography = "measured", !.cross = TRUE]
              IN  d \in Settings /\ Valid(d)
BY ConfigAssumption DEF Settings, Valid

\* Two cameras and a homography of theirs are valid, with cross-check or without,
\* unless the RGB camera has no name.
LEMMA CamerasCalibrated ==
  ASSUME NEW c \in Settings, NEW rgb \in Names, NEW ir \in Cameras, rgb # ir,
         NEW on \in BOOLEAN
  PROVE  LET d == [c EXCEPT !.rgb = rgb, !.ir = ir, !.homography = "measured", !.cross = on]
         IN  d \in Settings /\ (Valid(d) \/ Unnamed(d))
BY ConfigAssumption DEF Settings, Names, Valid, Unnamed

\* Without cross-check any two different cameras are valid.
LEMMA CamerasFound ==
  ASSUME NEW c \in Settings, NEW rgb \in Cameras, NEW ir \in Cameras \cup {None}, rgb # ir
  PROVE  LET d == [c EXCEPT !.rgb = rgb, !.ir = ir, !.cross = FALSE]
         IN  d \in Settings /\ Valid(d) /\ d.ir = ir
BY ConfigAssumption DEF Settings, Names, Valid

\* The editor stores what it has validated.
LEMMA SaveStep ==
  ASSUME ConfigInv, NEW p \in Procs, At(p, "editing"),
         NEW new \in Drafts(proc[p].config), Save(p, new)
  PROVE  ConfigInv'
<1>1. /\ proc[p] \in Process /\ WritesValid(proc[p])
      /\ proc[p].at = "editing"
  BY Known DEF At
<1>2. proc[p].config # None /\ proc[p].op = "editor" /\ proc[p].config \in Settings
  BY <1>1 DEF WritesValid, Process
<1>3. new \in Settings /\ Valid(new) /\ Store(p, new, "open", "editing") /\ ~Busy(p)
  BY <1>1, <1>2 DEF Save, Drafts, Busy, Storing
<1>4. QED
  BY <1>2, <1>3, Storings

\* A threshold leaves valid settings valid.
LEMMA CalibrateStep ==
  ASSUME ConfigInv, NEW p \in Procs,
         Calibrate(p)
  PROVE  ConfigInv'
<1> DEFINE new == [proc[p].config EXCEPT !.threshold = "measured"]
<1>1. /\ proc[p] \in Process /\ WritesValid(proc[p])
      /\ proc[p].at = "asking" /\ proc[p].op = "calibrate" /\ Store(p, new, "backup", "free")
  BY Known DEF At, Calibrate
<1>2. proc[p].config # None /\ proc[p].config \in Settings /\ Valid(proc[p].config) /\ ~Busy(p)
  BY <1>1 DEF WritesValid, Process, Busy, Storing
<1>3. new \in Settings /\ Valid(new)
  BY <1>2, Calibrated
<1> HIDE DEF new
<1>4. QED
  BY <1>1, <1>2, <1>3, Storings

\* Two cameras that were calibrated are valid, unless the first has no name.
LEMMA CalibrateCamerasStep ==
  ASSUME ConfigInv, NEW p \in Procs, NEW rgb \in Names, NEW ir \in Cameras,
         NEW enable \in BOOLEAN, CalibrateCameras(p, rgb, ir, enable)
  PROVE  ConfigInv'
<1> DEFINE on == proc[p].config.cross \/ enable
           new == [proc[p].config EXCEPT !.rgb = rgb, !.ir = ir, !.homography = "measured",
                                         !.cross = on]
<1>1. /\ proc[p] \in Process /\ WritesValid(proc[p])
      /\ proc[p].at = "asking" /\ proc[p].op = "calibrate_cameras" /\ rgb # ir
  BY Known DEF At, CalibrateCameras
<1>2. proc[p].config # None /\ proc[p].config \in Settings /\ ~Busy(p)
  BY <1>1 DEF WritesValid, Process, Busy, Storing
<1>3. Store(p, new, "backup", "free")
  BY <1>2 DEF CalibrateCameras, Settings
<1>4. on \in BOOLEAN
  OBVIOUS
<1> HIDE DEF on
<1>5. new \in Settings /\ (Valid(new) \/ Unnamed(new))
  BY <1>1, <1>2, <1>4, CamerasCalibrated
<1> HIDE DEF new
<1>6. QED
  BY <1>1, <1>2, <1>3, <1>5, Storings

\* What setup found is valid before its calibration.
LEMMA SetupStep ==
  ASSUME ConfigInv, NEW p \in Procs, NEW rgb \in Cameras, NEW ir \in Cameras \cup {None},
         NEW wanted \in BOOLEAN, Setup(p, rgb, ir, wanted)
  PROVE  ConfigInv'
<1> DEFINE kept == IF wanted THEN ir ELSE None
           then == IF wanted THEN "calibrating" ELSE "free"
           new == [proc[p].config EXCEPT !.rgb = rgb, !.ir = kept, !.cross = FALSE]
<1>1. /\ proc[p] \in Process /\ WritesValid(proc[p])
      /\ proc[p].at = "asking" /\ proc[p].op = "setup" /\ rgb # ir
      /\ wanted => ir # None
      /\ Store(p, new, "backup", then)
  BY Known DEF At, Setup
<1>2. proc[p].config # None /\ proc[p].config \in Settings /\ ~Busy(p)
  BY <1>1 DEF WritesValid, Process, Busy, Storing
<1>3. /\ kept \in Cameras \cup {None} /\ rgb # kept
      /\ then \in {"free", "calibrating"} /\ (then = "calibrating" => kept # None)
  BY <1>1, ConfigAssumption DEF Names
<1> HIDE DEF kept, then
<1>4. new \in Settings /\ Valid(new) /\ new.ir = kept
  BY <1>2, <1>3, CamerasFound
<1> HIDE DEF new
<1>5. QED
  BY <1>1, <1>2, <1>3, <1>4, Storings

\* The calibration of setup has the IR camera it needs.
LEMMA SetupCalibratesStep ==
  ASSUME ConfigInv, NEW p \in Procs, SetupCalibrates(p)
  PROVE  ConfigInv'
<1> DEFINE new == [proc[p].config EXCEPT !.homography = "measured", !.cross = TRUE]
<1>1. /\ proc[p] \in Process /\ WritesValid(proc[p]) /\ proc[p].at = "calibrating"
  BY Known DEF At, SetupCalibrates
<1>2. /\ proc[p].config # None /\ proc[p].config \in Settings /\ Valid(proc[p].config)
      /\ proc[p].config.ir # None /\ ~Busy(p)
  BY <1>1 DEF WritesValid, Process, Busy, Storing
<1>3. new \in Settings /\ Valid(new)
  BY <1>2, Calibrated
<1>4. CASE Store(p, new, "backup", "free")
  <2> HIDE DEF new
  <2>1. proc[p].op # "editor"
    BY <1>1 DEF WritesValid
  <2>2. QED
    BY <1>2, <1>3, <1>4, <2>1, Storings
<1>5. CASE proc' = [proc EXCEPT ![p] = Free] /\ UNCHANGED Files
  BY <1>2, <1>5, FreeProcess, Choosing DEF Quiet
<1>6. QED
  BY <1>4, <1>5 DEF SetupCalibrates

-----------------------------------------------------------------------------
(* What is carried out. *)

\* A process amid its work goes on to state r; what that does to the files and
\* to the restarts that are due is shown for each step.
LEMMA Carrying ==
  ASSUME ConfigInv, NEW p \in Procs, Busy(p), NEW r \in Process,
         proc' = [proc EXCEPT ![p] = r],
         r.new # None <=> r.at \in Storing, WritesValid(r),
         r.at \in Storing \cup {"broker", "watch"} /\ r.alone => proc[p].alone,
         r.at = "open" /\ r.op # "editor" /\ r.alone => backup' = file',
         file' \in Settings \cup {Torn}, backup' \in Settings \cup {Torn, None},
         broker' \in Settings \cup {None}, watch' \in Settings \cup {None},
         mishap' \in BOOLEAN, UNCHANGED writes,
         FilesLoad', RestartsDue'
  PROVE  ConfigInv'
<1>1. proc \in [Procs -> Process] /\ TypeOK /\ AloneInv
  BY Known DEF ConfigInv
<1>2. /\ proc' \in [Procs -> Process] /\ proc'[p] = r
      /\ \A q \in Procs : q # p => proc'[q] = proc[q]
  BY <1>1
<1>3. TypeOK'
  BY <1>1, <1>2 DEF TypeOK
<1>4. \A q \in Procs : WritesValid(proc[q])'
  BY <1>2 DEF ConfigInv, WritesValid
<1>5. AloneInv'
  <2> SUFFICES ASSUME NEW q \in Procs, Busy(q)', proc'[q].alone
               PROVE  /\ \A t \in Procs \ {q} : ~Busy(t)'
                      /\ At(q, "open")' /\ proc'[q].op # "editor" => backup' = file'
    BY DEF AloneInv
  <2>1. CASE q = p
    <3>1. proc[p].alone
      BY <1>2, <2>1 DEF Busy
    <3>2. \A t \in Procs \ {p} : ~Busy(t)'
      BY <1>1, <1>2, <3>1 DEF AloneInv, Busy
    <3>3. At(p, "open")' /\ proc'[p].op # "editor" => backup' = file'
      BY <1>2, <2>1 DEF At
    <3>4. QED
      BY <2>1, <3>2, <3>3
  <2>2. CASE q # p
    <3>1. Busy(q) /\ proc[q].alone
      BY <1>2, <2>2 DEF Busy
    <3>2. QED
      BY <1>1, <2>2, <3>1 DEF AloneInv
  <2>3. QED
    BY <2>1, <2>2
<1>6. QED
  BY <1>3, <1>4, <1>5 DEF ConfigInv

\* Before the file is truncated.
LEMMA BackupStep ==
  ASSUME ConfigInv, NEW p \in Procs, OpenBackup(p) \/ FillBackup(p)
  PROVE  ConfigInv'
<1>1. /\ proc \in [Procs -> Process] /\ proc[p] \in Process /\ WritesValid(proc[p])
      /\ (proc[p].new # None <=> proc[p].at \in Storing)
      /\ TypeOK /\ FilesLoad /\ RestartsDue
  BY Known DEF ConfigInv
<1>2. PICK at \in {"backingUp", "open"} :
        /\ proc' = [proc EXCEPT ![p].at = at]
        /\ proc[p].at \in {"backup", "backingUp"} /\ backup' \in {Torn, file}
        /\ at = "open" => backup' = file
        /\ UNCHANGED <<file, broker, watch, writes, mishap>>
  BY DEF OpenBackup, FillBackup, At
<1> DEFINE r == [proc[p] EXCEPT !.at = at]
<1>3. /\ r.op = proc[p].op /\ r.at = at /\ r.config = proc[p].config /\ r.new = proc[p].new
      /\ r.then = proc[p].then /\ r.alone = proc[p].alone
  BY <1>1 DEF Process
<1>4. r \in Process
  BY <1>1 DEF Process, Steps, Storing
<1>5. proc' = [proc EXCEPT ![p] = r]
  BY <1>1, <1>2
<1> HIDE DEF r
<1>6. Busy(p) /\ (r.new # None <=> r.at \in Storing)
  BY <1>1, <1>2, <1>3 DEF Busy, Storing
<1>7. WritesValid(r)
  BY <1>1, <1>2, <1>3 DEF WritesValid, Storing
<1>8. FilesLoad'
  BY <1>1, <1>2 DEF FilesLoad
<1>9. RestartsDue'
  <2>1. \A q \in Procs : proc[q].at \in {"writing", "broker", "watch"} =>
                         proc'[q].at = proc[q].at
    BY <1>1, <1>2
  <2>2. QED
    BY <1>1, <1>2, <2>1, DueStays
<1>10. /\ file' \in Settings \cup {Torn} /\ backup' \in Settings \cup {Torn, None}
       /\ broker' \in Settings \cup {None} /\ watch' \in Settings \cup {None}
       /\ mishap' \in BOOLEAN /\ writes' = writes
  BY <1>1, <1>2 DEF TypeOK
<1>11. /\ r.at \in Storing \cup {"broker", "watch"} /\ r.alone => proc[p].alone
       /\ r.at = "open" /\ r.op # "editor" /\ r.alone => backup' = file'
  BY <1>2, <1>3
<1>12. QED
  BY <1>4, <1>5, <1>6, <1>7, <1>8, <1>9, <1>10, <1>11, Carrying

\* The file is truncated: restarts are due to whoever fills it.
LEMMA OpenFileStep ==
  ASSUME ConfigInv, NEW p \in Procs, OpenFile(p)
  PROVE  ConfigInv'
<1>1. /\ proc \in [Procs -> Process] /\ proc[p] \in Process /\ WritesValid(proc[p])
      /\ (proc[p].new # None <=> proc[p].at \in Storing)
      /\ TypeOK /\ FilesLoad
  BY Known DEF ConfigInv
<1> DEFINE r == [proc[p] EXCEPT !.at = "writing"]
<1>2. /\ proc[p].at = "open" /\ file' = Torn /\ proc' = [proc EXCEPT ![p] = r]
      /\ UNCHANGED <<backup, broker, watch, writes, mishap>>
  BY <1>1 DEF OpenFile, At
<1>3. /\ r.op = proc[p].op /\ r.at = "writing" /\ r.config = proc[p].config
      /\ r.new = proc[p].new /\ r.then = proc[p].then /\ r.alone = proc[p].alone
  BY <1>1 DEF Process
<1>4. r \in Process
  BY <1>1 DEF Process, Steps, Storing
<1> HIDE DEF r
<1>5. Busy(p) /\ (r.new # None <=> r.at \in Storing)
  BY <1>1, <1>2, <1>3 DEF Busy, Storing
<1>6. WritesValid(r)
  BY <1>1, <1>2, <1>3 DEF WritesValid, Storing
<1>7. FilesLoad'
  BY <1>1, <1>2 DEF FilesLoad
<1>8. RestartsDue'
  <2>1. proc'[p].at = "writing"
    BY <1>1, <1>2, <1>3, <1>4
  <2>2. QED
    BY <2>1 DEF RestartsDue
<1>9. /\ file' \in Settings \cup {Torn} /\ backup' \in Settings \cup {Torn, None}
      /\ broker' \in Settings \cup {None} /\ watch' \in Settings \cup {None}
      /\ mishap' \in BOOLEAN /\ writes' = writes
  BY <1>1, <1>2 DEF TypeOK
<1>10. QED
  BY <1>2, <1>3, <1>4, <1>5, <1>6, <1>7, <1>8, <1>9, Carrying

\* The file is whole again.
LEMMA FillFileStep ==
  ASSUME ConfigInv, NEW p \in Procs, FillFile(p)
  PROVE  ConfigInv'
<1>1. /\ proc \in [Procs -> Process] /\ proc[p] \in Process /\ WritesValid(proc[p])
      /\ (proc[p].new # None <=> proc[p].at \in Storing)
      /\ TypeOK /\ FilesLoad
  BY Known DEF ConfigInv
<1> DEFINE copy == IF proc[p].then = "free" THEN None ELSE proc[p].new
           r == [proc[p] EXCEPT !.at = "broker", !.new = None, !.config = copy]
<1>2. /\ proc[p].at = "writing" /\ file' = proc[p].new /\ proc' = [proc EXCEPT ![p] = r]
      /\ UNCHANGED <<backup, broker, watch, writes, mishap>>
  BY <1>1 DEF FillFile, At
<1>3. /\ proc[p].new # None /\ proc[p].new \in Settings /\ copy \in Settings \cup {None}
      /\ Valid(proc[p].new) \/ (Unnamed(proc[p].new) /\ proc[p].then = "free")
  BY <1>1, <1>2 DEF Storing, WritesValid, Process
<1>4. /\ r.op = proc[p].op /\ r.at = "broker" /\ r.config = copy
      /\ r.new = None /\ r.then = proc[p].then /\ r.alone = proc[p].alone
  BY <1>1 DEF Process
<1>5. r \in Process
  <2> HIDE DEF copy
  <2>1. QED
    BY <1>1, <1>3 DEF Process, Steps, Storing
<1> HIDE DEF r
<1>6. Busy(p) /\ (r.new # None <=> r.at \in Storing)
  BY <1>1, <1>2, <1>4 DEF Busy, Storing
<1>7. WritesValid(r)
  BY <1>1, <1>2, <1>3, <1>4 DEF WritesValid, Storing
<1>8. FilesLoad'
  BY <1>1, <1>2, <1>3 DEF FilesLoad
<1>9. RestartsDue'
  <2>1. proc'[p].at = "broker"
    BY <1>1, <1>2, <1>4, <1>5
  <2>2. QED
    BY <2>1 DEF RestartsDue
<1>10. /\ file' \in Settings \cup {Torn} /\ backup' \in Settings \cup {Torn, None}
       /\ broker' \in Settings \cup {None} /\ watch' \in Settings \cup {None}
       /\ mishap' \in BOOLEAN /\ writes' = writes
  BY <1>1, <1>2, <1>3 DEF TypeOK
<1>11. r.at \notin Storing /\ r.at # "open"
  BY <1>4 DEF Storing
<1>12. QED
  BY <1>2, <1>4, <1>5, <1>6, <1>7, <1>8, <1>9, <1>10, <1>11, Carrying

\* The broker is current, or somebody is to restart it, or there was a mishap.
LEMMA RefreshBrokerStep ==
  ASSUME ConfigInv, NEW p \in Procs, RefreshBroker(p)
  PROVE  ConfigInv'
<1>1. /\ proc \in [Procs -> Process] /\ proc[p] \in Process /\ WritesValid(proc[p])
      /\ (proc[p].new # None <=> proc[p].at \in Storing)
      /\ TypeOK /\ FilesLoad /\ RestartsDue
      /\ OrDefault(file) \in Settings /\ Valid(OrDefault(file))
  BY Known DEF ConfigInv
<1> DEFINE r == [proc[p] EXCEPT !.at = "watch"]
<1>2. /\ proc[p].at = "broker" /\ proc' = [proc EXCEPT ![p] = r]
      /\ UNCHANGED <<file, backup, watch, writes>>
      /\ \/ broker' = OrDefault(file) /\ UNCHANGED mishap
         \/ mishap' = TRUE /\ UNCHANGED broker
  BY <1>1 DEF RefreshBroker, At
<1>3. /\ r.op = proc[p].op /\ r.at = "watch" /\ r.config = proc[p].config
      /\ r.new = proc[p].new /\ r.then = proc[p].then /\ r.alone = proc[p].alone
  BY <1>1 DEF Process
<1>4. r \in Process
  BY <1>1 DEF Process, Steps, Storing
<1>5. /\ proc'[p] = r /\ \A q \in Procs : q # p => proc'[q] = proc[q]
  BY <1>1, <1>2, <1>4
<1> HIDE DEF r
<1>6. Busy(p) /\ (r.new # None <=> r.at \in Storing)
  BY <1>1, <1>2, <1>3 DEF Busy, Storing
<1>7. WritesValid(r)
  BY <1>1, <1>2, <1>3 DEF WritesValid, Storing
<1>8. FilesLoad'
  BY <1>1, <1>2 DEF FilesLoad
<1>9. OrDefault(file)' = OrDefault(file)
  BY <1>2 DEF OrDefault, Loadable
<1>10. RestartsDue'
  <2>1. proc'[p].at = "watch"
    BY <1>3, <1>5
  <2>2. ~mishap' => broker' = OrDefault(file)
    BY <1>2
  <2>3. QED
    BY <1>9, <2>1, <2>2 DEF RestartsDue
<1>11. /\ file' \in Settings \cup {Torn} /\ backup' \in Settings \cup {Torn, None}
       /\ broker' \in Settings \cup {None} /\ watch' \in Settings \cup {None}
       /\ mishap' \in BOOLEAN /\ writes' = writes
  BY <1>1, <1>2 DEF TypeOK
<1>12. r.at \notin Storing /\ r.at # "open"
  BY <1>3 DEF Storing
<1>13. QED
  BY <1>2, <1>3, <1>4, <1>6, <1>7, <1>8, <1>10, <1>11, <1>12, Carrying

\* So is the watch daemon.
LEMMA RefreshWatchStep ==
  ASSUME ConfigInv, NEW p \in Procs, RefreshWatch(p)
  PROVE  ConfigInv'
<1>1. /\ proc \in [Procs -> Process] /\ proc[p] \in Process /\ WritesValid(proc[p])
      /\ (proc[p].new # None <=> proc[p].at \in Storing)
      /\ TypeOK /\ FilesLoad /\ RestartsDue
      /\ OrDefault(file) \in Settings /\ Valid(OrDefault(file))
  BY Known DEF ConfigInv
<1> DEFINE r == IF proc[p].then = "free" THEN Free
                ELSE [proc[p] EXCEPT !.at = proc[p].then, !.then = "free"]
<1>2. /\ proc[p].at = "watch" /\ proc' = [proc EXCEPT ![p] = r]
      /\ UNCHANGED <<file, backup, broker, writes>>
      /\ \/ watch' = (IF watch = None THEN None ELSE OrDefault(file)) /\ UNCHANGED mishap
         \/ mishap' = TRUE /\ watch # None /\ UNCHANGED watch
  BY <1>1 DEF RefreshWatch, At
<1>3. /\ r \in Process /\ r.at \in Quiet /\ r.new = None /\ WritesValid(r)
  <2>1. CASE proc[p].then = "free"
    BY <2>1, FreeProcess DEF Quiet
  <2>2. CASE proc[p].then # "free"
    <3> DEFINE s == [proc[p] EXCEPT !.at = proc[p].then, !.then = "free"]
    <3>1. /\ s.op = proc[p].op /\ s.at = proc[p].then /\ s.config = proc[p].config
          /\ s.new = proc[p].new /\ s.then = "free"
      BY <1>1 DEF Process
    <3>2. proc[p].then \in {"editing", "calibrating"}
      BY <1>1, <2>2 DEF Process
    <3>3. s \in Process
      BY <1>1, <3>2 DEF Process, Steps
    <3> HIDE DEF s
    <3>4. WritesValid(s) /\ s.new = None /\ s.at \in Quiet
      BY <1>1, <1>2, <3>1, <3>2 DEF WritesValid, Storing, Quiet
    <3>5. r = s
      BY <2>2 DEF s
    <3>6. QED
      BY <3>3, <3>4, <3>5
  <2>3. QED
    BY <2>1, <2>2
<1> HIDE DEF r
<1>4. /\ proc'[p] = r /\ \A q \in Procs : q # p => proc'[q] = proc[q]
  BY <1>1, <1>2, <1>3
<1>5. Busy(p) /\ (r.new # None <=> r.at \in Storing)
  BY <1>2, <1>3 DEF Busy, Storing, Quiet
<1>6. FilesLoad'
  BY <1>1, <1>2 DEF FilesLoad
<1>7. OrDefault(file)' = OrDefault(file)
  BY <1>2 DEF OrDefault, Loadable
<1>8. RestartsDue'
  <2>1. \A q \in Procs : proc[q].at \in {"writing", "broker"} =>
                         proc'[q].at \in {"writing", "broker"}
    BY <1>2, <1>4
  <2>2. ~mishap' => ~mishap /\ watch' \in {None, OrDefault(file)}
    BY <1>2
  <2>3. ~mishap' /\ broker' \notin {None, OrDefault(file)} =>
          \E q \in Procs : proc[q].at \in {"writing", "broker"}
    BY <1>1, <1>2, <2>2 DEF RestartsDue
  <2>4. QED
    BY <1>7, <2>1, <2>2, <2>3 DEF RestartsDue
<1>9. /\ file' \in Settings \cup {Torn} /\ backup' \in Settings \cup {Torn, None}
       /\ broker' \in Settings \cup {None} /\ watch' \in Settings \cup {None}
       /\ mishap' \in BOOLEAN /\ writes' = writes
  BY <1>1, <1>2 DEF TypeOK
<1>10. r.at \notin Storing \cup {"broker", "watch"} /\ r.at # "open"
  BY <1>3 DEF Storing, Quiet
<1>11. QED
  BY <1>2, <1>3, <1>5, <1>6, <1>8, <1>9, <1>10, Carrying

\* A command that ends amid its work leaves restarts undone only as a mishap.
LEMMA FailStep ==
  ASSUME ConfigInv, NEW p \in Procs, Fail(p)
  PROVE  ConfigInv'
<1>1. /\ proc \in [Procs -> Process] /\ proc[p] \in Process /\ WritesValid(proc[p])
      /\ (proc[p].new # None <=> proc[p].at \in Storing)
      /\ TypeOK /\ FilesLoad /\ RestartsDue
  BY Known DEF ConfigInv
<1> DEFINE s == [proc[p] EXCEPT !.at = "editing", !.new = None]
<1>2. /\ Busy(p) /\ UNCHANGED <<file, backup, broker, watch, writes>>
      /\ mishap' = (mishap \/ proc[p].at \notin {"backup", "backingUp", "open"})
      /\ \/ proc' = [proc EXCEPT ![p] = Free]
         \/ proc[p].op = "editor" /\ proc[p].at = "writing" /\ proc' = [proc EXCEPT ![p] = s]
  BY DEF Fail, At
<1>3. ASSUME proc[p].op = "editor", proc[p].at = "writing"
      PROVE  s \in Process /\ s.at = "editing" /\ s.new = None /\ WritesValid(s)
  <2>1. /\ s.op = proc[p].op /\ s.at = "editing" /\ s.config = proc[p].config
        /\ s.new = None /\ s.then = proc[p].then
    BY <1>1 DEF Process
  <2>2. s \in Process
    BY <1>1 DEF Process, Steps
  <2> HIDE DEF s
  <2>3. WritesValid(s)
    BY <1>1, <1>3, <2>1 DEF WritesValid, Storing
  <2>4. QED
    BY <2>1, <2>2, <2>3
<1> HIDE DEF s
<1>4. PICK r \in Process : /\ proc' = [proc EXCEPT ![p] = r]
                           /\ r.at \in Quiet /\ r.new = None /\ WritesValid(r)
  BY <1>2, <1>3, FreeProcess DEF Quiet
<1>5. /\ proc'[p] = r /\ \A q \in Procs : q # p => proc'[q] = proc[q]
  BY <1>1, <1>4
<1>6. r.at \notin Storing \cup {"broker", "watch"} /\ r.at # "open"
  BY <1>4 DEF Storing, Quiet
<1>7. FilesLoad'
  BY <1>1, <1>2 DEF FilesLoad
<1>8. RestartsDue'
  <2>1. CASE mishap'
    BY <2>1 DEF RestartsDue
  <2>2. CASE ~mishap'
    <3>1. mishap' = mishap /\ proc[p].at \in {"backup", "backingUp", "open"}
      BY <1>1, <1>2, <2>2 DEF TypeOK
    <3>2. \A q \in Procs : proc[q].at \in {"writing", "broker", "watch"} =>
                           proc'[q].at = proc[q].at
      BY <1>5, <3>1
    <3>3. QED
      BY <1>1, <1>2, <3>1, <3>2, DueStays
  <2>3. QED
    BY <2>1, <2>2
<1>9. /\ file' \in Settings \cup {Torn} /\ backup' \in Settings \cup {Torn, None}
      /\ broker' \in Settings \cup {None} /\ watch' \in Settings \cup {None}
      /\ mishap' \in BOOLEAN /\ writes' = writes
  BY <1>1, <1>2 DEF TypeOK
<1>10. QED
  BY <1>2, <1>4, <1>6, <1>7, <1>8, <1>9, Carrying

-----------------------------------------------------------------------------
(* Daemons, and hands. *)

\* A daemon that starts takes what the file holds now.
LEMMA DaemonStep ==
  ASSUME ConfigInv, BrokerStarts \/ WatchToggles
  PROVE  ConfigInv'
<1>1. /\ TypeOK /\ FilesLoad /\ RestartsDue /\ AloneInv
      /\ \A p \in Procs : WritesValid(proc[p])
  BY DEF ConfigInv
<1>2. OrDefault(file) \in Settings /\ Valid(OrDefault(file))
  BY <1>1, TakesValid DEF TypeOK
<1>3. /\ UNCHANGED <<file, backup, proc, writes, mishap>>
      /\ broker' \in {broker, OrDefault(file)} /\ watch' \in {watch, None, OrDefault(file)}
  BY DEF BrokerStarts, WatchToggles
<1>4. TypeOK' /\ FilesLoad'
  BY <1>1, <1>2, <1>3 DEF TypeOK, FilesLoad
<1>5. OrDefault(file)' = OrDefault(file)
  BY <1>3 DEF OrDefault, Loadable
<1>6. RestartsDue'
  <2>1. /\ broker' \notin {None, OrDefault(file)} => broker \notin {None, OrDefault(file)}
        /\ watch' \notin {None, OrDefault(file)} => watch \notin {None, OrDefault(file)}
    BY <1>3
  <2>2. QED
    BY <1>1, <1>3, <1>5, <2>1 DEF RestartsDue
<1>7. AloneInv'
  BY <1>1, <1>3 DEF AloneInv, Busy, At
<1>8. \A p \in Procs : WritesValid(proc[p])'
  BY <1>1, <1>3 DEF WritesValid
<1>9. QED
  BY <1>4, <1>6, <1>7, <1>8 DEF ConfigInv

\* An edit by hand is a mishap, and nobody who is amid his work works alone.
LEMMA EditStep ==
  ASSUME ConfigInv, Edit
  PROVE  ConfigInv'
<1>1. /\ TypeOK /\ FilesLoad /\ proc \in [Procs -> Process]
      /\ \A p \in Procs : WritesValid(proc[p])
  BY DEF ConfigInv, TypeOK
<1>2. /\ writes < MaxWrites /\ writes' = writes + 1 /\ mishap' = TRUE
      /\ file' \in {backup, Torn} \ {None} /\ UNCHANGED <<backup, broker, watch>>
      /\ proc' = [p \in Procs |-> Disturbed(p)]
  BY DEF Edit
<1>3. \A p \in Procs :
        /\ proc'[p] \in Process /\ proc'[p].at = proc[p].at
        /\ proc'[p].new = proc[p].new /\ proc'[p].config = proc[p].config
        /\ proc'[p].op = proc[p].op /\ proc'[p].then = proc[p].then
        /\ proc'[p].alone => ~Busy(p)
  <2> SUFFICES ASSUME NEW p \in Procs
               PROVE  /\ proc'[p] \in Process /\ proc'[p].at = proc[p].at
                      /\ proc'[p].new = proc[p].new /\ proc'[p].config = proc[p].config
                      /\ proc'[p].op = proc[p].op /\ proc'[p].then = proc[p].then
                      /\ proc'[p].alone => ~Busy(p)
    OBVIOUS
  <2> DEFINE b == proc[p].alone /\ ~Busy(p)
  <2>1. proc[p] \in Process /\ b \in BOOLEAN
    BY <1>1
  <2>2. proc'[p] = [proc[p] EXCEPT !.alone = b]
    BY <1>2 DEF Disturbed
  <2>3. b => ~Busy(p)
    OBVIOUS
  <2> HIDE DEF b
  <2>4. QED
    BY <2>1, <2>2, <2>3 DEF Process
<1>4. proc' \in [Procs -> Process]
  BY <1>2, <1>3
<1>5. writes' \in 0 .. MaxWrites
  BY <1>1, <1>2, ConfigAssumption DEF TypeOK
<1>6. TypeOK'
  BY <1>1, <1>2, <1>3, <1>4, <1>5 DEF TypeOK
<1>7. FilesLoad'
  BY <1>1, <1>2 DEF FilesLoad
<1>8. RestartsDue'
  BY <1>2 DEF RestartsDue
<1>9. AloneInv'
  BY <1>3 DEF AloneInv, Busy
<1>10. \A p \in Procs : WritesValid(proc[p])'
  BY <1>1, <1>3 DEF WritesValid
<1>11. QED
  BY <1>6, <1>7, <1>8, <1>9, <1>10 DEF ConfigInv

-----------------------------------------------------------------------------
(* The inductive invariant. *)

\* The invariant holds at the start.
LEMMA Initially == Init => ConfigInv
<1> SUFFICES ASSUME Init PROVE ConfigInv
  OBVIOUS
<1>1. proc \in [Procs -> Process] /\ \A p \in Procs : proc[p] = Free
  BY FreeProcess DEF Init
<1>2. TypeOK
  <2>1. file \in Settings \cup {Torn} /\ backup = None /\ broker = None /\ watch = None
    BY InitialAssumption DEF Init
  <2>2. writes \in 0 .. MaxWrites /\ mishap \in BOOLEAN
    <3>1. writes = 0 /\ mishap = FALSE
      BY DEF Init
    <3>2. MaxWrites \in Nat
      BY ConfigAssumption
    <3>3. writes \in 0 .. MaxWrites
      BY <3>1, <3>2
    <3>4. QED
      BY <3>1, <3>3
  <2>3. \A p \in Procs : proc[p].new # None <=> proc[p].at \in Storing
    BY <1>1, FreeProcess DEF Storing
  <2>4. QED
    BY <1>1, <2>1, <2>2, <2>3 DEF TypeOK
<1>3. FilesLoad
  BY InitialAssumption DEF Init, FilesLoad
<1>4. \A p \in Procs : WritesValid(proc[p])
  BY <1>1, FreeProcess
<1>5. RestartsDue
  BY DEF Init, RestartsDue
<1>6. AloneInv
  BY <1>1, FreeProcess DEF AloneInv, Busy, Storing
<1>7. QED
  BY <1>2, <1>3, <1>4, <1>5, <1>6 DEF ConfigInv

\* A step of nobody keeps it.
LEMMA Stutters ==
  ASSUME ConfigInv, UNCHANGED vars
  PROVE  ConfigInv'
<1>1. UNCHANGED <<file, backup, broker, watch, proc, writes, mishap>>
  BY DEF vars
<1>2. OrDefault(file)' = OrDefault(file)
  BY <1>1 DEF OrDefault, Loadable
<1>3. TypeOK' /\ FilesLoad' /\ RestartsDue'
  BY <1>1, <1>2 DEF ConfigInv, TypeOK, FilesLoad, RestartsDue
<1>4. AloneInv' /\ \A p \in Procs : WritesValid(proc[p])'
  BY <1>1 DEF ConfigInv, AloneInv, Busy, At, WritesValid
<1>5. QED
  BY <1>3, <1>4 DEF ConfigInv

\* Every step keeps it.
LEMMA StepsKeep == ConfigInv /\ [Next]_vars => ConfigInv'
<1> SUFFICES ASSUME ConfigInv, [Next]_vars
             PROVE  ConfigInv'
  OBVIOUS
<1>1. ASSUME NEW p \in Procs, Choose(p)
      PROVE  ConfigInv'
  BY <1>1, BeginsStep, QuietStep, SaveStep, CalibrateStep, CalibrateCamerasStep, SetupStep,
     SetupCalibratesStep DEF Choose
<1>2. ASSUME NEW p \in Procs, Carry(p)
      PROVE  ConfigInv'
  BY <1>2, BackupStep, OpenFileStep, FillFileStep, RefreshBrokerStep, RefreshWatchStep,
     FailStep DEF Carry
<1>3. CASE BrokerStarts \/ WatchToggles
  BY <1>3, DaemonStep
<1>4. CASE Edit
  BY <1>4, EditStep
<1>5. CASE UNCHANGED vars
  BY <1>5, Stutters
<1>6. QED
  BY <1>1, <1>2, <1>3, <1>4, <1>5 DEF Next

\* ConfigInv holds at all times.
THEOREM ConfigInvariant == Spec => []ConfigInv
<1>1. QED
  BY Initially, StepsKeep, PTL DEF Spec

-----------------------------------------------------------------------------
(* The properties. *)

\* The files, the copies of the commands and what the daemons run with are
\* settings, and a command has something to write exactly while it stores.
THEOREM ConfigTypeCorrect == Spec => []TypeOK
<1>1. ConfigInv => TypeOK
  BY DEF ConfigInv
<1>2. QED
  BY <1>1, ConfigInvariant, PTL

\* Whoever writes the file whole writes settings that load, validated or not, but
\* for calibrate-cameras with an empty name for the RGB camera; and neither a
\* command nor a daemon ever works with settings that do not load.
THEOREM WritesLoad == Spec => []SavedConfigsLoad
<1>1. ConfigInv => SavedConfigsLoad
  <2>1. ConfigInv /\ file # Torn => file # None
    BY ConfigAssumption DEF ConfigInv, TypeOK
  <2>2. QED
    BY <2>1 DEF ConfigInv, FilesLoad, WritesValid, SavedConfigsLoad
<1>2. QED
  BY <1>1, ConfigInvariant, PTL

\* However commands overlap, the last restart leaves the daemons with what is in
\* the file.
THEOREM DaemonsFollow == Spec => []DaemonsCurrent
<1>1. ConfigInv => DaemonsCurrent
  BY DEF ConfigInv, RestartsDue, DaemonsCurrent, Busy, Storing
<1>2. QED
  BY <1>1, ConfigInvariant, PTL

\* A file that is truncated by a command that makes backups, and that nobody else
\* writes, has a whole copy.
THEOREM BackupsWhole == Spec => WholeBackup
<1>1. ConfigInv /\ [Next]_vars =>
        [\A p \in Procs : OpenFile(p) /\ proc[p].op # "editor" /\ proc[p].alone
                            => backup = file]_vars
  BY DEF ConfigInv, AloneInv, OpenFile, At, Busy, Storing
<1>2. QED
  BY <1>1, ConfigInvariant, PTL DEF Spec, WholeBackup

=============================================================================
