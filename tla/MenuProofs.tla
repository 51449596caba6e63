------------------------------ MODULE MenuProofs ------------------------------
(***************************************************************************)
(* Proofs about Menu, for any people, services and items, and any files    *)
(* and processes.                                                          *)
(*                                                                         *)
(* Each key's lemma first says what it does to the fields of the menu,      *)
(* the job and the answers; the invariant follows from those.  The         *)
(* properties of the PAM files are carried over to the composed system,    *)
(* whose steps are all steps of PamFilesProofs.                            *)
(***************************************************************************)
EXTENDS Menu, PamFilesProofs

-----------------------------------------------------------------------------
(* What a step does to the menu. *)

Shows(open, mode, panel, pending, user, of, entries, shown) ==
  /\ app' \in MenuState
  /\ app'.open = open /\ app'.mode = mode /\ app'.panel = panel
  /\ app'.pending = pending /\ app'.user = user /\ app'.templatesOf = of
  /\ app'.entries = entries /\ app'.shown = shown

Runs(action, user, files, at, current) ==
  /\ job' \in Jobs
  /\ job'.action = action /\ job'.user = user /\ job'.files = files
  /\ job'.at = at /\ job'.current = current

LEMMA LabelsTyped == Labels \in [sudo : BOOLEAN, session : BOOLEAN]
BY DEF Labels, Enabled

LEMMA OpenedTyped ==
  /\ Opened \in MenuState
  /\ Opened.open /\ Opened.mode = "Menu" /\ Opened.panel = "idle" /\ Opened.pending = None
  /\ Opened.user = None /\ Opened.templatesOf = None /\ Opened.entries = {}
  /\ Opened.shown = Labels
<1>1. "Menu" \in Modes
  BY DEF Modes
<1>2. {} \in SUBSET SessionServices
  OBVIOUS
<1> HIDE DEF Labels
<1>3. QED
  BY <1>1, <1>2, LabelsTyped DEF Opened, MenuState

LEMMA NoJobTyped ==
  /\ NoJob \in Jobs
  /\ NoJob.action = None /\ NoJob.user = None /\ NoJob.files = {}
  /\ NoJob.at = "none" /\ NoJob.current = TRUE
<1>1. {} \in SUBSET Files
  OBVIOUS
<1>2. QED
  BY <1>1 DEF NoJob, Jobs

LEMMA NothingTyped ==
  /\ Nothing \in Answers
  /\ Nothing.action = None /\ Nothing.user = None
  /\ Nothing.yes = FALSE /\ Nothing.changed = FALSE
BY DEF Nothing, Answers

\* The menu as it is after a launch from state.
LEMMA LaunchIs ==
  ASSUME NEW state \in MenuState, NEW action \in Actions, NEW user \in People \cup {None},
         NEW fs \in SUBSET Files, Launch(state, action, user, fs)
  PROVE  /\ Shows(state.open, "Menu", "running", state.pending, state.user,
                  state.templatesOf, state.entries, state.shown)
         /\ Runs(action, user, fs, "ready", TRUE)
<1> DEFINE a == [state EXCEPT !.mode = "Menu", !.panel = "running"]
           j == [action |-> action, user |-> user, files |-> fs, at |-> "ready", current |-> TRUE]
<1>1. "Menu" \in Modes
  BY DEF Modes
<1>2. app' = a /\ job' = j
  BY DEF Launch
<1>3. /\ a \in MenuState
      /\ a.open = state.open /\ a.mode = "Menu" /\ a.panel = "running"
      /\ a.pending = state.pending /\ a.user = state.user
      /\ a.templatesOf = state.templatesOf
      /\ a.entries = state.entries /\ a.shown = state.shown
  BY <1>1 DEF MenuState
<1>4. /\ j \in Jobs
      /\ j.action = action /\ j.user = user /\ j.files = fs
      /\ j.at = "ready" /\ j.current = TRUE
  BY DEF Jobs
<1> HIDE DEF a, j
<1>5. QED
  BY <1>2, <1>3, <1>4 DEF Shows, Runs

\* What a command that has been launched must satisfy.
LEMMA LaunchKeeps ==
  ASSUME MenuInv, app.open, job.at = "none", UNCHANGED <<etc, proc>>,
         NEW action \in Actions, NEW user \in People \cup {None}, NEW fs \in SUBSET Files,
         NEW of, NEW entries,
         Shows(TRUE, "Menu", "running", None, None, of, entries, app.shown),
         Runs(action, user, fs, "ready", TRUE),
         agreed' \in Answers, agreed'.user = user, agreed'.changed = agreed.changed,
         action \in LeadsTo(agreed'.action), action \notin {"Enroll", "Configure"},
         action \in Destructive => agreed'.yes,
         action = "SessionToggle" => ~app.shown.session
  PROVE  MenuInv'
<1>1. MenuTypeOK'
  BY DEF Shows, Runs, MenuTypeOK, Expected, NamesUser
<1>2. At(Console, "free") /\ At(Console, "free")'
  BY DEF MenuInv, JobInv, At
<1>3. ~Working(Console)'
  BY <1>2 DEF Working, At
<1>4. LaunchedAsAgreed'
  BY <1>3 DEF Runs, LaunchedAsAgreed
<1>5. JobInv'
  BY <1>2 DEF Shows, Runs, JobInv
<1>6. AskedInv'
  BY DEF Shows, AskedInv
<1>7. Labels' = Labels
  BY DEF Labels, Enabled, Exists, HasLine, Source
<1>8. LabelsInv'
  BY <1>7 DEF MenuInv, LabelsInv, Shows, Runs
<1>9. QED
  BY <1>1, <1>4, <1>5, <1>6, <1>8 DEF MenuInv

\* What a question, or the menu without a command, must satisfy.
LEMMA AskKeeps ==
  ASSUME MenuInv, job.at = "none", UNCHANGED <<etc, proc>>, job' \in Jobs, job'.at = "none",
         app' \in MenuState, agreed' \in Answers,
         app'.pending \in Expected(app'.mode), app'.user # None <=> app'.mode \in NamesUser,
         app'.mode # "Menu" => app'.panel = "idle",
         AskedInv',
         \/ app'.shown = app.shown /\ agreed'.changed = agreed.changed
         \/ app'.shown = Labels,
         app'.mode = "PamServiceInput" => ~app'.shown.session
  PROVE  MenuInv'
<1>1. MenuTypeOK'
  BY DEF MenuTypeOK
<1>2. LaunchedAsAgreed'
  BY DEF LaunchedAsAgreed
<1>3. JobInv'
  BY DEF MenuInv, JobInv, At
<1>4. Labels' = Labels
  BY DEF Labels, Enabled, Exists, HasLine, Source
<1>5. LabelsInv'
  BY <1>4 DEF MenuInv, LabelsInv
<1>6. QED
  BY <1>1, <1>2, <1>3, <1>5 DEF MenuInv

-----------------------------------------------------------------------------
(* Keys. *)

\* The menu when no question is asked and nothing runs.
LEMMA IdleIs ==
  ASSUME MenuInv, Idle
  PROVE  /\ job.at = "none" /\ app.pending = None /\ app.user = None /\ agreed.user = None
         /\ app \in MenuState /\ job \in Jobs /\ agreed \in Answers
<1>1. /\ app \in MenuState /\ job \in Jobs /\ agreed \in Answers
      /\ app.mode = "Menu" /\ app.panel = "idle"
  BY DEF MenuInv, MenuTypeOK, Idle
<1>2. app.pending = None /\ app.user = None
  BY <1>1, PamAssumption DEF MenuInv, MenuTypeOK, Expected, NamesUser
<1>3. job.at \in {"none", "ready", "begun", "ended"}
  BY <1>1 DEF Jobs
<1>4. QED
  BY <1>1, <1>2, <1>3 DEF MenuInv, JobInv, AskedInv

\* The menu when it asks something.
LEMMA AskingIs ==
  ASSUME MenuInv, app.open, app.mode # "Menu"
  PROVE  /\ job.at = "none" /\ app.panel = "idle"
         /\ app \in MenuState /\ job \in Jobs /\ agreed \in Answers
         /\ app.pending \in Expected(app.mode)
         /\ app.user # None <=> app.mode \in NamesUser
         /\ app.mode # "TemplateList" => agreed.user = app.user
<1>1. /\ app \in MenuState /\ job \in Jobs /\ agreed \in Answers
      /\ app.pending \in Expected(app.mode)
      /\ app.user # None <=> app.mode \in NamesUser
  BY DEF MenuInv, MenuTypeOK
<1>2. job.at \in {"none", "ready", "begun", "ended"}
  BY <1>1 DEF Jobs
<1>3. QED
  BY <1>1, <1>2 DEF MenuInv, JobInv, AskedInv

LEMMA ActionsAre ==
  /\ AtOnce \subseteq Actions /\ NeedsUser \subseteq Actions /\ NeedsYes \subseteq Actions
  /\ AddActions \subseteq Actions /\ CalibrateActions \subseteq Actions
  /\ "SessionToggle" \in Actions /\ "DisableServices" \in Actions
  /\ "RemoveTemplates" \in Actions /\ None \notin Actions /\ None \notin People
BY MenuAssumption DEF Actions

\* The answers so far, with another action, person or a yes.
LEMMA AnswersTyped ==
  ASSUME NEW r \in Answers, NEW action \in Actions \cup {None}, NEW u \in People \cup {None}
  PROVE  /\ [r EXCEPT !.action = action] \in Answers
         /\ [r EXCEPT !.action = action].action = action
         /\ [r EXCEPT !.action = action].user = r.user
         /\ [r EXCEPT !.action = action].yes = r.yes
         /\ [r EXCEPT !.action = action].changed = r.changed
         /\ [r EXCEPT !.user = u] \in Answers
         /\ [r EXCEPT !.user = u].action = r.action
         /\ [r EXCEPT !.user = u].user = u
         /\ [r EXCEPT !.user = u].yes = r.yes
         /\ [r EXCEPT !.user = u].changed = r.changed
         /\ [r EXCEPT !.yes = TRUE] \in Answers
         /\ [r EXCEPT !.yes = TRUE].action = r.action
         /\ [r EXCEPT !.yes = TRUE].user = r.user
         /\ [r EXCEPT !.yes = TRUE].yes = TRUE
         /\ [r EXCEPT !.yes = TRUE].changed = r.changed
BY DEF Answers

LEMMA SelectAtOnceKeeps ==
  ASSUME MenuInv, NEW a \in Items, SelectAtOnce(a)
  PROVE  MenuInv'
<1>1. /\ Idle /\ a \in AtOnce /\ a \in Actions
      /\ Launch(app, a, None, {}) /\ agreed' = [agreed EXCEPT !.action = a]
      /\ UNCHANGED <<etc, proc>>
  BY ActionsAre DEF SelectAtOnce, Counted
<1>2. /\ job.at = "none" /\ app.pending = None /\ app.user = None /\ agreed.user = None
      /\ app \in MenuState /\ agreed \in Answers /\ app.open
  BY <1>1, IdleIs DEF Idle
<1>3. /\ Shows(TRUE, "Menu", "running", None, None, app.templatesOf, app.entries, app.shown)
      /\ Runs(a, None, {}, "ready", TRUE)
  <2>1. app.open = TRUE
    BY <1>2 DEF MenuState
  <2>2. {} \in SUBSET Files
    OBVIOUS
  <2>3. QED
    BY <1>1, <1>2, <2>1, <2>2, LaunchIs
<1>4. /\ agreed' \in Answers /\ agreed'.user = None /\ agreed'.changed = agreed.changed
      /\ agreed'.action = a
  BY <1>1, <1>2, AnswersTyped
<1>5. /\ a \in LeadsTo(a) /\ a \notin {"Enroll", "Configure"}
      /\ a \notin Destructive /\ a # "SessionToggle"
  BY <1>1 DEF AtOnce, LeadsTo, Destructive, NeedsYes
<1>6. QED
  BY <1>1, <1>2, <1>3, <1>4, <1>5, LaunchKeeps

LEMMA SelectAndAskKeeps ==
  ASSUME MenuInv, NEW a \in Items, SelectAndAsk(a)
  PROVE  MenuInv'
<1>1. /\ Idle /\ a \in NeedsUser \cup NeedsYes \cup {"SessionToggle"} /\ a \in Actions
      /\ a = "SessionToggle" => ~app.shown.session
      /\ app' = [app EXCEPT !.pending = a, !.mode = ModeFor(a)]
      /\ agreed' = [agreed EXCEPT !.action = a]
      /\ UNCHANGED <<etc, proc, job>>
  BY ActionsAre DEF SelectAndAsk, Counted
<1>2. /\ job.at = "none" /\ app.user = None /\ agreed.user = None
      /\ app \in MenuState /\ job \in Jobs /\ agreed \in Answers /\ app.panel = "idle"
  BY <1>1, IdleIs DEF Idle
<1>3. /\ ModeFor(a) \in Modes /\ ModeFor(a) \notin NamesUser
      /\ ModeFor(a) \notin {"Menu", "SessionServiceSelect", "TemplateList"}
      /\ a \in Expected(ModeFor(a))
      /\ ModeFor(a) = "PamServiceInput" => a = "SessionToggle"
  BY <1>1 DEF ModeFor, Modes, NamesUser, Expected, NeedsUser, NeedsYes
<1>4. /\ app' \in MenuState /\ app'.pending = a /\ app'.mode = ModeFor(a)
      /\ app'.user = None /\ app'.shown = app.shown /\ app'.panel = "idle"
  BY <1>1, <1>2, <1>3 DEF MenuState
<1>5. /\ agreed' \in Answers /\ agreed'.user = None /\ agreed'.changed = agreed.changed
      /\ agreed'.action = a
  BY <1>1, <1>2, AnswersTyped
<1>6. AskedInv'
  BY <1>3, <1>4, <1>5 DEF AskedInv
<1>7. QED
  BY <1>1, <1>2, <1>3, <1>4, <1>5, <1>6, AskKeeps

LEMMA SelectSessionServicesKeeps ==
  ASSUME MenuInv, SelectSessionServices
  PROVE  MenuInv'
<1> DEFINE on == {f \in SessionServices : HasLine(Source(f))}
<1>1. /\ Idle
      /\ app' = [app EXCEPT !.mode = "SessionServiceSelect", !.entries = on]
      /\ agreed' = [agreed EXCEPT !.action = "DisableServices"]
      /\ UNCHANGED <<etc, proc, job>>
  BY DEF SelectSessionServices, Counted
<1>2. /\ job.at = "none" /\ app.pending = None /\ app.user = None /\ agreed.user = None
      /\ app \in MenuState /\ job \in Jobs /\ agreed \in Answers /\ app.panel = "idle"
  BY <1>1, IdleIs DEF Idle
<1>3. on \in SUBSET SessionServices /\ "SessionServiceSelect" \in Modes
  BY DEF Modes
<1> HIDE DEF on
<1>4. /\ app' \in MenuState /\ app'.pending = None /\ app'.mode = "SessionServiceSelect"
      /\ app'.user = None /\ app'.shown = app.shown /\ app'.panel = "idle"
  BY <1>1, <1>2, <1>3 DEF MenuState
<1>5. /\ agreed' \in Answers /\ agreed'.user = None /\ agreed'.changed = agreed.changed
      /\ agreed'.action = "DisableServices"
  <2>1. "DisableServices" \in Actions \cup {None}
    BY ActionsAre
  <2>2. QED
    BY <1>1, <1>2, <2>1, AnswersTyped
<1>6. AskedInv'
  BY <1>4, <1>5 DEF AskedInv
<1>7. None \in Expected("SessionServiceSelect") /\ "SessionServiceSelect" \notin NamesUser
  BY DEF Expected, NamesUser
<1>8. QED
  BY <1>1, <1>2, <1>4, <1>5, <1>6, <1>7, AskKeeps

\* The menu is left, opened or shown anew.
LEMMA FreshKeeps ==
  ASSUME MenuInv, UNCHANGED etc, At(Console, "free")',
         app' \in MenuState, app'.mode = "Menu", app'.panel = "idle", app'.pending = None,
         app'.user = None, app'.shown = Labels,
         job' = NoJob, agreed' = Nothing
  PROVE  MenuInv'
<1>1. MenuTypeOK'
  BY NoJobTyped, NothingTyped DEF MenuTypeOK, Expected, NamesUser
<1>2. job'.at = "none" /\ agreed'.user = None
  BY NoJobTyped, NothingTyped
<1>3. LaunchedAsAgreed' /\ JobInv' /\ AskedInv'
  BY <1>2 DEF LaunchedAsAgreed, JobInv, AskedInv, At
<1>4. Labels' = Labels
  BY DEF Labels, Enabled, Exists, HasLine, Source
<1>5. LabelsInv'
  BY <1>2, <1>4 DEF LabelsInv
<1>6. QED
  BY <1>1, <1>3, <1>5 DEF MenuInv

\* The console is free unless a command has begun.
LEMMA ConsoleFree ==
  ASSUME MenuInv, ~app.open \/ app.panel # "running"
  PROVE  At(Console, "free")
BY DEF MenuInv, JobInv

LEMMA LeaveMenuKeeps ==
  ASSUME MenuInv, LeaveMenu
  PROVE  MenuInv'
<1> DEFINE closed == [Opened EXCEPT !.open = FALSE]
<1>1. /\ app.panel # "running" /\ UNCHANGED <<etc, proc>>
      /\ app' = closed /\ job' = NoJob /\ agreed' = Nothing
  BY DEF LeaveMenu, Idle, vars
<1>2. /\ closed \in MenuState
      /\ closed.mode = "Menu" /\ closed.panel = "idle" /\ closed.pending = None
      /\ closed.user = None /\ closed.shown = Labels
  BY OpenedTyped DEF MenuState
<1> HIDE DEF closed
<1>3. QED
  BY <1>1, <1>2, ConsoleFree, FreshKeeps DEF At

LEMMA OpenMenuKeeps ==
  ASSUME MenuInv, OpenMenu
  PROVE  MenuInv'
<1>1. /\ ~app.open /\ UNCHANGED <<etc, proc, job>> /\ app' = Opened /\ agreed' = Nothing
  BY DEF OpenMenu, vars
<1>2. job.at = "none" /\ job \in Jobs
  BY <1>1 DEF MenuInv, JobInv, MenuTypeOK, Jobs
<1>3. AskedInv'
  BY <1>1, OpenedTyped, NothingTyped DEF AskedInv
<1>4. None \in Expected("Menu") /\ "Menu" \notin NamesUser
  BY DEF Expected, NamesUser
<1>5. QED
  BY <1>1, <1>2, <1>3, <1>4, OpenedTyped, NothingTyped, AskKeeps

LEMMA BackToMenuKeeps ==
  ASSUME MenuInv, BackToMenu
  PROVE  MenuInv'
<1>1. /\ app.open /\ app.panel = "done" /\ app.mode = "Menu" /\ UNCHANGED <<etc, proc>>
      /\ app' = [app EXCEPT !.panel = "idle", !.shown = Labels]
      /\ job' = NoJob /\ agreed' = Nothing
  BY DEF BackToMenu, FreshLabels, vars
<1>2. /\ app \in MenuState /\ app.pending = None /\ app.user = None
  BY <1>1, PamAssumption DEF MenuInv, MenuTypeOK, Expected, NamesUser
<1>3. /\ app' \in MenuState /\ app'.mode = "Menu" /\ app'.panel = "idle"
      /\ app'.pending = None /\ app'.user = None /\ app'.shown = Labels
  BY <1>1, <1>2, LabelsTyped DEF MenuState
<1>4. QED
  BY <1>1, <1>3, ConsoleFree, FreshKeeps DEF At

\* A person is named: a command is launched, or something else is asked.
LEMMA ConfirmUsernameKeeps ==
  ASSUME MenuInv, NEW u \in People, ConfirmUsername(u)
  PROVE  MenuInv'
<1>1. /\ app.open /\ app.mode = "UsernameInput" /\ UNCHANGED <<etc, proc>>
      /\ agreed' = [agreed EXCEPT !.user = u]
  BY DEF ConfirmUsername, InMode, vars
<1>2. /\ job.at = "none" /\ app.panel = "idle" /\ job \in Jobs
      /\ app \in MenuState /\ agreed \in Answers /\ app.open = TRUE
      /\ app.user = None
  BY <1>1, AskingIs DEF NamesUser, MenuState
<1>3. app.pending \in NeedsUser /\ app.pending \in Actions /\ app.pending # None
  <2>1. app.pending \in NeedsUser
    BY <1>1, AskingIs DEF Expected
  <2>2. QED
    BY <2>1, ActionsAre
<1>4. agreed.action = app.pending
  BY <1>3 DEF MenuInv, AskedInv
<1>5. /\ agreed' \in Answers /\ agreed'.action = app.pending /\ agreed'.user = u
      /\ agreed'.changed = agreed.changed
  BY <1>1, <1>2, <1>4 DEF Answers
<1>6. ASSUME NEW mode \in NamesUser, app' = [app EXCEPT !.user = u, !.mode = mode],
             app.pending \in Expected(mode), UNCHANGED job
      PROVE  MenuInv'
  <2>1. mode \in Modes /\ mode \notin {"Menu", "SessionServiceSelect", "TemplateList"}
        /\ mode # "PamServiceInput"
    BY DEF Modes, NamesUser
  <2>2. /\ app' \in MenuState /\ app'.pending = app.pending /\ app'.mode = mode
        /\ app'.user = u /\ app'.shown = app.shown /\ app'.panel = "idle"
    BY <1>2, <1>6, <2>1 DEF MenuState
  <2>3. AskedInv'
    BY <1>5, <2>1, <2>2 DEF AskedInv
  <2>4. u # None
    BY ActionsAre
  <2>5. QED
    BY <1>1, <1>2, <1>5, <1>6, <2>1, <2>2, <2>3, <2>4, AskKeeps
<1>7. CASE app.pending = "Enroll"
  <2>1. app' = [app EXCEPT !.user = u, !.mode = "EnrollTargetSelect"] /\ UNCHANGED job
    BY <1>7 DEF ConfirmUsername, NameGiven
  <2>2. "EnrollTargetSelect" \in NamesUser /\ app.pending \in Expected("EnrollTargetSelect")
    BY <1>7 DEF NamesUser, Expected
  <2>3. QED
    BY <1>6, <2>1, <2>2
<1>8. CASE app.pending = "Forget"
  <2>1. app' = [app EXCEPT !.user = u, !.mode = "ForgetConfirm"] /\ UNCHANGED job
    BY <1>8 DEF ConfirmUsername, NameGiven
  <2>2. "ForgetConfirm" \in NamesUser /\ app.pending \in Expected("ForgetConfirm")
    BY <1>8 DEF NamesUser, Expected
  <2>3. QED
    BY <1>6, <2>1, <2>2
<1>9. CASE app.pending = "Calibrate"
  <2>1. app' = [app EXCEPT !.user = u, !.mode = "CalibrationTargetSelect"] /\ UNCHANGED job
    BY <1>9 DEF ConfirmUsername, NameGiven
  <2>2. /\ "CalibrationTargetSelect" \in NamesUser
        /\ app.pending \in Expected("CalibrationTargetSelect")
    BY <1>9 DEF NamesUser, Expected
  <2>3. QED
    BY <1>6, <2>1, <2>2
<1>10. CASE app.pending = "List"
  <2> DEFINE list == [app EXCEPT !.pending = None, !.mode = "TemplateList", !.templatesOf = u]
             done == [app EXCEPT !.pending = None, !.mode = "Menu", !.panel = "done"]
  <2>1. app' = list \/ app' = done
    BY <1>10 DEF ConfirmUsername
  <2>2. UNCHANGED job
    BY <1>10 DEF ConfirmUsername
  <2>3. /\ list \in MenuState /\ list.pending = None /\ list.mode = "TemplateList"
        /\ list.user = None /\ list.templatesOf = u /\ list.shown = app.shown
        /\ list.panel = "idle"
    BY <1>2 DEF MenuState, Modes
  <2>4. /\ done \in MenuState /\ done.pending = None /\ done.mode = "Menu"
        /\ done.user = None /\ done.shown = app.shown /\ done.panel = "done"
    BY <1>2 DEF MenuState, Modes
  <2> HIDE DEF list, done
  <2>5. AskedInv'
    BY <1>5, <1>10, <2>1, <2>3, <2>4 DEF AskedInv
  <2>6. /\ None \in Expected("TemplateList") /\ "TemplateList" \notin NamesUser
        /\ None \in Expected("Menu") /\ "Menu" \notin NamesUser
    BY DEF Expected, NamesUser
  <2>7. QED
    BY <1>1, <1>2, <1>5, <2>1, <2>2, <2>3, <2>4, <2>5, <2>6, AskKeeps
<1>11. CASE app.pending = "Test"
  <2> DEFINE state == [app EXCEPT !.pending = None]
  <2>1. Launch(state, "Test", u, {})
    BY <1>11 DEF ConfirmUsername
  <2>2. /\ state \in MenuState /\ state.open = TRUE /\ state.pending = None
        /\ state.user = None /\ state.templatesOf = app.templatesOf
        /\ state.entries = app.entries /\ state.shown = app.shown
    BY <1>2 DEF MenuState
  <2>3. "Test" \in Actions /\ {} \in SUBSET Files
    BY <1>3, <1>11
  <2> HIDE DEF state
  <2>4. /\ Shows(TRUE, "Menu", "running", None, None, app.templatesOf, app.entries, app.shown)
        /\ Runs("Test", u, {}, "ready", TRUE)
    BY <2>1, <2>2, <2>3, LaunchIs
  <2>5. "Test" \in LeadsTo("Test") /\ "Test" \notin Destructive
    BY DEF LeadsTo, Destructive, NeedsYes
  <2>6. QED
    BY <1>1, <1>2, <1>5, <1>11, <2>3, <2>4, <2>5, LaunchKeeps
<1>12. QED
  BY <1>3, <1>7, <1>8, <1>9, <1>10, <1>11 DEF NeedsUser

LEMMA ConfirmTargetsKeeps ==
  ASSUME MenuInv, NEW a \in AddActions \cup CalibrateActions, ConfirmTargets(a)
  PROVE  MenuInv'
<1>1. /\ app.open /\ app.mode \in {"EnrollTargetSelect", "CalibrationTargetSelect"}
      /\ UNCHANGED <<etc, proc, job>>
      /\ app' = [app EXCEPT !.pending = a, !.mode = "SampleCountInput"]
      /\ agreed' = [agreed EXCEPT !.action = a]
  BY DEF ConfirmTargets, InMode, vars
<1>2. /\ job.at = "none" /\ app.panel = "idle" /\ job \in Jobs
      /\ app \in MenuState /\ agreed \in Answers
      /\ app.user # None /\ agreed.user = app.user
  BY <1>1, AskingIs DEF NamesUser
<1>3. a \in Actions \cup {None}
  BY ActionsAre
<1>4. /\ app' \in MenuState /\ app'.pending = a /\ app'.mode = "SampleCountInput"
      /\ app'.user = app.user /\ app'.shown = app.shown /\ app'.panel = "idle"
  BY <1>1, <1>2, <1>3 DEF MenuState, Modes
<1>5. /\ agreed' \in Answers /\ agreed'.action = a /\ agreed'.user = app.user
      /\ agreed'.changed = agreed.changed
  BY <1>1, <1>2, <1>3, AnswersTyped
<1>6. AskedInv'
  BY <1>4, <1>5 DEF AskedInv
<1>7. a \in Expected("SampleCountInput") /\ "SampleCountInput" \in NamesUser
  BY DEF Expected, NamesUser
<1>8. QED
  BY <1>1, <1>2, <1>4, <1>5, <1>6, <1>7, AskKeeps

LEMMA ConfirmSampleCountKeeps ==
  ASSUME MenuInv, ConfirmSampleCount
  PROVE  MenuInv'
<1> DEFINE state == [app EXCEPT !.pending = None, !.user = None]
<1>1. /\ app.open /\ app.mode = "SampleCountInput" /\ UNCHANGED <<etc, proc, agreed>>
      /\ Launch(state, app.pending, app.user, {})
  BY DEF ConfirmSampleCount, InMode, vars
<1>2. /\ job.at = "none" /\ app \in MenuState /\ agreed \in Answers /\ app.open = TRUE
      /\ app.user \in People \cup {None} /\ agreed.user = app.user
  BY <1>1, AskingIs DEF MenuState
<1>3. PICK a \in AddActions \cup CalibrateActions : a = app.pending /\ a \in Actions
  <2>1. app.pending \in AddActions \cup CalibrateActions
    BY <1>1, AskingIs DEF Expected
  <2>2. QED
    BY <2>1, ActionsAre
<1>4. agreed.action = a
  BY <1>3, ActionsAre DEF MenuInv, AskedInv
<1>5. /\ state \in MenuState /\ state.open = TRUE /\ state.pending = None
      /\ state.user = None /\ state.templatesOf = app.templatesOf
      /\ state.entries = app.entries /\ state.shown = app.shown
  BY <1>2 DEF MenuState
<1> HIDE DEF state
<1>6. PICK u \in People \cup {None} : u = app.user
  BY <1>2
<1>7. /\ Shows(TRUE, "Menu", "running", None, None, app.templatesOf, app.entries, app.shown)
      /\ Runs(a, u, {}, "ready", TRUE)
  <2>1. {} \in SUBSET Files
    OBVIOUS
  <2>2. QED
    BY <1>1, <1>3, <1>5, <1>6, <2>1, LaunchIs
<1>8. /\ a \in LeadsTo(a) /\ a \notin {"Enroll", "Configure"}
      /\ a \notin Destructive /\ a # "SessionToggle"
  BY DEF LeadsTo, Destructive, NeedsYes, AddActions, CalibrateActions
<1>9. QED
  BY <1>1, <1>2, <1>3, <1>4, <1>6, <1>7, <1>8, LaunchKeeps

LEMMA ConfirmPamServiceKeeps ==
  ASSUME MenuInv, NEW extra \in SUBSET Files, ConfirmPamService(extra)
  PROVE  MenuInv'
<1> DEFINE state == [app EXCEPT !.pending = None]
<1>1. /\ app.open /\ app.mode = "PamServiceInput" /\ UNCHANGED <<etc, proc, agreed>>
      /\ Launch(state, app.pending, None, extra)
  BY DEF ConfirmPamService, InMode, vars
<1>2. /\ job.at = "none" /\ app \in MenuState /\ agreed \in Answers /\ app.open = TRUE
      /\ app.user = None /\ agreed.user = None /\ app.pending = "SessionToggle"
  BY <1>1, AskingIs DEF MenuState, NamesUser, Expected
<1>3. /\ agreed.action = "SessionToggle" /\ ~app.shown.session
  BY <1>1, <1>2, ActionsAre DEF MenuInv, AskedInv, LabelsInv
<1>4. /\ state \in MenuState /\ state.open = TRUE /\ state.pending = None
      /\ state.user = None /\ state.templatesOf = app.templatesOf
      /\ state.entries = app.entries /\ state.shown = app.shown
  BY <1>2 DEF MenuState
<1> HIDE DEF state
<1>5. /\ Shows(TRUE, "Menu", "running", None, None, app.templatesOf, app.entries, app.shown)
      /\ Runs("SessionToggle", None, extra, "ready", TRUE)
  BY <1>1, <1>2, <1>4, ActionsAre, LaunchIs
<1>6. "SessionToggle" \in LeadsTo("SessionToggle") /\ "SessionToggle" \notin Destructive
  BY DEF LeadsTo, Destructive, NeedsYes
<1>7. QED
  BY <1>1, <1>2, <1>3, <1>5, <1>6, ActionsAre, LaunchKeeps

LEMMA ConfirmSessionServicesKeeps ==
  ASSUME MenuInv, NEW fs, ConfirmSessionServices(fs)
  PROVE  MenuInv'
<1> DEFINE state == [app EXCEPT !.entries = {}]
<1>1. /\ app.open /\ app.mode = "SessionServiceSelect" /\ UNCHANGED <<etc, proc, agreed>>
      /\ fs \subseteq app.entries
      /\ Launch(state, "DisableServices", None, fs)
  BY DEF ConfirmSessionServices, InMode, vars
<1>2. /\ job.at = "none" /\ app \in MenuState /\ agreed \in Answers /\ app.open = TRUE
      /\ app.user = None /\ agreed.user = None /\ app.pending = None
  BY <1>1, AskingIs DEF MenuState, NamesUser, Expected
<1>3. agreed.action = "DisableServices"
  BY <1>1 DEF MenuInv, AskedInv
<1>4. /\ state \in MenuState /\ state.open = TRUE /\ state.pending = None
      /\ state.user = None /\ state.templatesOf = app.templatesOf
      /\ state.entries = {} /\ state.shown = app.shown
  <2>1. {} \in SUBSET SessionServices
    OBVIOUS
  <2>2. QED
    BY <1>2, <2>1 DEF MenuState
<1> HIDE DEF state
<1>5. fs \in SUBSET Files
  BY <1>1, <1>2, PamAssumption DEF MenuState
<1>6. /\ Shows(TRUE, "Menu", "running", None, None, app.templatesOf, {}, app.shown)
      /\ Runs("DisableServices", None, fs, "ready", TRUE)
  BY <1>1, <1>2, <1>4, <1>5, ActionsAre, LaunchIs
<1>7. "DisableServices" \in LeadsTo("DisableServices") /\ "DisableServices" \notin Destructive
  BY DEF LeadsTo, Destructive, NeedsYes
<1>8. QED
  BY <1>1, <1>2, <1>3, <1>5, <1>6, <1>7, ActionsAre, LaunchKeeps

LEMMA ConfirmTemplateDeleteKeeps ==
  ASSUME MenuInv, NEW marked \in BOOLEAN, ConfirmTemplateDelete(marked)
  PROVE  MenuInv'
<1> DEFINE state == [app EXCEPT !.templatesOf = None]
           done == [state EXCEPT !.mode = "Menu", !.panel = "done"]
<1>1. /\ app.open /\ app.mode = "TemplateList" /\ UNCHANGED <<etc, proc>>
      /\ agreed' = [agreed EXCEPT !.yes = TRUE]
      /\ IF marked THEN Launch(state, "RemoveTemplates", app.templatesOf, {})
                   ELSE app' = done /\ UNCHANGED job
  BY DEF ConfirmTemplateDelete, InMode, vars
<1>2. /\ job.at = "none" /\ app \in MenuState /\ job \in Jobs /\ agreed \in Answers
      /\ app.open = TRUE /\ app.user = None /\ app.pending = None
  BY <1>1, AskingIs DEF MenuState, NamesUser, Expected
<1>3. PICK u \in People \cup {None} : u = app.templatesOf
  BY <1>2 DEF MenuState
<1>4. agreed.action = "List" /\ agreed.user = u
  BY <1>1, <1>3 DEF MenuInv, AskedInv
<1>5. /\ agreed' \in Answers /\ agreed'.action = "List" /\ agreed'.user = u
      /\ agreed'.yes /\ agreed'.changed = agreed.changed
  <2>1. u \in People \cup {None} /\ None \in Actions \cup {None}
    OBVIOUS
  <2>2. QED
    BY <1>1, <1>2, <1>4, <2>1, AnswersTyped
<1>6. /\ state \in MenuState /\ state.open = TRUE /\ state.pending = None
      /\ state.user = None /\ state.templatesOf = None
      /\ state.entries = app.entries /\ state.shown = app.shown
  BY <1>2 DEF MenuState
<1>7. /\ done \in MenuState /\ done.mode = "Menu" /\ done.panel = "done"
      /\ done.pending = None /\ done.user = None /\ done.shown = app.shown
  <2> HIDE DEF state
  <2>1. QED
    BY <1>6 DEF MenuState, Modes
<1> HIDE DEF state, done
<1>8. CASE marked
  <2>1. {} \in SUBSET Files
    OBVIOUS
  <2>2. /\ Shows(TRUE, "Menu", "running", None, None, None, app.entries, app.shown)
        /\ Runs("RemoveTemplates", u, {}, "ready", TRUE)
    BY <1>1, <1>3, <1>6, <1>8, <2>1, ActionsAre, LaunchIs
  <2>3. "RemoveTemplates" \in LeadsTo("List")
    BY DEF LeadsTo
  <2>4. QED
    BY <1>1, <1>2, <1>5, <2>1, <2>2, <2>3, ActionsAre, LaunchKeeps
<1>9. CASE ~marked
  <2>1. AskedInv'
    BY <1>1, <1>7, <1>9 DEF AskedInv
  <2>2. None \in Expected("Menu") /\ "Menu" \notin NamesUser
    BY DEF Expected, NamesUser
  <2>3. QED
    BY <1>1, <1>2, <1>5, <1>7, <1>9, <2>1, <2>2, AskKeeps
<1>10. QED
  BY <1>8, <1>9

\* A yes to one of the four questions.
LEMMA ConfirmYesKeeps ==
  ASSUME MenuInv, ConfirmYes
  PROVE  MenuInv'
<1> DEFINE state == [app EXCEPT !.pending = None]
           named == [app EXCEPT !.pending = None, !.user = None]
<1>1. /\ app.open /\ app.mode # "Menu" /\ app.mode # "TemplateList" /\ UNCHANGED <<etc, proc>>
      /\ agreed' = [agreed EXCEPT !.yes = TRUE]
  BY DEF ConfirmYes, vars
<1>2. /\ job.at = "none" /\ app \in MenuState /\ job \in Jobs /\ agreed \in Answers
      /\ app.open = TRUE /\ agreed.user = app.user
      /\ app.pending \in Expected(app.mode)
      /\ app.user # None <=> app.mode \in NamesUser
  BY <1>1, AskingIs DEF MenuState
<1>3. PICK u \in People \cup {None} : u = app.user
  BY <1>2 DEF MenuState
<1>4. /\ agreed' \in Answers /\ agreed'.action = agreed.action /\ agreed'.user = u
      /\ agreed'.yes /\ agreed'.changed = agreed.changed
  <2>1. u \in People \cup {None} /\ None \in Actions \cup {None}
    OBVIOUS
  <2>2. QED
    BY <1>1, <1>2, <1>3, <2>1, AnswersTyped
<1>5. /\ state \in MenuState /\ state.open = TRUE /\ state.pending = None
      /\ state.user = app.user /\ state.templatesOf = app.templatesOf
      /\ state.entries = app.entries /\ state.shown = app.shown
  BY <1>2 DEF MenuState
<1>6. /\ named \in MenuState /\ named.open = TRUE /\ named.pending = None
      /\ named.user = None /\ named.templatesOf = app.templatesOf
      /\ named.entries = app.entries /\ named.shown = app.shown
  BY <1>2 DEF MenuState
<1> HIDE DEF state, named
<1>7. ASSUME NEW a \in Actions, a = app.pending, a \in NeedsYes \cup {"Forget"},
             \/ app.user = None /\ Launch(state, a, None, {})
             \/ Launch(named, a, app.user, {})
      PROVE  MenuInv'
  <2>1. {} \in SUBSET Files /\ None \in People \cup {None}
    OBVIOUS
  <2>2. /\ Shows(TRUE, "Menu", "running", None, None, app.templatesOf, app.entries, app.shown)
        /\ Runs(a, u, {}, "ready", TRUE)
    <3>1. CASE app.user = None /\ Launch(state, a, None, {})
      BY <1>3, <1>5, <2>1, <3>1, LaunchIs
    <3>2. CASE Launch(named, a, app.user, {})
      BY <1>3, <1>6, <2>1, <3>2, LaunchIs
    <3>3. QED
      BY <1>7, <3>1, <3>2
  <2>3. agreed.action = a
    BY <1>7, ActionsAre DEF MenuInv, AskedInv
  <2>4. a \in LeadsTo(a) /\ a \notin {"Enroll", "Configure"} /\ a # "SessionToggle"
    BY <1>7 DEF LeadsTo, NeedsYes
  <2>5. QED
    BY <1>1, <1>2, <1>4, <2>1, <2>2, <2>3, <2>4, LaunchKeeps
<1>8. CASE app.mode = "EmergencyConfirm"
  <2>1. Launch(state, "EmergencyDisable", None, {})
    BY <1>8 DEF ConfirmYes, state
  <2>2. app.user = None /\ app.pending = "EmergencyDisable"
    BY <1>2, <1>8 DEF NamesUser, Expected
  <2>3. "EmergencyDisable" \in Actions /\ "EmergencyDisable" \in NeedsYes
    BY DEF Actions, NeedsYes
  <2>4. QED
    BY <1>7, <2>1, <2>2, <2>3
<1>9. CASE app.mode = "BrokerRestartConfirm"
  <2>1. Launch(state, "BrokerRestart", None, {})
    BY <1>9 DEF ConfirmYes, state
  <2>2. app.user = None /\ app.pending = "BrokerRestart"
    BY <1>2, <1>9 DEF NamesUser, Expected
  <2>3. "BrokerRestart" \in Actions /\ "BrokerRestart" \in NeedsYes
    BY DEF Actions, NeedsYes
  <2>4. QED
    BY <1>7, <2>1, <2>2, <2>3
<1>10. CASE app.mode = "BrokerRepairConfirm"
  <2>1. Launch(state, "BrokerRepairPermissions", None, {})
    BY <1>10 DEF ConfirmYes, state
  <2>2. app.user = None /\ app.pending = "BrokerRepairPermissions"
    BY <1>2, <1>10 DEF NamesUser, Expected
  <2>3. "BrokerRepairPermissions" \in Actions /\ "BrokerRepairPermissions" \in NeedsYes
    BY DEF Actions, NeedsYes
  <2>4. QED
    BY <1>7, <2>1, <2>2, <2>3
<1>11. CASE app.mode = "ForgetConfirm"
  <2>1. Launch(named, "Forget", app.user, {})
    BY <1>11 DEF ConfirmYes, named
  <2>2. app.pending = "Forget"
    BY <1>2, <1>11 DEF Expected
  <2>3. "Forget" \in Actions
    BY DEF Actions, NeedsUser
  <2>4. QED
    BY <1>7, <2>1, <2>2, <2>3
<1>12. QED
  BY <1>8, <1>9, <1>10, <1>11 DEF ConfirmYes

LEMMA CancelInputKeeps ==
  ASSUME MenuInv, CancelInput
  PROVE  MenuInv'
<1>1. /\ app.open /\ app.mode # "Menu" /\ UNCHANGED <<etc, proc, job>>
      /\ app' = [app EXCEPT !.mode = "Menu", !.pending = None, !.user = None,
                            !.templatesOf = None, !.entries = {}]
      /\ agreed' = [Nothing EXCEPT !.changed = agreed.changed]
  BY DEF CancelInput, ForgetUser, vars
<1>2. /\ job.at = "none" /\ app \in MenuState /\ job \in Jobs /\ agreed \in Answers
      /\ app.panel = "idle"
  BY <1>1, AskingIs
<1>3. /\ app' \in MenuState /\ app'.mode = "Menu" /\ app'.pending = None
      /\ app'.user = None /\ app'.shown = app.shown /\ app'.panel = "idle"
  <2>1. {} \in SUBSET SessionServices /\ "Menu" \in Modes
    BY DEF Modes
  <2>2. QED
    BY <1>1, <1>2, <2>1 DEF MenuState
<1>4. /\ agreed' \in Answers /\ agreed'.user = None /\ agreed'.changed = agreed.changed
  BY <1>1, <1>2, NothingTyped DEF Answers
<1>5. AskedInv'
  BY <1>3, <1>4 DEF AskedInv
<1>6. None \in Expected("Menu") /\ "Menu" \notin NamesUser
  BY DEF Expected, NamesUser
<1>7. QED
  BY <1>1, <1>2, <1>3, <1>4, <1>5, <1>6, AskKeeps

\* No key breaks the invariant.
LEMMA KeyKeeps == MenuInv /\ Key => MenuInv'
<1> SUFFICES ASSUME MenuInv, Key
             PROVE  MenuInv'
  OBVIOUS
<1>1. \A extra \in {{}} \cup {{f} : f \in Typed} : extra \in SUBSET Files
  BY PamAssumption
<1>2. QED
  BY <1>1, SelectAtOnceKeeps, SelectAndAskKeeps, SelectSessionServicesKeeps, LeaveMenuKeeps,
     OpenMenuKeeps, ConfirmUsernameKeeps, ConfirmTargetsKeeps, ConfirmSampleCountKeeps,
     ConfirmPamServiceKeeps, ConfirmSessionServicesKeeps, ConfirmTemplateDeleteKeeps,
     ConfirmYesKeeps, CancelInputKeeps, BackToMenuKeeps
     DEF Key

-----------------------------------------------------------------------------
(* The thread of a command, and the others. *)

\* What the thread does to the job alone.
LEMMA JobAdvances ==
  ASSUME MenuInv, NEW at \in {"begun", "ended"}, NEW current \in BOOLEAN,
         job' = [job EXCEPT !.at = at, !.current = current]
  PROVE  Runs(job.action, job.user, job.files, at, current)
<1>1. job \in Jobs
  BY DEF MenuInv, MenuTypeOK
<1>2. QED
  BY <1>1 DEF Runs, Jobs

\* A toggle that begins does what the label it was chosen by says.
LEMMA BeginsAsShown ==
  ASSUME TypeOK, MenuInv, job.at = "ready", ~agreed.changed, BeginPamJob,
         proc'[Console].op = "toggle"
  PROVE  \/ job.action = "SudoToggle" /\ proc'[Console].enable = ~app.shown.sudo
         \/ job.action = "SessionToggle" /\ proc'[Console].enable = ~app.shown.session
         \/ job.action = "SessionToggle" /\ proc'[Console].files \cap SessionServices = {}
<1>1. Console \in Procs /\ SudoFiles \in SUBSET Files /\ SessionServices \in SUBSET Files
  BY PamAssumption, MenuAssumption
<1>2. app.shown = Labels
  BY DEF MenuInv, LabelsInv
<1>3. /\ app.shown.sudo = Enabled(SudoFiles) /\ app.shown.session = Enabled(SessionServices)
      /\ Enabled(SudoFiles) \in BOOLEAN /\ Enabled(SessionServices) \in BOOLEAN
  BY <1>2 DEF Labels, Enabled
<1>4. CASE job.action = "SudoToggle" /\ StartToggle(Console, SudoFiles, {})
  <2> DEFINE fs == {f \in SudoFiles : Exists(f)} \cup {}
             on == \E f \in fs : ~HasLine(Source(f))
  <2>1. {} \in SUBSET Files
    OBVIOUS
  <2>2. proc'[Console].enable = on /\ fs # {}
    <3>1. proc'[Console].enable = on
      BY <1>1, <1>4, <2>1, StartToggleIs DEF Begins
    <3>2. fs # {}
      BY <1>4 DEF StartToggle
    <3>3. QED
      BY <3>1, <3>2
  <2>3. on = ~Enabled(SudoFiles)
    BY <2>2 DEF Enabled
  <2> HIDE DEF on
  <2>4. QED
    BY <1>3, <1>4, <2>2, <2>3
<1>5. CASE job.action = "SessionToggle" /\ StartToggle(Console, SessionServices, job.files)
  <2> DEFINE fs == {f \in SessionServices : Exists(f)} \cup job.files
             on == \E f \in fs : ~HasLine(Source(f))
  <2>1. job.files \in SUBSET Files
    BY DEF MenuInv, MenuTypeOK, Jobs
  <2>2. proc'[Console].enable = on /\ proc'[Console].files = fs
    BY <1>1, <1>5, <2>1, StartToggleIs DEF Begins
  <2>3. ~Enabled(SessionServices)
    BY <1>3, <1>5 DEF MenuInv, LabelsInv
  <2>4. on \/ fs \cap SessionServices = {}
    <3>1. ASSUME NEW g \in SessionServices, Exists(g)
          PROVE  on
      BY <2>3, <3>1 DEF Enabled
    <3>2. ASSUME NEW g \in fs \cap SessionServices, ~Exists(g)
          PROVE  on
      BY <3>2 DEF Exists, HasLine
    <3>3. QED
      BY <3>1, <3>2
  <2> HIDE DEF on, fs
  <2>5. QED
    BY <1>3, <1>5, <2>2, <2>3, <2>4 DEF on
<1>6. CASE \/ job.action = "DisableServices"  /\ StartDisabling(Console, job.files)
           \/ job.action = "EmergencyDisable" /\ StartEmergency(Console)
  <2>1. job.files \in SUBSET Files
    BY DEF MenuInv, MenuTypeOK, Jobs
  <2>2. proc'[Console].op # "toggle"
    BY <1>1, <1>6, <2>1, StartDisablingIs, StartEmergencyIs DEF Begins
  <2>3. QED
    BY <2>2
<1>7. QED
  BY <1>4, <1>5, <1>6 DEF BeginPamJob

\* A step that leaves the labels, the answers and the job as they are, and the
\* console at work only where it was.
LEMMA ThreadKeeps ==
  ASSUME TypeOK, MenuInv, app' = app, job' = job, agreed' \in Answers,
         agreed'.action = agreed.action, agreed'.user = agreed.user, agreed'.yes = agreed.yes,
         \/ etc' = etc /\ agreed'.changed = agreed.changed
         \/ agreed'.changed \/ job.at = "begun",
         At(Console, "free")' <=> At(Console, "free"),
         Working(Console)' => /\ Working(Console)
                              /\ proc'[Console].op = proc[Console].op
                              /\ proc'[Console].enable = proc[Console].enable
                              /\ proc'[Console].files = proc[Console].files
  PROVE  MenuInv'
<1>1. MenuTypeOK'
  BY DEF MenuInv, MenuTypeOK
<1>2. LaunchedAsAgreed'
  BY DEF MenuInv, LaunchedAsAgreed
<1>3. JobInv'
  BY DEF MenuInv, JobInv
<1>4. AskedInv'
  BY DEF MenuInv, AskedInv
<1>5. etc' = etc => Labels' = Labels
  BY DEF Labels, Enabled, Exists, HasLine, Source
<1>6. LabelsInv'
  BY <1>5 DEF MenuInv, LabelsInv
<1>7. QED
  BY <1>1, <1>2, <1>3, <1>4, <1>6 DEF MenuInv

\* The console does not notice the others.
LEMMA ConsoleLeft ==
  ASSUME TypeOK, Stepping, OthersWork
  PROVE  /\ proc'[Console].at = proc[Console].at /\ proc'[Console].op = proc[Console].op
         /\ proc'[Console].enable = proc[Console].enable
         /\ proc'[Console].files = proc[Console].files
<1>1. Console \in Procs
  BY MenuAssumption
<1>2. CASE Others
  BY <1>1, <1>2, EditIs DEF Others, Disturbs
<1>3. ASSUME NEW p \in Procs \ {Console}, Work(p) \/ Crash(p) \/ Leave(p)
      PROVE  proc'[Console] = proc[Console]
  BY <1>1, <1>3, WorkKeeps DEF Keeps
<1>4. ASSUME NEW p \in Procs \ {Console}, CommandLine(p), ~Leave(p)
      PROVE  Disturbs(Console)
  <2>1. SessionServices \in SUBSET Files /\ \A extra \in SUBSET Typed : extra \in SUBSET Files
    BY PamAssumption
  <2>2. PICK op, todo, fs, enable : Begins(p, op, todo, fs, enable)
    BY <1>4, <2>1, SomethingBegins DEF CommandLine
  <2>3. QED
    BY <1>1, <2>2 DEF Begins
<1>5. QED
  BY <1>2, <1>3, <1>4 DEF OthersWork, Disturbs

\* A command begins with the labels that were shown, or is known not to be current.
LEMMA BeginJobKeeps ==
  ASSUME TypeOK, MenuInv, BeginJob
  PROVE  MenuInv'
<1>1. /\ job.at = "ready" /\ BeginPamJob /\ UNCHANGED <<app, agreed>>
      /\ job' = [job EXCEPT !.at = "begun", !.current = ~agreed.changed]
  BY DEF BeginJob
<1>2. /\ app \in MenuState /\ job \in Jobs /\ agreed \in Answers
      /\ app.open /\ app.panel = "running"
  BY <1>1 DEF MenuInv, MenuTypeOK, JobInv
<1>3. Runs(job.action, job.user, job.files, "begun", ~agreed.changed)
  <2>1. PICK c \in BOOLEAN : c = ~agreed.changed
    OBVIOUS
  <2>2. job' = [job EXCEPT !.at = "begun", !.current = c]
    BY <1>1, <2>1
  <2>3. QED
    BY <2>1, <2>2, JobAdvances
<1>4. proc'[Console].at = "next"
  <2>1. /\ Console \in Procs /\ SudoFiles \in SUBSET Files /\ SessionServices \in SUBSET Files
        /\ job.files \in SUBSET Files /\ {} \in SUBSET Files
    BY <1>2, PamAssumption, MenuAssumption DEF Jobs
  <2>2. PICK op, todo, fs, enable : Begins(Console, op, todo, fs, enable)
    BY <1>1, <2>1, SomethingBegins DEF BeginPamJob
  <2>3. QED
    BY <2>2 DEF Begins
<1>5. MenuTypeOK'
  BY <1>1, <1>3 DEF MenuInv, MenuTypeOK, Runs
<1>6. LaunchedAsAgreed'
  <2>1. job'.current => ~agreed.changed
    BY <1>3 DEF Runs
  <2>2. job'.action = job.action /\ job'.user = job.user
    BY <1>3 DEF Runs
  <2>3. /\ job.action \in LeadsTo(agreed.action) /\ job.action \notin {"Enroll", "Configure"}
        /\ job.user = agreed.user
        /\ job.action \in Destructive => agreed.yes
    BY <1>1 DEF MenuInv, LaunchedAsAgreed
  <2>4. job'.current /\ proc'[Console].op = "toggle" =>
          \/ job.action = "SudoToggle" /\ proc'[Console].enable = ~app.shown.sudo
          \/ job.action = "SessionToggle" /\ proc'[Console].enable = ~app.shown.session
          \/ job.action = "SessionToggle" /\ proc'[Console].files \cap SessionServices = {}
    BY <1>1, <2>1, BeginsAsShown
  <2>5. QED
    BY <1>1, <2>2, <2>3, <2>4 DEF LaunchedAsAgreed
<1>7. JobInv'
  BY <1>1, <1>2, <1>3, <1>4 DEF MenuInv, JobInv, Runs, At
<1>8. AskedInv'
  BY <1>1 DEF MenuInv, AskedInv
<1>9. LabelsInv'
  BY <1>1, <1>3 DEF MenuInv, LabelsInv, Runs
<1>10. QED
  BY <1>5, <1>6, <1>7, <1>8, <1>9 DEF MenuInv

\* The thread ends, with the console free.
LEMMA JobEnds ==
  ASSUME MenuInv, job.at \in {"ready", "begun"}, job' = [job EXCEPT !.at = "ended"],
         UNCHANGED <<etc, app, agreed>>, At(Console, "free")'
  PROVE  MenuInv'
<1>1. job \in Jobs
  BY DEF MenuInv, MenuTypeOK
<1>2. Runs(job.action, job.user, job.files, "ended", job.current)
  BY <1>1 DEF Runs, Jobs
<1>3. MenuTypeOK'
  BY <1>2 DEF MenuInv, MenuTypeOK, Runs
<1>4. ~Working(Console)'
  BY DEF Working, At
<1>5. LaunchedAsAgreed'
  BY <1>2, <1>4 DEF MenuInv, LaunchedAsAgreed, Runs
<1>6. JobInv' /\ AskedInv'
  BY <1>2 DEF MenuInv, JobInv, AskedInv, Runs
<1>7. LabelsInv'
  BY <1>2 DEF MenuInv, LabelsInv, Runs
<1>8. QED
  BY <1>3, <1>5, <1>6, <1>7 DEF MenuInv

LEMMA PollKeeps ==
  ASSUME MenuInv, Poll
  PROVE  MenuInv'
<1>1. /\ app.open /\ app.panel = "running" /\ job.at = "ended"
      /\ app' = [app EXCEPT !.panel = "done"] /\ UNCHANGED <<vars, job, agreed>>
  BY DEF Poll
<1>2. app \in MenuState /\ app.mode = "Menu"
  BY <1>1 DEF MenuInv, MenuTypeOK, JobInv
<1>3. Shows(app.open, "Menu", "done", app.pending, app.user, app.templatesOf,
            app.entries, app.shown)
  BY <1>1, <1>2 DEF Shows, MenuState
<1>4. MenuTypeOK'
  BY <1>1, <1>2, <1>3 DEF MenuInv, MenuTypeOK, Shows
<1>5. LaunchedAsAgreed'
  BY <1>1, <1>3 DEF MenuInv, LaunchedAsAgreed, Shows, vars, Working
<1>6. JobInv'
  BY <1>1, <1>3 DEF MenuInv, JobInv, Shows, vars, At
<1>7. AskedInv'
  BY <1>1, <1>2, <1>3 DEF MenuInv, AskedInv, Shows
<1>8. LabelsInv'
  BY <1>1, <1>3 DEF MenuInv, LabelsInv, Shows
<1>9. QED
  BY <1>4, <1>5, <1>6, <1>7, <1>8 DEF MenuInv

\* Nor does the thread of a command, or another process.
LEMMA MenuInvStep ==
  TypeOK /\ Stepping /\ MenuInv /\ [MenuNext]_allVars => MenuInv'
<1> SUFFICES ASSUME TypeOK, Stepping, MenuInv, [MenuNext]_allVars
             PROVE  MenuInv'
  OBVIOUS
<1>1. Console \in Procs
  BY MenuAssumption
<1>2. agreed \in Answers
  BY DEF MenuInv, MenuTypeOK
<1>3. CASE EndOtherJob
  <2>1. At(Console, "free")'
    BY <1>3 DEF EndOtherJob, MenuInv, JobInv, vars, At
  <2>2. QED
    BY <1>3, <2>1, JobEnds DEF EndOtherJob, vars
<1>4. CASE EndPamJob
  <2>1. At(Console, "free")'
    BY <1>1, <1>4, EndsAt DEF EndPamJob, At
  <2>2. QED
    BY <1>4, <2>1, JobEnds DEF EndPamJob, Leave
<1>5. CASE MenuDies
  <2>1. At(Console, "free")' /\ etc' = etc
    BY <1>1, <1>5, EndsAt DEF MenuDies, Crash, At
  <2>2. app' = Opened /\ job' = NoJob /\ agreed' = Nothing
    BY <1>5 DEF MenuDies
  <2>3. QED
    BY <2>1, <2>2, OpenedTyped, FreshKeeps
<1>6. CASE OwnWork
  <2>1. job.at = "begun" /\ Work(Console) /\ app' = app /\ job' = job /\ agreed' = agreed
    BY <1>6 DEF OwnWork, menuVars
  <2>2. At(Console, "free")' <=> At(Console, "free")
    BY <1>1, <2>1, WorkGoesOn DEF At
  <2>3. QED
    BY <1>1, <1>2, <2>1, <2>2, WorkGoesOn, ThreadKeeps
<1>7. CASE OthersWork
  <2>1. /\ app' = app /\ job' = job
        /\ agreed' = [agreed EXCEPT !.changed = agreed.changed \/ etc' # etc]
    BY <1>7 DEF OthersWork
  <2>2. /\ agreed' \in Answers /\ agreed'.action = agreed.action
        /\ agreed'.user = agreed.user /\ agreed'.yes = agreed.yes
        /\ \/ etc' = etc /\ agreed'.changed = agreed.changed
           \/ agreed'.changed
    BY <1>2, <2>1 DEF Answers
  <2>3. (At(Console, "free")' <=> At(Console, "free")) /\ (Working(Console)' => Working(Console))
    BY <1>7, ConsoleLeft DEF At, Working
  <2>4. QED
    BY <1>7, <2>1, <2>2, <2>3, ConsoleLeft, ThreadKeeps
<1>8. CASE UNCHANGED allVars
  BY <1>2, <1>8, ThreadKeeps DEF allVars, vars, menuVars, At, Working
<1>9. QED
  BY <1>3, <1>4, <1>5, <1>6, <1>7, <1>8, KeyKeeps, BeginJobKeeps, PollKeeps DEF MenuNext

\* The menu is opened with the labels as the files are.
LEMMA MenuInvInit == MenuInit => MenuInv
<1> SUFFICES ASSUME MenuInit
             PROVE  MenuInv
  OBVIOUS
<1>1. app = Opened /\ job = NoJob /\ agreed = Nothing /\ Init
  BY DEF MenuInit
<1>2. At(Console, "free")
  BY <1>1, MenuAssumption DEF Init, Free, At
<1>3. MenuTypeOK
  BY <1>1, OpenedTyped, NoJobTyped, NothingTyped DEF MenuTypeOK, Expected, NamesUser
<1>4. LaunchedAsAgreed
  BY <1>1, NoJobTyped DEF LaunchedAsAgreed
<1>5. JobInv
  BY <1>1, <1>2, OpenedTyped, NoJobTyped DEF JobInv
<1>6. AskedInv
  BY <1>1, OpenedTyped, NothingTyped DEF AskedInv
<1>7. LabelsInv
  BY <1>1, OpenedTyped, NoJobTyped DEF LabelsInv
<1>8. QED
  BY <1>3, <1>4, <1>5, <1>6, <1>7 DEF MenuInv

-----------------------------------------------------------------------------
(* The theorems. *)

\* To the PAM files the composed system does nothing that PamFilesProofs does
\* not know.
LEMMA MenuIsPamStep ==
  TypeOK /\ MenuInv /\ [MenuNext]_allVars => PamStep /\ events' \in 0 .. MaxEvents
<1> SUFFICES ASSUME TypeOK, MenuInv, [MenuNext]_allVars
             PROVE  PamStep /\ events' \in 0 .. MaxEvents
  OBVIOUS
<1>1. events \in 0 .. MaxEvents /\ MaxEvents \in Nat /\ Console \in Procs
  BY PamAssumption, MenuAssumption DEF TypeOK
<1>2. CASE UNCHANGED <<etc, backup, now, proc, mishaps, lost>> /\ (events' = events \/ Count)
  BY <1>1, <1>2 DEF PamStep, Count
<1>3. ASSUME Key
      PROVE  UNCHANGED <<etc, backup, now, proc, mishaps, lost>> /\ (events' = events \/ Count)
  BY <1>3 DEF Key, SelectAtOnce, SelectAndAsk, SelectSessionServices, Counted, LeaveMenu,
              OpenMenu, ConfirmUsername, ConfirmTargets, ConfirmSampleCount,
              ConfirmPamService, ConfirmSessionServices, ConfirmTemplateDelete, ConfirmYes,
              CancelInput, BackToMenu, vars
<1>4. CASE BeginJob
  <2>1. SudoFiles \in SUBSET Files /\ SessionServices \in SUBSET Files /\ {} \in SUBSET Files
    BY PamAssumption
  <2>2. job.files \in SUBSET Files
    BY DEF MenuInv, MenuTypeOK, Jobs
  <2>3. ProcStep(Console) /\ events' = events
    BY <1>4, <2>1, <2>2 DEF BeginJob, BeginPamJob, ProcStep
  <2>4. QED
    BY <1>1, <2>3 DEF PamStep
<1>5. ASSUME NEW p \in Procs, Work(p) \/ Crash(p) \/ Leave(p)
      PROVE  PamStep /\ events' = events
  BY <1>5 DEF PamStep, ProcStep, Work, Crash, Leave, ReadForSwitch, ReadForRecovery, OpenBackup,
              CopyToBackup, Install, Finish, Fail, FailAndGoOn
<1>6. ASSUME OthersWork
      PROVE  [Next]_vars
  BY <1>6 DEF OthersWork, Next
<1>7. CASE EndOtherJob \/ Poll \/ UNCHANGED allVars
  BY <1>2, <1>7 DEF EndOtherJob, Poll, allVars, vars
<1>8. QED
  BY <1>1, <1>2, <1>3, <1>4, <1>5, <1>6, <1>7, NextIsPamStep
     DEF MenuNext, EndPamJob, MenuDies, OwnWork

\* In every reachable state of the composed system both inductive invariants
\* hold: that of the PAM files, and that of the menu.
THEOREM MenuInvariant == MenuSpec => [](PamInv /\ MenuInv)
<1>1. MenuInit => PamInv /\ MenuInv
  BY PamInit, MenuInvInit DEF MenuInit
<1>2. PamInv /\ MenuInv /\ [MenuNext]_allVars => (PamInv /\ MenuInv)'
  <2> SUFFICES ASSUME PamInv, MenuInv, [MenuNext]_allVars
               PROVE  (PamInv /\ MenuInv)'
    OBVIOUS
  <2>1. TypeOK /\ Stepping
    BY DEF PamInv, Stepping
  <2>2. PamInv'
    BY <2>1, MenuIsPamStep, PamInvStep
  <2>3. MenuInv'
    BY <2>1, MenuInvStep
  <2>4. QED
    BY <2>2, <2>3
<1>3. QED
  BY <1>1, <1>2, PTL DEF MenuSpec

\* TypeOK is an invariant of the composed system: nothing the menu launches, with
\* whatever answers, brings the PAM files or the processes out of their types.
THEOREM MenuPamTypes == MenuSpec => []TypeOK
<1>1. PamInv => TypeOK
  BY DEF PamInv
<1>2. QED
  BY <1>1, MenuInvariant, PTL

\* MenuTypeOK is an invariant: the pending action and the pending user always
\* belong to the question that is asked, whatever was asked and cancelled before.
THEOREM MenuTypeCorrect == MenuSpec => []MenuTypeOK
<1>1. MenuInv => MenuTypeOK
  BY DEF MenuInv
<1>2. QED
  BY <1>1, MenuInvariant, PTL

\* The command that runs is the one chosen, for the person named last, after a
\* yes where it destroys something, and a toggle does what its label said
\* (LaunchedAsAgreed): for any sequence of keys, people, services and items.
THEOREM MenuLaunchesAsAgreed == MenuSpec => []LaunchedAsAgreed
<1>1. MenuInv => LaunchedAsAgreed
  BY DEF MenuInv
<1>2. QED
  BY <1>1, MenuInvariant, PTL

\* With the menu at work, too, no PAM file is ever emptied (FilesNeverEmptied).
THEOREM MenuFilesStayWhole ==
  ASSUME WholeInitially
  PROVE  MenuSpec => []FilesNeverEmptied
<1>1. MenuInit => WholeInv
  BY WholeInit DEF MenuInit
<1>2. (PamInv /\ MenuInv) /\ WholeInv /\ [MenuNext]_allVars => WholeInv'
  <2>1. PamInv => TypeOK /\ Stepping /\ AloneInv
    BY DEF PamInv, Stepping
  <2>2. QED
    BY <2>1, MenuIsPamStep, WholeStep
<1>3. WholeInv => FilesNeverEmptied
  BY DEF WholeInv, AllWhole, IsWhole, FilesNeverEmptied
<1>4. QED
  BY <1>1, <1>2, <1>3, MenuInvariant, PTL DEF MenuSpec

\* With the menu at work, too, a file with the line has a backup of the rest of it
\* (RecoveryPossible), though switches fail or crash, as far as MAX_BACKUPS reaches.
THEOREM MenuRecoveryPossible ==
  ASSUME OffInitially
  PROVE  MenuSpec => []RecoveryPossible
<1>1. MenuInit => RecoverInv
  BY RecoverInit DEF MenuInit
<1>2. (PamInv /\ MenuInv) /\ RecoverInv /\ [MenuNext]_allVars => RecoverInv'
  <2>1. PamInv => TypeOK /\ Stepping /\ AloneInv /\ \A p \in Procs : EmergencyInv(p)
    BY DEF PamInv, Stepping
  <2>2. QED
    BY <2>1, MenuIsPamStep, RecoverStep
<1>3. RecoverInv => RecoveryPossible
  BY DEF RecoverInv, Recoverable, RecoveryPossible, RecoverableByHand
<1>4. QED
  BY <1>1, <1>2, <1>3, MenuInvariant, PTL DEF MenuSpec

\* An emergency disable, from the menu or a shell, that ends without error,
\* undisturbed, leaves no file with a line in the spellings Facegate knows
\* (EmergencyRemovesKnown).
THEOREM MenuEmergencyRemovesKnown == MenuSpec => EmergencyRemovesKnown
<1> DEFINE A == \A p \in Procs : Completes(p, "emergency") => \A f \in Files : ~HasLine(etc[f])
<1>1. (PamInv /\ MenuInv) /\ [MenuNext]_allVars => [A]_vars
  <2>1. PamInv => TypeOK
    BY DEF PamInv
  <2>2. QED
    BY <2>1, MenuIsPamStep, EmergencyCompletes
<1>2. EmergencyRemovesKnown <=> [][A]_vars
  BY DEF EmergencyRemovesKnown
<1> HIDE DEF A
<1>3. QED
  BY <1>1, <1>2, MenuInvariant, PTL DEF MenuSpec

\* A toggle, from the menu or a shell, that ends without error, undisturbed,
\* leaves its files alike (TogglesAlike).
THEOREM MenuTogglesAlike == MenuSpec => TogglesAlike
<1> DEFINE A == \A p \in Procs : Completes(p, "toggle") =>
                  \A f \in proc[p].files : HasLine(Source(f)) = proc[p].enable
<1>1. (PamInv /\ MenuInv) /\ [MenuNext]_allVars => [A]_vars
  <2>1. PamInv => TypeOK
    BY DEF PamInv
  <2>2. QED
    BY <2>1, MenuIsPamStep, ToggleCompletes
<1>2. TogglesAlike <=> [][A]_vars
  BY DEF TogglesAlike
<1> HIDE DEF A
<1>3. QED
  BY <1>1, <1>2, MenuInvariant, PTL DEF MenuSpec

=============================================================================
