-------------------------------- MODULE Menu --------------------------------
(***************************************************************************)
(* The main menu (crates/facegate_cli/src/tui/main_menu.rs), composed with *)
(* the PAM files its commands edit.                                        *)
(*                                                                         *)
(* The menu is one thread that handles keys; a command it launches runs on *)
(* a second one, which reports through a channel.  What the menu has asked *)
(* so far is kept in an input mode, a pending action and a pending user.   *)
(* The labels of the toggles are those of the time they were drawn, while  *)
(* a toggle decides from the files when it runs; other processes edit the  *)
(* files meanwhile.                                                        *)
(*                                                                         *)
(* Keys that move a cursor, type into a field or tick a box only change    *)
(* what the confirmation that follows chooses, so the choice is made there.*)
(* Of the commands only those that edit PAM files are carried out in steps *)
(* here.                                                                   *)
(***************************************************************************)
EXTENDS PamFiles

CONSTANTS
  Console,  \* the process of the menu
  People,   \* user names that may be typed
  Items     \* the actions on offer

AtOnce     == {"Status", "Logs", "Doctor", "SudoToggle", "WatchToggle", "CameraTest",
               "Cameras", "Users", "Broker", "BrokerHealth", "BrokerLogs"}
NeedsUser  == {"Enroll", "List", "Test", "Calibrate", "Forget"}
NeedsYes   == {"EmergencyDisable", "BrokerRestart", "BrokerRepairPermissions"}
AddActions == {"AddSudo", "AddSession", "AddBoth"}
CalibrateActions == {"Calibrate", "CalibrateSudo", "CalibrateSession"}

\* enum Action, and what two lists start without one: the deletion of marked
\* templates and the switching off of services.
Actions == AtOnce \cup NeedsUser \cup NeedsYes \cup AddActions \cup CalibrateActions
             \cup {"SessionToggle", "Configure", "RemoveTemplates", "DisableServices"}

Modes == {"Menu", "UsernameInput", "SampleCountInput", "PamServiceInput",
          "EnrollTargetSelect", "CalibrationTargetSelect", "SessionServiceSelect",
          "TemplateList", "EmergencyConfirm", "ForgetConfirm",
          "BrokerRestartConfirm", "BrokerRepairConfirm"}

ASSUME MenuAssumption ==
  /\ Console \in Procs
  /\ Items \subseteq AtOnce \cup NeedsUser \cup NeedsYes \cup {"SessionToggle", "Configure"}
  /\ None \notin People \cup Actions

VARIABLES
  app,     \* the state of the menu
  job,     \* the command launched last
  agreed   \* history: what the user was shown and said since the menu was idle

menuVars == <<app, job, agreed>>
allVars  == <<vars, menuVars>>

Labels == [sudo |-> Enabled(SudoFiles), session |-> Enabled(SessionServices)]

Opened == [open |-> TRUE, mode |-> "Menu", panel |-> "idle", pending |-> None,
           user |-> None, templatesOf |-> None, entries |-> {}, shown |-> Labels]

NoJob == [action |-> None, user |-> None, files |-> {}, at |-> "none", current |-> TRUE]

\* changed: others changed a PAM file since the labels were drawn.
Nothing == [action |-> None, user |-> None, yes |-> FALSE, changed |-> FALSE]

MenuInit ==
  /\ Init
  /\ app = Opened
  /\ job = NoJob
  /\ agreed = Nothing

Set(changes) == app' = changes
Idle == app.open /\ app.mode = "Menu" /\ app.panel = "idle"

InMode(mode) == app.open /\ app.mode = mode

\* launch: a thread is started; the panel shows that it runs.
Launch(state, action, user, fs) ==
  /\ app' = [state EXCEPT !.mode = "Menu", !.panel = "running"]
  /\ job' = [action |-> action, user |-> user, files |-> fs, at |-> "ready", current |-> TRUE]

\* Bound: what is selected counts as an event.
Counted == Count /\ UNCHANGED <<etc, backup, now, proc, mishaps, lost>>

-----------------------------------------------------------------------------
(* Keys. *)

\* Enter on an item that can be launched at once.
SelectAtOnce(a) ==
  /\ Idle
  /\ a \in Items \cap AtOnce
  /\ Launch(app, a, None, {})
  /\ agreed' = [agreed EXCEPT !.action = a]
  /\ Counted

ModeFor(a) ==
  CASE a \in NeedsUser                  -> "UsernameInput"
    [] a = "EmergencyDisable"           -> "EmergencyConfirm"
    [] a = "BrokerRestart"              -> "BrokerRestartConfirm"
    [] a = "BrokerRepairPermissions"    -> "BrokerRepairConfirm"
    [] a = "SessionToggle"              -> "PamServiceInput"

\* Enter on one that needs an answer first.
SelectAndAsk(a) ==
  /\ Idle
  /\ a \in Items \cap (NeedsUser \cup NeedsYes \cup {"SessionToggle"})
  /\ a = "SessionToggle" => ~app.shown.session
  /\ app' = [app EXCEPT !.pending = a, !.mode = ModeFor(a)]
  /\ agreed' = [agreed EXCEPT !.action = a]
  /\ Counted
  /\ UNCHANGED job

\* Enter on Disable Session Auth: the services that have the line are listed.
SelectSessionServices ==
  /\ Idle
  /\ "SessionToggle" \in Items
  /\ app.shown.session
  /\ app' = [app EXCEPT !.mode = "SessionServiceSelect",
                        !.entries = {f \in SessionServices : HasLine(Source(f))}]
  /\ agreed' = [agreed EXCEPT !.action = "DisableServices"]
  /\ Counted
  /\ UNCHANGED job

\* Configure, and Quit: the menu is left; Configure comes back to a new one.
LeaveMenu ==
  /\ \/ Idle
     \/ app.open /\ app.mode = "Menu" /\ app.panel = "done"
  /\ app' = [Opened EXCEPT !.open = FALSE]
  /\ job' = NoJob
  /\ agreed' = Nothing
  /\ UNCHANGED vars

OpenMenu ==
  /\ ~app.open
  /\ app' = Opened
  /\ agreed' = Nothing
  /\ UNCHANGED <<vars, job>>

\* Enter on a user name.
NameGiven(u) ==
  CASE app.pending = "Enroll"    -> [app EXCEPT !.user = u, !.mode = "EnrollTargetSelect"]
    [] app.pending = "Forget"    -> [app EXCEPT !.user = u, !.mode = "ForgetConfirm"]
    [] app.pending = "Calibrate" -> [app EXCEPT !.user = u, !.mode = "CalibrationTargetSelect"]

ConfirmUsername(u) ==
  /\ InMode("UsernameInput")
  /\ IF app.pending \in {"Enroll", "Forget", "Calibrate"}
     THEN app' = NameGiven(u) /\ UNCHANGED job
     ELSE IF app.pending = "List"
     THEN /\ \/ app' = [app EXCEPT !.pending = None, !.mode = "TemplateList",
                                   !.templatesOf = u]
             \/ app' = [app EXCEPT !.pending = None, !.mode = "Menu", !.panel = "done"]
          /\ UNCHANGED job
     ELSE Launch([app EXCEPT !.pending = None], app.pending, u, {})
  /\ agreed' = [agreed EXCEPT !.user = u]
  /\ UNCHANGED vars

\* Enter on the scopes to enroll or calibrate for, and on the number of samples.
ConfirmTargets(a) ==
  /\ \/ InMode("EnrollTargetSelect") /\ a \in AddActions
     \/ InMode("CalibrationTargetSelect") /\ a \in CalibrateActions
  /\ app' = [app EXCEPT !.pending = a, !.mode = "SampleCountInput"]
  /\ agreed' = [agreed EXCEPT !.action = a]
  /\ UNCHANGED <<vars, job>>

ConfirmSampleCount ==
  /\ InMode("SampleCountInput")
  /\ app.pending # None /\ app.user # None
  /\ Launch([app EXCEPT !.pending = None, !.user = None], app.pending, app.user, {})
  /\ UNCHANGED <<vars, agreed>>

\* Enter on the field for a PAM service, which may be left empty.
ConfirmPamService(extra) ==
  /\ InMode("PamServiceInput")
  /\ app.pending # None
  /\ Launch([app EXCEPT !.pending = None], app.pending, None, extra)
  /\ UNCHANGED <<vars, agreed>>

\* Enter on the list of services, some of them unticked.
ConfirmSessionServices(fs) ==
  /\ InMode("SessionServiceSelect")
  /\ fs \subseteq app.entries
  /\ Launch([app EXCEPT !.entries = {}], "DisableServices", None, fs)
  /\ UNCHANGED <<vars, agreed>>

\* Enter on the list of templates: a thread is started if some are marked.
ConfirmTemplateDelete(marked) ==
  /\ InMode("TemplateList")
  /\ LET state == [app EXCEPT !.templatesOf = None]
     IN  IF marked THEN Launch(state, "RemoveTemplates", app.templatesOf, {})
         ELSE /\ app' = [state EXCEPT !.mode = "Menu", !.panel = "done"]
              /\ UNCHANGED job
  /\ agreed' = [agreed EXCEPT !.yes = TRUE]
  /\ UNCHANGED vars

\* y on a question.
ConfirmYes ==
  /\ app.open
  /\ \/ /\ app.mode = "EmergencyConfirm"
        /\ Launch([app EXCEPT !.pending = None], "EmergencyDisable", None, {})
     \/ /\ app.mode = "BrokerRestartConfirm"
        /\ Launch([app EXCEPT !.pending = None], "BrokerRestart", None, {})
     \/ /\ app.mode = "BrokerRepairConfirm"
        /\ Launch([app EXCEPT !.pending = None], "BrokerRepairPermissions", None, {})
     \/ /\ app.mode = "ForgetConfirm"
        /\ Launch([app EXCEPT !.pending = None, !.user = None], "Forget", app.user, {})
  /\ agreed' = [agreed EXCEPT !.yes = TRUE]
  /\ UNCHANGED vars

\* Slip: who was named stays named.
KeepUser == app.user

\* cancel_input forgets who was named.
ForgetUser == None

CancelInput ==
  /\ app.open /\ app.mode # "Menu"
  /\ app' = [app EXCEPT !.mode = "Menu", !.pending = None, !.user = ForgetUser,
                        !.templatesOf = None, !.entries = {}]
  /\ agreed' = [Nothing EXCEPT !.changed = agreed.changed]
  /\ UNCHANGED <<vars, job>>

\* Slip: the labels are not drawn anew.
OldLabels == app.shown

\* The labels as the files are now.
FreshLabels == Labels

BackToMenu ==
  /\ app.open /\ app.mode = "Menu" /\ app.panel = "done"
  /\ app' = [app EXCEPT !.panel = "idle", !.shown = FreshLabels]
  /\ job' = NoJob
  /\ agreed' = Nothing
  /\ UNCHANGED vars

-----------------------------------------------------------------------------
(* The thread of a command. *)

\* A command that edits PAM files begins.
BeginPamJob ==
  \/ job.action = "SudoToggle"       /\ StartToggle(Console, SudoFiles, {})
  \/ job.action = "SessionToggle"    /\ StartToggle(Console, SessionServices, job.files)
  \/ job.action = "DisableServices"  /\ StartDisabling(Console, job.files)
  \/ job.action = "EmergencyDisable" /\ StartEmergency(Console)

BeginJob ==
  /\ job.at = "ready"
  /\ BeginPamJob /\ UNCHANGED events
  /\ job' = [job EXCEPT !.at = "begun", !.current = ~agreed.changed]
  /\ UNCHANGED <<app, agreed>>

\* Any other command is carried out, and a toggle that finds no file ends.
NoFile(fs) == \A f \in fs : ~Exists(f)

EndOtherJob ==
  /\ job.at = "ready"
  /\ job.action \notin {"DisableServices", "EmergencyDisable"}
  /\ job.action = "SudoToggle" => NoFile(SudoFiles)
  /\ job.action = "SessionToggle" => job.files = {} /\ NoFile(SessionServices)
  /\ job' = [job EXCEPT !.at = "ended"]
  /\ UNCHANGED <<vars, app, agreed>>

EndPamJob ==
  /\ job.at = "begun"
  /\ Leave(Console)
  /\ job' = [job EXCEPT !.at = "ended"]
  /\ UNCHANGED <<app, agreed>>

\* poll_channel: the channel is closed when the thread has ended.
Poll ==
  /\ app.open /\ app.panel = "running"
  /\ job.at = "ended"
  /\ app' = [app EXCEPT !.panel = "done"]
  /\ UNCHANGED <<vars, job, agreed>>

\* The process of the menu dies, and with it the thread; it is started again.
MenuDies ==
  /\ job.at = "begun"
  /\ Crash(Console)
  /\ app' = Opened
  /\ job' = NoJob
  /\ agreed' = Nothing

-----------------------------------------------------------------------------

Key ==
  \/ \E a \in Items : SelectAtOnce(a) \/ SelectAndAsk(a)
  \/ SelectSessionServices \/ LeaveMenu \/ OpenMenu
  \/ \E u \in People : ConfirmUsername(u)
  \/ \E a \in AddActions \cup CalibrateActions : ConfirmTargets(a)
  \/ ConfirmSampleCount
  \/ \E extra \in {{}} \cup {{f} : f \in Typed} : ConfirmPamService(extra)
  \/ \E fs \in SUBSET app.entries : ConfirmSessionServices(fs)
  \/ \E marked \in BOOLEAN : ConfirmTemplateDelete(marked)
  \/ ConfirmYes \/ CancelInput \/ BackToMenu

\* What goes on besides the menu's keys: its thread works, other processes run
\* commands, administrators edit files.
OwnWork == job.at = "begun" /\ Work(Console) /\ UNCHANGED menuVars

OthersWork ==
  /\ Others \/ \E p \in Procs \ {Console} : Work(p) \/ CommandLine(p) \/ Crash(p)
  /\ agreed' = [agreed EXCEPT !.changed = @ \/ etc' # etc]
  /\ UNCHANGED <<app, job>>

MenuNext ==
  Key \/ BeginJob \/ EndOtherJob \/ EndPamJob \/ Poll \/ MenuDies \/ OwnWork \/ OthersWork

MenuSpec == MenuInit /\ [][MenuNext]_allVars

-----------------------------------------------------------------------------
(* Properties. *)

MenuState ==
  [open : BOOLEAN, mode : Modes, panel : {"idle", "running", "done"},
   pending : Actions \cup {None}, user : People \cup {None}, templatesOf : People \cup {None},
   entries : SUBSET SessionServices, shown : [sudo : BOOLEAN, session : BOOLEAN]]

Jobs == [action : Actions \cup {None}, user : People \cup {None}, files : SUBSET Files,
         at : {"none", "ready", "begun", "ended"}, current : BOOLEAN]

Answers == [action : Actions \cup {None}, user : People \cup {None},
            yes : BOOLEAN, changed : BOOLEAN]

\* The pending action and user belong to the question that is asked; nothing is
\* pending in the menu itself, so that an answer never meets the wrong question.
Expected(mode) ==
  CASE mode = "UsernameInput"           -> NeedsUser
    [] mode = "SampleCountInput"        -> AddActions \cup CalibrateActions
    [] mode = "PamServiceInput"         -> {"SessionToggle"}
    [] mode = "EnrollTargetSelect"      -> {"Enroll"}
    [] mode = "CalibrationTargetSelect" -> {"Calibrate"}
    [] mode = "ForgetConfirm"           -> {"Forget"}
    [] mode = "EmergencyConfirm"        -> {"EmergencyDisable"}
    [] mode = "BrokerRestartConfirm"    -> {"BrokerRestart"}
    [] mode = "BrokerRepairConfirm"     -> {"BrokerRepairPermissions"}
    [] OTHER                            -> {None}

NamesUser == {"SampleCountInput", "EnrollTargetSelect", "CalibrationTargetSelect",
              "ForgetConfirm"}

MenuTypeOK ==
  /\ app \in MenuState /\ job \in Jobs /\ agreed \in Answers
  /\ app.pending \in Expected(app.mode)
  /\ app.user # None <=> app.mode \in NamesUser

\* What a choice in the menu may lead to.
LeadsTo(a) == CASE a = "Enroll"    -> AddActions
                [] a = "Calibrate" -> CalibrateActions
                [] a = "List"      -> {"RemoveTemplates"}
                [] OTHER           -> {a}

Destructive == NeedsYes \cup {"Forget", "RemoveTemplates"}

\* Whatever keys were pressed before, and whatever was cancelled, the command
\* that runs is the one chosen, for the person named last, after a yes where it
\* destroys something (main_menu.rs:929); and a toggle does what its label said
\* (main_menu.rs:576), unless others changed the files since it was drawn, or
\* there is no session service but the one typed.
LaunchedAsAgreed ==
  job.at # "none" =>
    /\ job.action \in LeadsTo(agreed.action)
    /\ job.action \notin {"Enroll", "Configure"}
    /\ job.user = agreed.user
    /\ job.action \in Destructive => agreed.yes
    /\ job.current /\ Working(Console) /\ proc[Console].op = "toggle" =>
         \/ job.action = "SudoToggle" /\ proc[Console].enable = ~app.shown.sudo
         \/ job.action = "SessionToggle" /\ proc[Console].enable = ~app.shown.session
         \/ job.action = "SessionToggle" /\ proc[Console].files \cap SessionServices = {}

-----------------------------------------------------------------------------
(* Inductive strengthening of the properties, for the proofs. *)

\* A command runs in the open menu, whose panel shows it; questions are asked
\* when none does.  The thread edits PAM files while it has begun.
JobInv ==
  /\ app.mode # "Menu" => app.panel = "idle"
  /\ job.at \in {"ready", "begun"} => app.open /\ app.panel = "running"
  /\ job.at = "ended" => app.open /\ app.panel \in {"running", "done"}
  /\ job.at = "begun" <=> ~At(Console, "free")

\* The question asked is about what was chosen, and for whom.
AskedInv ==
  /\ app.pending # None => agreed.action = app.pending
  /\ app.mode = "SessionServiceSelect" => agreed.action = "DisableServices"
  /\ app.mode = "TemplateList" => agreed.action = "List" /\ agreed.user = app.templatesOf
  /\ app.mode \notin {"Menu", "TemplateList"} => agreed.user = app.user
  /\ app.mode = "Menu" /\ app.panel = "idle" => agreed.user = None

\* Until a command begins, the labels are true if no other changed the files;
\* enabling session authentication is offered only where the label says so.
LabelsInv ==
  /\ job.at \in {"none", "ready"} /\ ~agreed.changed => app.shown = Labels
  /\ \/ app.mode = "PamServiceInput"
     \/ job.at # "none" /\ job.action = "SessionToggle"
     => ~app.shown.session

MenuInv == MenuTypeOK /\ LaunchedAsAgreed /\ JobInv /\ AskedInv /\ LabelsInv

=============================================================================
