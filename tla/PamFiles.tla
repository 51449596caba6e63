------------------------------ MODULE PamFiles ------------------------------
(***************************************************************************)
(* How Facegate edits /etc/pam.d (crates/facegate_cli/src/commands:        *)
(* pam_edit.rs, sudo_toggle.rs, session_toggle.rs, emergency_disable.rs).  *)
(*                                                                         *)
(* A toggle reads whether all its files hold the facegate line and then    *)
(* switches each of them: read, copy to a backup named after the second,   *)
(* prune old backups, write a temporary file, rename.  An emergency        *)
(* disable plans from the backups and the files what to restore and what   *)
(* to strip, and does it file by file.  An error or a crash may end either *)
(* anywhere; several processes may work at once, and administrators edit   *)
(* and delete files.                                                       *)
(*                                                                         *)
(* A content is the line Facegate writes and knows again (line_matches),   *)
(* and all the rest, in which a line that loads the module may have been   *)
(* written by hand in another spelling.  The temporary file, its mode and  *)
(* its exclusive creation are ways for the rename to fail; it is never the *)
(* file of a service.                                                      *)
(***************************************************************************)
EXTENDS Naturals, FiniteSets, FiniteSetsExt

CONSTANTS
  Files,       \* PAM services
  Vendor,      \* Vendor[f]: content of /usr/lib/pam.d/f, or None
  InitialFiles,\* contents /etc/pam.d may have at first
  SudoFiles,   \* files of sudo_toggle
  SessionServices,  \* SESSION_PAM_SERVICES
  Typed,       \* services that may be named to a session toggle
  Bodies,      \* what administrators may write besides the facegate line, a line
               \* in another spelling that loads the module included
  Procs,       \* processes that edit PAM files
  MaxBackups,  \* MAX_BACKUPS
  MaxTime,     \* bound: the last second
  MaxEvents,   \* bound: commands and edits
  MaxWorking,  \* bound: processes at work at a time
  None

Seconds == 0 .. MaxTime

\* A truncated file has the body "empty".
Contents == [body : Bodies \cup {"empty"}, line : BOOLEAN]
Torn     == [body |-> "empty", line |-> FALSE]

ASSUME PamAssumption ==
  /\ MaxBackups \in Nat \ {0}
  /\ MaxTime \in Nat /\ MaxEvents \in Nat /\ MaxWorking \in Nat
  /\ "empty" \notin Bodies
  /\ None \notin Contents
  /\ Vendor \in [Files -> Contents \cup {None}]
  /\ SudoFiles \subseteq Files /\ SessionServices \subseteq Files /\ Typed \subseteq Files
  /\ \A f \in SudoFiles : Vendor[f] = None  \* sudo_toggle looks at /etc alone
  /\ InitialFiles \subseteq [Files -> Contents \cup {None}]

VARIABLES
  etc,     \* etc[f]: /etc/pam.d/f, or None
  backup,  \* backup[f][s]: /etc/pam.d/f.facegate.<s>.bak, or None
  now,     \* the wall clock when it was read last, in seconds
  events,  \* commands and edits so far
  proc,    \* proc[p]: what process p is doing
  mishaps, \* history: what has gone wrong so far (see Mishaps)
  lost     \* history: lost[f]: the backups of the switches of file f that ended
           \* before they changed it, since it was changed last

vars == <<etc, backup, now, events, proc, mishaps, lost>>

\* edited: an administrator changed a file with the line, or one a process worked
\* on; overlap: two processes worked at once; cut: a copy to a
\* backup was cut short; overwritten: a backup was overwritten by one made in the
\* same second.
Mishaps == {"edited", "overlap", "cut", "overwritten"}

Switching == {"toggle", "disable"}

\* todo: tasks not begun; files: those of the toggle; content: what is to be
\* installed in file f; source: what is being copied to backup s; alone
\* (history): nobody else has worked or edited since the process began.
Free == [op |-> "none", at |-> "free", todo |-> {}, files |-> {}, enable |-> FALSE,
         f |-> None, content |-> None, source |-> None, s |-> None, alone |-> TRUE]

Init ==
  /\ etc \in InitialFiles
  /\ backup = [f \in Files |-> [s \in Seconds |-> None]]
  /\ now = 0
  /\ events = 0
  /\ proc = [p \in Procs |-> Free]
  /\ mishaps = {}
  /\ lost = [f \in Files |-> {}]

At(p, step) == proc[p].at = step
Working(p)  == proc[p].at \in {"next", "copy", "copying", "install"}

-----------------------------------------------------------------------------
(* Reading. *)

\* The line is there in one of the two spellings that line_matches compares with.
HasLine(c) == c # None /\ c.line

\* service_path: the file in /etc hides the vendor's.
Source(f) == IF etc[f] # None THEN etc[f] ELSE Vendor[f]

Exists(f) == Source(f) # None

\* is_enabled of a toggle over the files of fs that exist.
Enabled(fs) == /\ \E f \in fs : Exists(f)
               /\ \A f \in fs : Exists(f) => HasLine(Source(f))

-----------------------------------------------------------------------------
(* Toggles. *)

Disturbed(q) == [proc[q] EXCEPT !.alone = @ /\ ~Working(q)]

\* A command begins.  Two processes at work are a mishap.
Start(p, task) ==
  LET alone == \A q \in Procs \ {p} : ~Working(q)
  IN  /\ At(p, "free")
      /\ Cardinality({q \in Procs : Working(q)}) < MaxWorking
      /\ proc' = [q \in Procs |-> IF q = p THEN [task EXCEPT !.alone = alone] ELSE Disturbed(q)]
      /\ mishaps' = mishaps \cup IF alone THEN {} ELSE {"overlap"}
      /\ UNCHANGED <<etc, backup, now, lost>>

\* Bound: MaxEvents.
Count == events < MaxEvents /\ events' = events + 1

\* Slip: what was named is looked at, not switched.
OnlyKnown(p, known, extra) ==
  LET fs == {f \in known : Exists(f)} \cup extra
  IN  /\ fs # {}
      /\ Start(p, [Free EXCEPT !.op = "toggle", !.at = "next", !.files = fs,
                               !.enable = \E f \in fs : ~HasLine(Source(f)),
                               !.todo = [kind : {"set"}, file : fs \ extra, s : {None}]])

\* run_streaming: switch on what exists of known, and extra, unless all are on.
StartToggle(p, known, extra) ==
  LET fs == {f \in known : Exists(f)} \cup extra
  IN  /\ fs # {}
      /\ Start(p, [Free EXCEPT !.op = "toggle", !.at = "next", !.files = fs,
                               !.enable = \E f \in fs : ~HasLine(Source(f)),
                               !.todo = [kind : {"set"}, file : fs, s : {None}]])

\* The services unchecked in the menu are switched off, whatever they are.
StartDisabling(p, fs) ==
  Start(p, [Free EXCEPT !.op = "disable", !.at = "next", !.files = fs,
                        !.todo = [kind : {"set"}, file : fs, s : {None}]])

\* Bound: files are taken in any order, which no property depends on.
Begin(p, task) == /\ At(p, "next") /\ task \in proc[p].todo
Rest(p, task)  == proc[p].todo \ {task}

\* Slip: it stays at its last step.
StaysAt(p) == [proc EXCEPT ![p] = [@ EXCEPT !.f = None, !.content = None,
                                            !.source = None, !.s = None]]

\* The file at hand is done with.
Onward(p) == [proc EXCEPT ![p] = [@ EXCEPT !.at = "next", !.f = None, !.content = None,
                                           !.source = None, !.s = None]]
Ended(p, at) == [proc EXCEPT ![p] = [Free EXCEPT !.op = proc[p].op, !.at = at]]

\* set_enabled and set_service_enabled: a file that is as wanted is left alone.
ReadForSwitch(p, task) ==
  LET c == Source(task.file)
  IN  /\ Begin(p, task)
      /\ task.kind = "set"
      /\ c # None
      /\ proc' = [proc EXCEPT ![p] =
           IF c.line = @.enable
           THEN [@ EXCEPT !.todo = Rest(p, task)]
           ELSE [@ EXCEPT !.todo = Rest(p, task), !.at = "copy", !.f = task.file,
                          !.content = [c EXCEPT !.line = proc[p].enable]]]
      /\ UNCHANGED <<etc, backup, now, events, mishaps, lost>>

\* The clock is read, and fs::copy opens the file anew and truncates the backup
\* of this second, if there is one.
OpenBackup(p, second) ==
  LET f == proc[p].f
  IN  /\ At(p, "copy")
      /\ Exists(f)
      /\ second >= now
      /\ now' = second
      /\ backup' = [backup EXCEPT ![f][second] = Torn]
      /\ proc' = [proc EXCEPT ![p].at = "copying", ![p].source = Source(f), ![p].s = second]
      /\ mishaps' = mishaps \cup IF backup[f][second] # None THEN {"overwritten"} ELSE {}
      /\ UNCHANGED <<etc, events, lost>>

\* Slip: off by one.
PruneOneMore(b) ==
  LET kept == {s \in Seconds : b[s] # None}
  IN  [s \in Seconds |->
         IF Cardinality({r \in kept : r >= s}) < MaxBackups THEN b[s] ELSE None]

\* prune_old_backups: the MaxBackups newest stay.
Prune(b) ==
  LET kept == {s \in Seconds : b[s] # None}
  IN  [s \in Seconds |-> IF Cardinality({r \in kept : r > s}) < MaxBackups THEN b[s] ELSE None]

CopyToBackup(p) ==
  LET f == proc[p].f
  IN  /\ At(p, "copying")
      /\ backup' = [backup EXCEPT ![f] = Prune([@ EXCEPT ![proc[p].s] = proc[p].source])]
      /\ proc' = [proc EXCEPT ![p].at = "install"]
      /\ UNCHANGED <<etc, now, events, mishaps, lost>>

\* Slip: the new content is built from an empty file.
InstallOnlyLine(p) ==
  /\ At(p, "install")
  /\ etc' = [etc EXCEPT ![proc[p].f] = [Torn EXCEPT !.line = proc[p].enable]]
  /\ proc' = Onward(p)
  /\ lost' = [lost EXCEPT ![proc[p].f] = {}]
  /\ UNCHANGED <<backup, now, events, mishaps>>

\* write_file_atomic: the new content is renamed over the file.
Install(p) ==
  /\ At(p, "install")
  /\ etc' = [etc EXCEPT ![proc[p].f] = proc[p].content]
  /\ proc' = Onward(p)
  /\ lost' = [lost EXCEPT ![proc[p].f] = {}]
  /\ UNCHANGED <<backup, now, events, mishaps>>

-----------------------------------------------------------------------------
(* Emergency disable. *)

\* Slip: any backup will do.
Whichever(f) == {s \in Seconds : backup[f][s] # None}

\* The backups of file f in which the line is not found.
Clean(f) == {s \in Seconds : backup[f][s] # None /\ ~backup[f][s].line}

\* A missing or unreadable file reads as an empty one.
TextOf(c) == IF c = None THEN Torn ELSE c

\* plan_emergency_restore: the newest clean backup of each file, where the file
\* differs from it; any other file that has the line is stripped of it.
Plan ==
  LET restored == {f \in Files : /\ Clean(f) # {}
                                 /\ TextOf(etc[f]) # backup[f][Max(Clean(f))]}
      stripped == {f \in Files : HasLine(etc[f])} \ restored
  IN  {[kind |-> "restore", file |-> f, s |-> Max(Clean(f))] : f \in restored}
        \cup [kind : {"strip"}, file : stripped, s : {None}]

StartEmergency(p) ==
  Start(p, [Free EXCEPT !.op = "emergency", !.at = "next", !.todo = Plan])

\* apply_emergency_action reads the backup, or the file, again.
ReadForRecovery(p, task) ==
  LET c == IF task.kind = "restore" THEN backup[task.file][task.s] ELSE etc[task.file]
  IN  /\ Begin(p, task)
      /\ task.kind # "set"
      /\ c # None
      /\ proc' = [proc EXCEPT ![p].todo = Rest(p, task), ![p].at = "install",
                              ![p].f = task.file,
                              ![p].content = IF task.kind = "strip"
                                             THEN [c EXCEPT !.line = FALSE] ELSE c]
      /\ UNCHANGED <<etc, backup, now, events, mishaps, lost>>

-----------------------------------------------------------------------------
(* Ends. *)

Finish(p) ==
  /\ At(p, "next")
  /\ proc[p].todo = {}
  /\ proc' = Ended(p, "done")
  /\ UNCHANGED <<etc, backup, now, events, mishaps, lost>>

\* A switch that ends with its backup begun leaves the backup, maybe torn.
CutShort(p) ==
  /\ mishaps' = mishaps \cup IF At(p, "copying") THEN {"cut"} ELSE {}
  /\ lost' = IF proc[p].op \in Switching /\ proc[p].at \in {"copying", "install"}
             THEN [lost EXCEPT ![proc[p].f] = @ \cup {proc[p].s}] ELSE lost

\* The file is missing, or opening, copying, writing or renaming fails: toggles
\* and the emergency disable end there.
Fail(p) ==
  /\ Working(p)
  /\ proc[p].op # "disable"
  /\ ~(At(p, "next") /\ proc[p].todo = {})
  /\ proc' = Ended(p, "failed")
  /\ CutShort(p)
  /\ UNCHANGED <<etc, backup, now, events>>

\* The menu goes on with the next of its services.
FailAndGoOn(p) ==
  /\ proc[p].op = "disable"
  /\ \/ \E task \in proc[p].todo : /\ Begin(p, task)
                                   /\ proc' = [proc EXCEPT ![p].todo = Rest(p, task)]
     \/ /\ Working(p) /\ ~At(p, "next")
        /\ proc' = Onward(p)
  /\ CutShort(p)
  /\ UNCHANGED <<etc, backup, now, events>>

Crash(p) ==
  /\ Working(p)
  /\ proc' = [proc EXCEPT ![p] = Free]
  /\ CutShort(p)
  /\ UNCHANGED <<etc, backup, now, events>>

Leave(p) ==
  /\ At(p, "done") \/ At(p, "failed")
  /\ proc' = [proc EXCEPT ![p] = Free]
  /\ UNCHANGED <<etc, backup, now, events, mishaps, lost>>

-----------------------------------------------------------------------------
(* Surroundings. *)

\* An administrator or a package rewrites a file, or deletes it.
Edit(f, body) ==
  /\ Count
  /\ etc[f] # None /\ etc[f].body # body
  /\ etc' = [etc EXCEPT ![f] = IF body = None THEN None ELSE [@ EXCEPT !.body = body]]
  /\ mishaps' = mishaps \cup
       IF etc[f].line \/ \E p \in Procs : Working(p) THEN {"edited"} ELSE {}
  /\ proc' = [p \in Procs |-> Disturbed(p)]
  /\ UNCHANGED <<backup, now, lost>>

\* What a process does once its command has begun.
Work(p) ==
  \/ \E task \in proc[p].todo : ReadForSwitch(p, task) \/ ReadForRecovery(p, task)
  \/ \E second \in Seconds : OpenBackup(p, second)
  \/ CopyToBackup(p) \/ Install(p) \/ Finish(p)
  \/ Fail(p) \/ FailAndGoOn(p)

\* facegate session-auth, with services or files of its own, and facegate
\* emergency-disable, from a shell.
CommandLine(p) ==
  \/ /\ Count
     /\ \/ \E extra \in SUBSET Typed : StartToggle(p, SessionServices, extra)
        \/ StartEmergency(p)
  \/ Leave(p)

Others == \E f \in Files, body \in Bodies \cup {None} : Edit(f, body)

Next == Others \/ \E p \in Procs : Work(p) \/ CommandLine(p) \/ Crash(p)

Spec == Init /\ [][Next]_vars

-----------------------------------------------------------------------------
(* Properties. *)

Tasks == [kind : {"set", "restore", "strip"}, file : Files, s : Seconds \cup {None}]

Process == [op : Switching \cup {"none", "emergency"},
            at : {"free", "next", "copy", "copying", "install", "done", "failed"},
            todo : SUBSET Tasks, files : SUBSET Files, enable : BOOLEAN,
            f : Files \cup {None}, content : Contents \cup {None},
            source : Contents \cup {None}, s : Seconds \cup {None}, alone : BOOLEAN]

TypeOK ==
  /\ etc \in [Files -> Contents \cup {None}]
  /\ backup \in [Files -> [Seconds -> Contents \cup {None}]]
  /\ now \in Seconds
  /\ events \in 0 .. MaxEvents
  /\ mishaps \subseteq Mishaps
  /\ lost \in [Files -> SUBSET Seconds]
  /\ proc \in [Procs -> Process]
  /\ \A p \in Procs : proc[p].at \in {"copy", "copying", "install"} => proc[p].content # None

\* No PAM file is ever emptied, whatever fails: not by an edit, which replaces
\* the file in one step (pam_edit.rs:169), and not by restoring a backup, unless
\* the copying of a backup was cut short, or another process is amid it
\* (pam_edit.rs:116).
FilesNeverEmptied ==
  mishaps \cap {"cut", "overlap"} = {} =>
    \A f \in Files : etc[f] # None => etc[f].body # "empty"

\* A file with the line and a body that is also in a backup without the line.
RecoverableByHand(f) == \E s \in Clean(f) : backup[f][s].body = etc[f].body

\* While a file has the line, a backup of the rest of it without the line is
\* there (pam_edit.rs:62), though switches fail or crash at any step, as long as
\* MAX_BACKUPS has room for the backups of those that ended so since the file was
\* changed last, for the clean one, and for one more: with three backups one
\* switch may be lost, and the next still be tried.  Not if an administrator edits
\* a file with the line, commands overlap, or two backups are made in a second.
RecoveryPossible ==
  mishaps \subseteq {"cut"} =>
    \A f \in Files : HasLine(etc[f]) /\ Cardinality(lost[f]) + 2 <= MaxBackups =>
      RecoverableByHand(f)

\* p ends without error, and undisturbed.
Completes(p, op) == proc[p].op = op /\ proc[p].alone /\ At(p, "next") /\ At(p, "done")'

\* When an emergency disable ends without error, no file has a line that Facegate
\* writes or has written (pam_edit.rs:14, 18), whatever crashed or failed before;
\* unless others change files at the time.  A line that loads the module in another
\* spelling (pam.md:27) is not known: it may stay, or come back with a backup.
EmergencyRemovesKnown ==
  [][\A p \in Procs : Completes(p, "emergency") => \A f \in Files : ~HasLine(etc[f])]_vars

\* A toggle that ends without error leaves all its files alike: with the line if
\* one of them was without it, and else without (sudo_toggle.rs:43).
TogglesAlike ==
  [][\A p \in Procs : Completes(p, "toggle") =>
       \A f \in proc[p].files : HasLine(Source(f)) = proc[p].enable]_vars

-----------------------------------------------------------------------------
(* Inductive strengthening of the properties, for the proofs. *)

AtFile(p) == proc[p].at \in {"copy", "copying", "install"}

\* What a process in state r has at its step.
StepInv(r) ==
  /\ r.at \in {"copy", "copying", "install"} => r.f \in Files /\ r.content # None
  /\ r.at = "copy" => r.op \in Switching
  /\ r.at = "copying" => r.op \in Switching /\ r.source # None /\ r.s \in Seconds
  /\ r.at \in {"next", "install"} => r.op \in Switching \cup {"emergency"}
  /\ r.at = "install" /\ r.op \in Switching => r.s \in Seconds
  /\ r.at \in {"copy", "copying", "install"} /\ r.op \in Switching => r.content.line = r.enable
  /\ \A task \in r.todo : /\ task.kind = "set" <=> r.op \in Switching
                          /\ task.kind = "restore" => task.s \in Seconds

\* Who works alone is the only one at work; without overlaps and edits everybody is.
AloneInv ==
  /\ \A p, q \in Procs : Working(p) /\ proc[p].alone /\ Working(q) => p = q
  /\ "overlap" \notin mishaps => \A p, q \in Procs : Working(p) /\ Working(q) => p = q
  /\ mishaps \cap {"edited", "overlap"} = {} => \A p \in Procs : Working(p) => proc[p].alone

\* An emergency disable still has to do with every file that has the line, and
\* what it will restore is without it.
EmergencyInv(p) ==
  proc[p].op = "emergency" /\ Working(p) /\ proc[p].alone =>
    /\ \A f \in Files : HasLine(etc[f]) => \/ \E task \in proc[p].todo : task.file = f
                                           \/ At(p, "install") /\ proc[p].f = f
    /\ \A task \in proc[p].todo : task.kind = "restore" => task.s \in Clean(task.file)
    /\ At(p, "install") => ~proc[p].content.line

\* A toggle has switched each of its files that it need not look at any more.
ToggleInv(p) ==
  proc[p].op = "toggle" /\ Working(p) /\ proc[p].alone =>
    \A f \in proc[p].files : \/ \E task \in proc[p].todo : task.file = f
                             \/ AtFile(p) /\ proc[p].f = f
                             \/ HasLine(Source(f)) = proc[p].enable

PamInv == /\ TypeOK
          /\ \A p \in Procs : StepInv(proc[p]) /\ EmergencyInv(p) /\ ToggleInv(p)
          /\ AloneInv

IsWhole(c) == c # None => c.body # "empty"

\* No file is empty to begin with.
WholeInitially == /\ \A fs \in InitialFiles : \A f \in Files : IsWhole(fs[f])
                  /\ \A f \in Files : IsWhole(Vendor[f])

\* The only incomplete backup is the one that is being made.
AllWhole ==
  /\ \A f \in Files : IsWhole(etc[f])
  /\ \A p \in Procs : IsWhole(proc[p].content) /\ IsWhole(proc[p].source)
  /\ \A f \in Files, s \in Seconds : ~IsWhole(backup[f][s]) =>
       \E p \in Procs : At(p, "copying") /\ proc[p].f = f /\ proc[p].s = s

WholeInv == mishaps \cap {"cut", "overlap"} = {} => AllWhole

\* Facegate has not been switched on yet.
OffInitially == \A fs \in InitialFiles : \A f \in Files : ~HasLine(fs[f])

\* p has backed up, or is backing up, file f at second s.
BacksUp(p, f, s) == /\ proc[p].at \in {"copying", "install"}
                    /\ proc[p].op \in Switching
                    /\ proc[p].f = f /\ proc[p].s = s

Newest(f, s) == \A r \in Seconds : backup[f][r] # None => r <= s

\* p switches the file as it still is, and has made its newest backup of that.
SwitchInv(p) ==
  LET f == proc[p].f
  IN  AtFile(p) /\ proc[p].op \in Switching =>
        /\ Source(f) # None
        /\ proc[p].content.body = Source(f).body
        /\ proc[p].content.line # Source(f).line
        /\ At(p, "copying") => /\ proc[p].source = Source(f)
                               /\ Newest(f, proc[p].s) /\ proc[p].s <= now
        /\ At(p, "install") => backup[f][proc[p].s] = Source(f) /\ Newest(f, proc[p].s)

\* The backups newer than s are those of switches under way or lost, and s is not
\* that of one under way.
KeepsFrom(f, s) ==
  /\ \A p \in Procs : ~BacksUp(p, f, s)
  /\ \A r \in Seconds : backup[f][r] # None /\ r > s =>
       r \in lost[f] \/ \E p \in Procs : BacksUp(p, f, r)

Recoverable ==
  /\ \A f \in Files : Newest(f, now)
  /\ \A p \in Procs : SwitchInv(p)
  /\ \A f \in Files : HasLine(etc[f]) /\ Cardinality(lost[f]) + 2 <= MaxBackups =>
       \E s \in Clean(f) : backup[f][s].body = etc[f].body /\ KeepsFrom(f, s)

RecoverInv == mishaps \subseteq {"cut"} => Recoverable

=============================================================================
