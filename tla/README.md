# A TLA+ model of Facegate

Facegate is face authentication for Linux: a privileged broker keeps face
templates and decides match requests; a PAM module, a command line tool and a
screen-unlock daemon ask it. This directory holds a specification of the
program in TLA+, TLC instances that model-check it, and proofs for TLAPS.

To check a run: `tlc -config <run>.cfg <MC module>.tla`; to check the proofs:
`tlapm TemplateStoreProofs.tla` and so on. `PROJECT.json` lists runs,
properties, theorems, hazards, and the source lines each definition models.

## The system

| Component | State it keeps | Operations | Talks to |
|---|---|---|---|
| Template store (`facegate_core/src/storage.rs`) | one `embeddings.json` per user, written through a temporary file named after the process id | load, add_template, remove_template | called by the broker's admin and match handlers |
| Abuse guard (`AbuseState` in `facegate_brokerd/src/main.rs`) | a request counter per peer uid, a failure counter and lockout per user, in memory | check_match_allowed, record_success, record_failure | called twice by each match request, under a mutex each time |
| Match pipeline (same file) | the request each blocking thread works on | match, match_frame, match_frame_pair | guard, store, ONNX models |
| Broker connections and queries | none beyond a request | dispatch; health, list, users, audit_recent | one request per connection on a Unix socket |
| Authentication client (`facegate auth`) | attempts and matches of one login | capture, ask the broker, decide the exit code | cameras, broker; run by the PAM module |
| PAM module (`pam_facegate`) | none | run the helper for at most 25 s, map its exit code | spawns and kills the client |
| Unlock daemon (`facegate watch`) | the cancel flag of the current scan, the scans running | Lock, Unlock, SIGTERM; scan loop | logind over D-Bus, cameras, broker |
| PAM file editing | `/etc/pam.d` files, their backups, temporary files | enable, disable, prune, emergency restore | the menu and the command line |
| Configuration | `config.toml` and its backup, copies in the broker, the daemon and every command at work | validate, save, calibrate, calibrate-cameras, setup | read once by the daemons, once per run by the tools; restarts both daemons |
| Main menu (`tui/main_menu.rs`) | input mode, pending action and user, labels drawn, the thread of a command | keys, confirmations, launch, poll | launches the commands on a thread, reports through a channel |
| Diagnostics, cameras, inference, installation | see `PROJECT.json` | | |

What is hard in this code:

* **Concurrency.** Every request runs on its own blocking thread. The store has
  no lock from load to rename; the guard is locked twice per request with
  inference in between, and any number of requests interleave there. The
  unlock daemon starts a scan without waiting for the one it cancels. Logins
  and scans compete for the same cameras. Commands, the menu's thread and
  administrators edit the same PAM files and the same `config.toml`, without a
  lock, each from a copy read earlier.
* **Failure.** A save may fail or the machine stop at every step of
  create, write, sync, rename, sync directory. systemd restarts the broker two
  seconds after it fails; counters and lockouts are then gone. A backup of a
  PAM file and `config.toml` itself are written in place, so a crash leaves
  half a file. A helper may crash, hang in the camera driver or wait for a
  broker that never answers; PAM must go on.
* **Time.** Rate limit, failure window and cooldown are measured on a
  monotonic clock, and requests can be older than a window when recorded.
* **Agreement.** Broker, client and daemon each read the configuration at
  their own time; the broker alone must enforce thresholds and cross-check.

What makes each component correct:

* store: a file is never torn; an acknowledged enrollment stays, an
  acknowledged removal stays removed, an id is not reused;
* guard: no more guesses than the limits allow, lockouts last their time (with
  overlapping requests they may not: `guard_race`), and nobody can lock
  somebody else out;
* match pipeline: a positive answer only for an entitled peer, frames that
  passed every check and a template of the user at that time (without
  cross-check the largest of several faces counts); a genuine request is not
  turned away; every outcome is counted once, and forgotten for a reason;
* client and PAM module: the result follows the policy (fallback or denial)
  whatever fails, but for a camera error that is to deny; success only after
  enough matches in one run;
* unlock daemon: only the scan of the current lock goes on, a cancelled one
  stops soon, every scan ends; a session should be unlocked only by a scan of
  its current lock (it is not: `unlock_stale`);
* PAM files: a file that has the line can be recovered from a backup, though
  switches fail, as far as three backups reach and no two are made in a second;
  a toggle that reports no error leaves its files alike, and an emergency disable
  no line in a spelling Facegate knows (it may leave others); no file is emptied
  unless a backup was cut short or commands overlapped;
* menu: the command that runs is the one that was chosen and confirmed, for the
  person named;
* configuration: what is written loads, and is what the daemons run with, but for
  an empty device name given to `calibrate-cameras`.

`PROJECT.json` lists the hazards behind these, each at its source line.

## Modules

| Module | What it is |
|---|---|
| `TemplateStore` | the store with its threads, crashes and power losses |
| `TemplateRegistry` | what the store promises: atomic additions and deletions, and a settling of what was acknowledged |
| `TemplateStoreProofs` | proofs about `TemplateStore` |
| `AbuseGuard` | the limits on match requests |
| `AbuseGuardProofs` | proofs about `AbuseGuard` |
| `MatchBroker` | match requests from authorization to answer, composed with `AbuseGuard` |
| `MatchBrokerProofs` | proofs about `MatchBroker` |
| `AuthFlow` | face logins: the PAM module and the `facegate auth` it runs |
| `AuthFlowProofs` | proofs about `AuthFlow` |
| `UnlockDaemon` | `facegate watch`: the event loop and its scans |
| `UnlockDaemonProofs` | proofs about `UnlockDaemon` |
| `PamFiles` | commands that edit `/etc/pam.d`, and their backups |
| `PamFilesProofs` | proofs about `PamFiles` |
| `Menu` | the main menu, composed with `PamFiles` |
| `MenuProofs` | proofs about `Menu`, with what `PamFilesProofs` shows carried over to it |
| `ConfigFiles` | readers and writers of `config.toml` |
| `ConfigFilesProofs` | proofs about `ConfigFiles` |
| `MCTemplateStore`, `MCAbuseGuard`, `MCMatchBroker`, `MCAuthFlow`, `MCUnlockDaemon`, `MCMenu`, `MCConfigFiles` | instances for TLC |

Operators marked *Slip* are variants of the definition that follows them, as a
plausible mistake in the code would have it. No specification uses them; each
property of a run fails when one of them replaces its definition
(`PROJECT.json`, "mutants"), which shows that the property depends on the code.

### TemplateStore

`file[u]` is what a load of `embeddings.json` finds, `onDisk[u]` what a power
loss may leave of it: a rename is visible at once and durable once the directory
is synced. `tmp[u][p]` is the temporary file of a broker with process id `p`;
it survives a crash and then blocks the exclusive create of a later broker with
the same id. `worker[w]` is the admin request of a thread: the content it
computed when it loaded the file and the step of `write_json_atomic` it has
reached. One action per step, and one per way to fail: `LoadEnroll`,
`LoadRemove` (up to and including the computation of the new content),
`CreateTmp`/`CreateFails`, `WriteTmp`/`InstallFails`, `Rename`,
`SyncDir`/`SyncFails`; `Crash` and `PowerLoss` come at any moment.
`handedOut`, `kept` and `gone` are history: what has been answered.

Abstracted: label, scope, time stamp and embedding of a template are one
`sample`; the list of templates is a set; directory creation and permission
checks are ways in which the step they belong to may fail. `u32::MAX` is
`MaxId`, at which the counter saturates; ids at `MaxId` are excepted from the
uniqueness properties because the code lets them repeat.

`TemplateRegistry` is the abstract specification: `Add`, `Delete`, `Settle`,
`PowerLoss`. `TemplateStore` implements it (`ImplementsRegistry`) with
`registry <- file` and `survivors <- onDisk`: `Rename` is `Add` or `Delete`,
`SyncDir` is `Settle`, and every other step is a stutter.

### AbuseGuard

`peer[uid]` and `failure[u]` are the two hash maps of `AbuseState`, `now` the
clock, `thread[t]` the admitted request whose outcome has not been recorded.
`RefuseRate`, `RefuseLocked` and `Admit` are the three results of
`check_match_allowed`; `RecordSuccess`, `RecordFailure` and
`RecordFailurePanics` (the end of the cooldown is not representable as an
`Instant`) record an outcome. `Restart` loses everything. `passed`, `failedAt`
and `promised` are history. Which outcome a request has is a choice: it is
`MatchBroker` that decides it.

### MatchBroker

`task[t]` is the request on a thread with its step and its answer. `Receive`
(dispatch and authorization), `Refuse`/`Admit` (the guard), `Examine`
(decoding, inference and cross-check, in the order of the code), `Compare`
(load, scope filter, best template, threshold), `Record`/`RecordPanics`,
`Respond`. The steps that touch the guard are conjunctions with the actions of
`Guard == INSTANCE AbuseGuard WITH thread <- admitted`, so the guard's state is
one and the same. `Replace` is any change of the user's file a load may see,
which includes everything `TemplateStore` does. `required` is the broker's
cross-check policy, read again at each `Restart`.

`Genuine` frames show exactly one face and pass every check that is required;
`Crowded` ones show several, which the code accepts on a single stream, taking
the largest. `MatchSound` allows a match for either, `MatchComplete` demands one
of genuine frames only; what the documentation says of the crowded ones is listed
at the end of "Runs".
`ForgottenWithReason` covers each way to lose a count or a lockout: the entry
removed, its window or its count started again, its lock dropped or shortened.

A frame is represented by what the code asks of it: does it decode, how many
faces, whose is the largest, do the times agree, is the IR face in place. A
similarity is a number from a table. Examination is one step because it neither
reads nor writes anything another request sees; the mutex around the models
therefore does not matter for what can be answered. The audit line is left out:
it is written between recording and answering, nothing reads it back for a
decision, and a failure to write it is ignored.

### AuthFlow

`pam[l]` is a call of `pam_sm_authenticate`, `helper[l]` the `facegate auth` it
has spawned: its step, its config, the attempt and the capture it is at, the
matches so far, its exit code. `holder[c]` is the login whose helper has camera
`c` open. The helper is `LoadConfig`, `OpenCamera` (RGB, then IR with
cross-check), `Capture`, `Answer`; the host is `Spawn`, `Reap`, `GiveUp`,
`Kill`, `Leave`. `Answer` follows the match arms of `auth.rs`: a match counts and
goes on or ends (`Win`), a pair rejected for a reason another capture may mend
is captured again within the attempt (`Recapture`), other rejections go on to
the next attempt, NotEnrolled, RateLimited and LockedOut end by the fallback
policy, anything else is an internal error. `Crash` is a death of the helper at
any step, `ReapFails` an application that ignores SIGCHLD so that the exit code
is lost, `GiveUp` the deadline, which may pass at any moment: 25 seconds are
not a number here, so nothing depends on how they compare with the attempts.
The broker may give any answer or none. `asked` is history.

Abstracted: what the broker does with a request is `MatchBroker`; reasons and
error codes are kept as far as the client tells them apart; messages and the
user's log are left out. The time-out branches of the client are left out
because no call returns that error: a stalled V4L camera is a camera error.

### UnlockDaemon

`locks` and `unlocks` are the signals waiting in the two streams, `tracked` is
`scan_cancel`, `scan[s]` a scan on a blocking thread: its step, its cancel flag,
its counters. `TakeLock` comes before `TakeUnlock` because the select is biased.
A scan reads its flag at `CheckCancel` only: before the cameras are opened and
before each attempt. `Lock` and `Unlock` are logind's, `UnlockSession` is the
scan's call and sends an Unlock signal to the daemon itself. `Stop` leaves the
loop and `Exit` waits for the scans as the runtime does on its end; `Die` is
SIGKILL or a crash. `own` and `late` are history: whether no Lock has been sent
since the one the scan is for, and requests sent since it was cancelled.

### PamFiles

`etc[f]` is `/etc/pam.d/f` and `Vendor[f]` the file of the distribution that it
hides. A content is the line that `line_matches` knows, in one of its two
spellings, and a body for all the rest; a line that loads the module in another
spelling, which the code neither detects nor strips, is part of the body.
`backup[f][s]` is the backup named after second `s`. `proc[p]` is a command at
work: the files it has still to do and the one at hand. A switch is
`ReadForSwitch`, `OpenBackup` (the clock is read, an existing backup of this
second is truncated), `CopyToBackup` (with the pruning that follows it in the
same function), `Install` (the rename). An emergency disable computes `Plan` from
backups and files when it starts, then reads and installs file by file. `Fail`
ends a command with an error at any step, `FailAndGoOn` is the menu's loop over
services that goes on, `Crash` ends the process; `Edit` is anybody else.
`mishaps`, `alone` and `lost` are history: what has gone wrong so far, so that a
property can say "as long as no copy was cut short"; and for each file the
backups of the switches that failed or crashed since it was changed last. Each
of those takes one of the places that pruning leaves, which is what
`RecoveryPossible` counts.

Pruning is by name's second: `fs::copy` makes the modification time that of the
copy, so both orders agree while the clock does not go back, which `OpenBackup`
requires. The temporary file with its mode and its exclusive creation is one way
for `Install` to fail. The stop of the services at the end of an emergency
disable changes no PAM file and is left out. A power loss is not modelled here:
backups are not synced (`fs::copy`), so one may be missing or empty afterwards.

### Menu

`Menu` EXTENDS `PamFiles`: the menu's thread is one of its processes. `app` is the
state of the menu (mode, pending action and user, the panel, the labels as they
were drawn), `job` the thread launched last. Each action is Enter, Esc or y in
one mode; typing and ticking are the choice made at the confirmation. `BeginJob`
starts the command in `PamFiles`, whose decision is made from the files as they are
then. Commands that edit no PAM file just end. `agreed` is history: what the user
chose, whom he named, whether he said yes.

### ConfigFiles

`file` and `backup` are `config.toml` and `config.toml.bak`, `broker` and `watch`
what the daemons run with. `proc[p]` is a command with its copy, and what it is
about to write. Writing is `OpenBackup`, `FillBackup` (not for the editor),
`OpenFile`, `FillFile`: `fs::write` truncates first. Then come `RefreshBroker` and
`RefreshWatch`, each of which may fail. The menu and the editor keep their copy
while they are open, and Back reads it anew. A daemon that finds a file that
does not load takes the defaults. Fields of the editor and options may be an
empty name (`Blank`), which `Valid` rejects; what `calibrate-cameras` writes is
not validated, and only the IR camera it names is opened. Kept of the settings:
the cameras, the cross-check with its homography, and one threshold; the others are copied along.

## Runs

| Run | Question | Bounds |
|---|---|---|
| `store_serial` | do answers given by the store last? | one user, one sample, two threads used one after the other, two process ids, ids 0..2, a fresh file and one with a removed template |
| `store_overlap` | what is left when admin requests overlap? | two samples, two threads, ids 0..2, also a file without a counter; at most one unsynced rename at a time; crash and power loss included |
| `store_reuse` | (violation) is the id of a removed template never reused? | two threads, ids 0..3 |
| `guard_serial` | do limits and lockouts hold when each user has one request at a time? | three peers, two threads, time 0..5, windows of 1 and 2, limits of 2, cooldown 3, last instant 7 so that late cooldowns panic |
| `guard_overlap` | which limits hold when requests of a user overlap? | the same with time 0..6, at most 4 failures in a row |
| `guard_race` | (violation) does a lockout last when requests of a user overlap? | time 0..5, cooldown 4 |
| `broker` | are answers sound and complete, is the guard used right, and what may it forget? | two threads, 18 kinds of requests of which one that is not plain at a time, two contents of the file, restarts with and without cross-check, lockouts and panics; a failure window of 0, so that it is over at the next tick |
| `auth` | does a login end, and as the policy says? | two logins at a time, both cameras, three configs (with and without cross-check, fallback, denial on camera errors), policies of 1 of 1, 2 of 2, 2 of 3 and 1 of 2 matches, two captures per attempt |
| `unlock` | which scans go on? | three scan threads, at most two Unlock signals waiting, two configs, three captures per attempt |
| `unlock_stale` | (violation) does a scan unlock its own lock only? | two scan threads |
| `pam` | what do toggles, emergency disable and the menu leave behind? | one sudo file and one session service that comes with the vendor's file, two bodies, two processes that begin when the other is idle, three backups kept, four seconds, four commands, keys or edits, the fourth where a file has its three backups: 3.4 million states |
| `config` | what is in `config.toml`, and in force? | two cameras and an empty name, two commands, two writes, files that do not load included |

Why these are enough: two threads show every interleaving of a pair of
requests, and no operation of the code looks at more than one other request's
effect; `MaxId` = 2 makes the counter saturate; limits of 2 make "at", "below"
and "above" different, and the clock runs past every window and cooldown. The
theorems below drop the bounds.

Two logins are enough for one to find the cameras of the other in use, and each
policy leaves an attempt that may fail or must not. Three scan threads let a
Lock come while a cancelled and a live scan run. Three backups are
kept, as in the code; four seconds and four events let one be overwritten, a
fourth push out the first, and switches be lost until only the last place for the
clean backup is left: with one more lost, `RecoveryPossible` no longer holds in
the run, so its bound is exact. `ClockBehind` leaves out clocks that run ahead of
the events: only the order of the seconds matters. `FullFirst` allows the fourth
event only where a file has its three backups, which is what it is for; every
sequence of three is there. Two writes
let a stale copy overwrite the other's, and let `setup` make its second backup.

Deadlock is checked in `auth` and in the runs of the daemon: nothing there is
bounded by a count. Elsewhere it is not: the clock of `AbuseGuard` is bounded, a
store with no requests is at rest, and the commands of `PamFiles` and
`ConfigFiles` are numbered.

The history variables are left out of the fingerprint (`VIEW`) where the
properties of the run do not read them; no action's guard does. In
`broker`, threads are interchangeable (`SYMMETRY`; all its properties are safety
properties).

### Fairness

* `AuthFlow!Spec` is weakly fair to `HostStep(l)` and to nothing else: the thread
  of the application polls `try_wait` every 50 ms, and its clock reaches the
  deadline. Nothing is asked of the helper, the cameras or the broker, so
  `LoginEnds` says that PAM is never blocked by any of them. A killed helper is
  taken to be reaped: `wait` after SIGKILL returns unless the process hangs in
  the kernel.
* `UnlockDaemon!Spec` is weakly fair to the event loop and to each scan: the
  runtime schedules them, a camera gives a frame or an error within its
  time-out, and the broker answers, since it gives each request a thread of its
  own. Nothing is asked of the user, of logind or of systemd. `ScansEnd` needs
  the broker: the client reads its answer without a time-out.

The other specifications are safety only: a store, a guard or a command line
promises nothing about when it is used.

### What the violations show

* `store_reuse`. The comment on `UserTemplates::next_id` (storage.rs:75) says
  the counter is persisted "so we never reuse the id of a removed template".
  An enrollment that has loaded the file is overtaken by another one and by the
  removal of its template; then it saves its own template under the removed id.
  `store_serial` and `IdsNotReused` show that this needs overlapping requests.
* `guard_race`. configuration.md:94 calls `cooldown_seconds` the "Lockout
  duration after the threshold is hit". A failure of a request admitted before
  the lockout, recorded after the failure window of the entry is over, starts
  the entry anew and drops the lock. `guard_serial` and `LockoutsHold` show that
  this needs overlapping requests of one user.
* `unlock_stale`. facegate.1:462 says that an Unlock signal cancels an ongoing
  scan immediately, and watch.rs:102 that it is tracked for that. A scan whose
  match has been answered does not look at its flag again before
  `session.unlock()` (watch.rs:323): password, a second lock, and the scan of
  the first lock unlocks the second. The window is short, and the face that
  matched was in front of the camera.

### Other places where code and documents differ

Modelled as the code does, without a run of their own:

* broker.md:68 says of both frame requests that they are rejected "if zero or
  multiple faces are detected". Without cross-check the broker takes the largest
  face (brokerd main.rs:826) and may answer matched; with cross-check it rejects.
  `MatchSound` names the exception (`Crowded`) and allows no other; `MatchComplete`
  demands nothing for such frames.
* facegate.1:618 says that `deny_on_camera_error` decides "whether a camera failure
  counts as auth failure". With it the helper exits with the camera error
  (auth.rs:242), and the PAM module turns that into PAM_IGNORE (pam_facegate
  lib.rs:73): the user gets the password prompt, even where password fallback is
  off. Without it the same failure is denied there. `ResultByPolicy` states the
  rest of the policy, and names this exception.
* pam.md:17 says that each edit creates a timestamped backup. The time stamp is the
  whole second and `fs::copy` overwrites (pam_edit.rs:119): on and off again within
  a second, and the backup has the line; if the second switch fails, the file has
  it too and no clean copy is left. `RecoveryPossible` excepts an overwritten backup.
* recovery.md:32 says that an emergency disable "removes any remaining
  pam_facegate.so lines". `line_matches` (pam_edit.rs:19) knows two spellings; the
  one that pam.md:27 and pam.md:35 recommend, with an option and other spacing, is
  neither: it stays, and a backup that has it counts as clean and may be restored.
  `EmergencyRemovesKnown` claims the two spellings only.
* facegate.1:146 says that after `calibrate-cameras --write` the broker is restarted
  so that changes take effect. The name given as `--rgb-device` is neither opened
  nor validated (calibrate_cameras.rs:45, 61, 167): with an empty one, what is
  written does not load (config.rs:298), and the broker takes the defaults
  (brokerd main.rs:43). `SavedConfigsLoad` shows that this is the only way for a
  command to write such a file, and that no command or daemon works with it.
* facegate.1:462 says that an Unlock signal cancels a scan "immediately"; the scan
  reads its flag before an attempt only, so the rest of an attempt, up to three
  captures, may still run with the camera open (`CancelledScanStops` is that bound).
* `calibrate-cameras --rgb-device` (main.rs:117, cameras.md:53) is validated,
  printed and written, but frames are captured from `camera.device` of the config
  (calibrate_cameras.rs:61).
* configuration.md:87 calls `max_attempts` a "Per-user attempt budget before
  lockout"; it bounds the attempts of one login. Its line 93 gives
  `cooldown_after_failures` the default 3, the man page (line 620) and the code 10.
* ipc.md:43 and the menu (main_menu.rs:2132) say the `sudo` scope is used for `su`;
  `auth.rs` gives it to `sudo` and `sudo-i` only.
* `setup` makes its backup, and `calibrate-cameras`, called by it, makes one of the
  same name: the settings from before `setup` are then nowhere.

## Proofs

Proved by TLAPS for every value of the constants, from the assumptions the
modules name:

* `TemplateStoreProofs`: `TypeCorrect`, `FilesNeverTorn`, `TmpFilesExclusive`
  for any number of threads and users, overlapping or not. Neither `NeverTorn`
  nor `TmpExclusive` is inductive: that a rename installs a complete document
  follows from the temporary file being the one this thread wrote, which
  follows from the exclusive create; the inductive invariant `InstallInv` is
  their conjunction with the types. `IdsUnique` adds that what a thread is about
  to install has unique ids (`UniqueInv`), from the assumption that the initial
  files do.
  `EnrollmentsStay`, `RemovalsStay`, `IdsNotReused` assume `~Overlap` and files
  written by a version that keeps the counter. Their invariant `DurableInv`
  says that *every* content a power loss may leave honours every answer given,
  that there is one request at most, and that the content it will install
  honours the answer it will get (`Promises`).
  `StoreImplementsRegistry`, under `~Overlap`, is the refinement of
  `TemplateRegistry`, step by step. It rests on `ChangeInv`: the file is still
  the one the request loaded, so that what it installs is one addition to it or
  one deletion from it (`OneChange`). Without `~Overlap` that is false, and so is
  the refinement: `store_overlap` checks what is left.
* `AbuseGuardProofs`: `GuardTypeCorrect`; `BurstsBounded` from `RateInv`, which
  relates the counter of a peer to the times of the requests that passed:
  the last `count` are in the current window, `MaxMatches` at most in the one
  before, and the rest longer ago than `RateWindow`. `LockoutsJustified` from
  `FailureInv`, which relates the failure counter to the failures recorded;
  `GuessingBounded` and `LocksAtThreshold` from `GuessInv`, under
  `CooldownsFit` (no panic), and `LockoutsHold` from `PromiseInv` under
  `OnePerUser`; all but the last hold however requests overlap.
* `MatchBrokerProofs`: `MatchesSound` and `MatchesComplete` from `RequestInv`,
  which says of each request that the file now lies between the templates
  that stayed all along and those seen since it came, that it is permitted and
  its frames fit once it is at a step that needs it, and that its answer has
  its reason (`Explained`). `MatchSound` and `MatchComplete` are not inductive:
  they speak of the answer alone, which depends on what was established steps
  before. `BrokerImplementsGuard` shows, under that invariant, that each step
  of the broker is a step of `AbuseGuard` or leaves its state alone, so
  `BrokerGuarded` and, under `CooldownsFit`, `BrokerLimitsGuesses` obtain the
  guard's bounds for the broker from the theorems of `AbuseGuardProofs`.
  `ForgetsWithReason` also uses the guard's types and that no lockout ends later
  than one set now (`LocksEndSoon`): a failure recorded can only prolong it.
* `AuthFlowProofs`: `LoginTypeCorrect`, `SuccessIsEarned`, `ResultsFollowPolicy`,
  `VerdictsOncePerAttempt` and `CamerasGivenBack` for any logins, cameras and
  configs that `Config::validate` accepts. The properties speak of the
  questions the broker was asked, the code of the helper's counters and exit
  codes, so none is inductive. `LoginInv` relates the two: `wins` is the number
  of attempts with a match and `attempt` and `capture` are those of the last
  question (`CountInv`); an exit code has its reason in the answers, and the
  result of the PAM module in the exit code (`ExitInv`); and only a running
  helper, for which the module still waits, has a camera (`StepInv`).
* `UnlockDaemonProofs`: `DaemonTypeCorrect`, `LiveScanIsCurrent` and
  `CancelledScansStop` for any finite set of scans, without fairness.
  `ScanOfPresentLock` speaks of the session only when the queues are empty; that
  it is so then needs `LoopInv`: without an Unlock waiting, a session with a live
  scan or a waiting Lock is locked. `CancelledScanStops` needs `LateInv`, that what
  a scan has sent since it was cancelled are captures of the attempt it is in.
* `ConfigFilesProofs`: `ConfigTypeCorrect`, `WritesLoad`, `DaemonsFollow` and
  `BackupsWhole` for any number of processes, from the assumption that the initial
  file loads, or is torn. What is written is valid because what a command read
  was (`FilesLoad`, `WritesValid`: also the backup, which an administrator may
  restore), but for the empty name of `calibrate-cameras` (`Unnamed`), after which
  that command reads nothing any more; daemons with other settings than the file's
  have a command that is
  still to restart them (`RestartsDue`); a command that works alone keeps the
  copy it made (`AloneInv`).

* `PamFilesProofs`: for any services, processes, seconds and events, whether
  commands overlap or not. `PamInvariant` is the inductive core: what each process
  has at its step (`StepInv`), who works alone (`AloneInv`), and that a command
  which works alone has every file it is to change still to do, at hand, or done
  (`EmergencyInv`, `ToggleInv`). From it `PamTypeCorrect`, and
  `PamEmergencyRemovesKnown` and `PamTogglesAlike`: a command can end without
  error only with nothing left to do.
  `PamFilesStayWhole` needs `WholeInv`, which speaks of every place a content may
  come from: files, backups and what processes hold; the one incomplete backup is
  that being made. Hypothesis `WholeInitially`: no file is empty to begin with.
  `PamRecoveryPossible` needs `RecoverInv`: the newest backup of a file with the
  line need not be the good one, since a switch that turns the file off backs up
  the file with the line first, and each such switch that fails leaves its backup
  behind. The invariant says that any backup newer than the good one is that of
  the switch under way or of one that was lost (`KeepsFrom`), and what a switch
  at work has made so far (`SwitchInv`); so pruning, which keeps the
  `MaxBackups` newest, keeps the good one while `Cardinality(lost[f]) + 2 <=
  MaxBackups`. Hypothesis: `OffInitially` (Facegate has not been switched on yet;
  a line that was there before has no backup). The property itself excepts files
  with the line that an administrator edits, overlapping commands and two backups
  in a second; as in the model, the clock does not go back between backups.
* `MenuProofs`: `MenuIsPamStep` shows that the composed system does to the PAM
  files only what `PamFilesProofs` covers, so its results hold of `MenuSpec` as
  well (`MenuPamTypes`, `MenuFilesStayWhole`, `MenuRecoveryPossible`,
  `MenuEmergencyRemovesKnown`, `MenuTogglesAlike`, under the same hypotheses).
  `MenuTypeCorrect` and `MenuLaunchesAsAgreed` follow from `MenuInv`: at most one
  command runs, and in a menu that shows it (`JobInv`); the question asked is about
  the action and the person in the history (`AskedInv`); and until a command
  begins the labels are true if no other process changed a file (`LabelsInv`),
  which makes a toggle, deciding from the files, do what its label said.

The invariants were checked by TLC on the small instances before they were
proved. Every invariant and every action property of a passing run, and both
refinements, are stated by a theorem. Only model-checked are `LoginEnds` and
`ScansEnd`: liveness under fairness is out of the proof system's reach.

## Not modelled, and the plan

Left, in the order in which it is worth most:

1. Pure algorithms: the geometry check of `frame_from_probe` with its saturating
   32-bit products, the calendar of `format_unix_utc`, the range checks of
   `Config::validate`.
2. Enrollment of several samples, and removal of all templates or of a user, as
   sequences of registry requests that may fail: what such a command leaves is
   what its requests did (`TemplateStore`), nothing is rolled back and nothing
   promises it, so there is little to check beyond the store.
3. The broker's connection handling: health, list, users and the audit query only
   read; a connection that never finishes its line keeps its own task and
   delays nobody else.

Out of TLC's reach or without decisions to check: floating-point inference and
calibration, camera drivers, terminal drawing, log formatting, installation
scripts. Their results appear as inputs of the models.
