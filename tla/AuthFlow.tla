------------------------------ MODULE AuthFlow ------------------------------
(***************************************************************************)
(* One face login: the PAM module (crates/pam_facegate/src/lib.rs) runs    *)
(* `facegate auth` (crates/facegate_cli/src/commands/auth.rs), waits for   *)
(* it no longer than HELPER_TIMEOUT_SECS, and turns its exit code into a   *)
(* PAM result.  The helper reads the config, opens the cameras, and asks   *)
(* the broker about captured frames until enough attempts matched or none  *)
(* is left.                                                                *)
(*                                                                         *)
(* Logins run at the same time and share the cameras.  The broker gives    *)
(* any answer at any time, or none: the client reads without a time-out.   *)
(* The deadline may pass at any moment, a helper may crash at any step,    *)
(* and the application may be one that ignores SIGCHLD.                    *)
(*                                                                         *)
(* A stalled camera yields a camera error (V4lCamera has no other error a  *)
(* capture could return), so the time-out branches of the client are never *)
(* taken and are left out, as are the messages and the user's log.         *)
(***************************************************************************)
EXTENDS Naturals, Sequences, FiniteSets

CONSTANTS
  Logins,   \* logins going on at the same time
  Configs,  \* configurations a helper may load
  Retries,  \* CROSS_CHECK_CAPTURE_RETRIES
  None

Services  == {"sudo", "sudo-i", "other", "unknown"}
Cameras   == {"rgb", "ir"}

\* RecognitionConfig and the switches of CameraConfig and SecurityConfig that
\* the client looks at; the overrides of a scope are None where not set.
Override == [required : (Nat \ {0}) \cup {None}, attempts : (Nat \ {0}) \cup {None}]
Config   == [required : Nat \ {0}, attempts : Nat \ {0},
             sudo : Override, session : Override,
             crossCheck : BOOLEAN, fallback : BOOLEAN, denyOnCamera : BOOLEAN]

OrElse(value, default) == IF value = None THEN default ELSE value

\* RecognitionConfig::policy_for.
PolicyFor(c, scope) ==
  [required |-> OrElse(c[scope].required, c.required),
   attempts |-> OrElse(c[scope].attempts, c.attempts)]

ScopeOf(service) == IF service \in {"sudo", "sudo-i"} THEN "sudo" ELSE "session"

\* What Config::validate asks of them.
Valid(c) == \A scope \in {"sudo", "session"} :
              LET p == PolicyFor(c, scope) IN p.required <= p.attempts

\* Answers of the broker, as far as the client tells them apart: a match; a
\* rejection; a rejection of a pair of frames for a reason another capture may
\* mend; NotEnrolled, RateLimited or LockedOut; any other error, of the broker
\* or of the connection.
Answers == {"matched", "mismatch", "retryable", "unavailable", "error"}

\* AuthExitCode, and the death of the process by a panic or a signal.
ExitCodes == {"recognized", "not_recognized", "timeout", "camera_error",
              "config_error", "internal_error", "denied", "crashed"}

Results == {"success", "ignore", "auth_err"}

ASSUME LoginAssumption ==
  /\ Retries \in Nat \ {0}
  /\ None \notin Nat
  /\ Configs \subseteq Config
  /\ None \notin Configs /\ None \notin Logins
  /\ None \notin ExitCodes /\ None \notin Results
  /\ \A c \in Configs : Valid(c)

VARIABLES
  pam,     \* pam[l]: the call of pam_sm_authenticate
  helper,  \* helper[l]: its `facegate auth` process
  holder,  \* holder[c]: the login whose helper has camera c open, or None
  asked    \* asked[l]: history: the questions of the login that were answered

vars == <<pam, helper, holder, asked>>

Idle == [step |-> "idle", scope |-> "session", result |-> None]

NoHelper == [at |-> "none", config |-> None, attempt |-> 0, capture |-> 0,
             wins |-> 0, exit |-> None]

Policy(l) == PolicyFor(helper[l].config, pam[l].scope)

Init ==
  /\ pam = [l \in Logins |-> Idle]
  /\ helper = [l \in Logins |-> NoHelper]
  /\ holder = [c \in Cameras |-> None]
  /\ asked = [l \in Logins |-> << >>]

-----------------------------------------------------------------------------
(* The helper. *)

At(l, step) == helper[l].at = step

\* The process ends; what it had open is closed.
CloseCameras(l) == holder' = [c \in Cameras |-> IF holder[c] = l THEN None ELSE holder[c]]

Exit(l, code) ==
  /\ helper' = [helper EXCEPT ![l].at = "exited", ![l].exit = code]
  /\ CloseCameras(l)

\* fallback_or_deny and camera_error_or_fallback.
FallbackOrDeny(c) == IF c.fallback THEN "not_recognized" ELSE "denied"

CameraErrorOrFallback(c) == IF c.denyOnCamera THEN "camera_error" ELSE FallbackOrDeny(c)

\* A config that cannot be loaded ends the helper before auth is entered.
LoadConfig(l, c) ==
  /\ At(l, "load")
  /\ helper' = [helper EXCEPT ![l].at = "rgb", ![l].config = c]
  /\ UNCHANGED <<pam, holder, asked>>

LoadFails(l) ==
  /\ At(l, "load")
  /\ Exit(l, "config_error")
  /\ UNCHANGED <<pam, asked>>

\* The RGB camera first, then the IR camera when the cross-check is active.
NextCamera(l) == IF At(l, "rgb") /\ helper[l].config.crossCheck THEN "ir" ELSE "capture"

OpenCamera(l, c) ==
  /\ At(l, c)
  /\ holder[c] = None
  /\ holder' = [holder EXCEPT ![c] = l]
  /\ helper' = [helper EXCEPT ![l].at = NextCamera(l), ![l].attempt = 1, ![l].capture = 1]
  /\ UNCHANGED <<pam, asked>>

\* Opening or capturing fails; opening fails while another process streams.
CameraFails(l) ==
  /\ At(l, "rgb") \/ At(l, "ir") \/ At(l, "capture")
  /\ Exit(l, CameraErrorOrFallback(helper[l].config))
  /\ UNCHANGED <<pam, asked>>

\* A frame, or a pair of them, is captured and sent.
Capture(l) ==
  /\ At(l, "capture")
  /\ helper' = [helper EXCEPT ![l].at = "sent"]
  /\ UNCHANGED <<pam, holder, asked>>

\* The attempt was rejected: the next one, or the end.
NextAttempt(l) ==
  IF helper[l].attempt < Policy(l).attempts
  THEN /\ helper' = [helper EXCEPT ![l].at = "capture", ![l].attempt = @ + 1,
                                   ![l].capture = 1]
       /\ UNCHANGED holder
  ELSE Exit(l, FallbackOrDeny(helper[l].config))

\* Slip: one match is enough.
FirstMatchWins(l) == Exit(l, "recognized")

\* The attempt matched.
Win(l) ==
  IF helper[l].wins + 1 >= Policy(l).required
  THEN Exit(l, "recognized")
  ELSE IF helper[l].attempt < Policy(l).attempts
  THEN /\ helper' = [helper EXCEPT ![l].at = "capture", ![l].attempt = @ + 1,
                                   ![l].capture = 1, ![l].wins = @ + 1]
       /\ UNCHANGED holder
  ELSE Exit(l, FallbackOrDeny(helper[l].config))

\* Slip: the captures of an attempt are not counted.
AlwaysRecaptures(l) == helper[l].config.crossCheck

\* A pair the broker could not use is taken again, within the same attempt.
Recaptures(l) == helper[l].config.crossCheck /\ helper[l].capture < Retries

Recapture(l) ==
  /\ helper' = [helper EXCEPT ![l].at = "capture", ![l].capture = @ + 1]
  /\ UNCHANGED holder

\* Slip: without a verdict the password is offered whatever the policy says.
UnavailableFallsBack(c) == "not_recognized"

\* handle_broker_error for NotEnrolled, RateLimited and LockedOut.
OnUnavailable(c) == FallbackOrDeny(c)

\* The broker's answer arrives.  Only pairs are rejected for retryable reasons.
Answer(l, a) ==
  /\ At(l, "sent")
  /\ a = "retryable" => helper[l].config.crossCheck
  /\ CASE a = "matched"     -> Win(l)
       [] a = "mismatch"    -> NextAttempt(l)
       [] a = "retryable"   -> IF Recaptures(l) THEN Recapture(l) ELSE NextAttempt(l)
       [] a = "unavailable" -> Exit(l, OnUnavailable(helper[l].config))
       [] a = "error"       -> Exit(l, "internal_error")
  /\ asked' = [asked EXCEPT ![l] = Append(@, [attempt |-> helper[l].attempt, answer |-> a])]
  /\ UNCHANGED pam

Running(l) == helper[l].at \in {"load", "rgb", "ir", "capture", "sent"}

Crash(l) ==
  /\ Running(l)
  /\ Exit(l, "crashed")
  /\ UNCHANGED <<pam, asked>>

-----------------------------------------------------------------------------
(* The PAM module. *)

Return(l, result) == pam' = [pam EXCEPT ![l].step = "done", ![l].result = result]

NoUsername(l) ==
  /\ pam[l].step = "idle"
  /\ Return(l, "auth_err")
  /\ UNCHANGED <<helper, holder, asked>>

SpawnFails(l) ==
  /\ pam[l].step = "idle"
  /\ Return(l, "ignore")
  /\ UNCHANGED <<helper, holder, asked>>

Spawn(l, service) ==
  /\ pam[l].step = "idle"
  /\ pam' = [pam EXCEPT ![l].step = "waiting", ![l].scope = ScopeOf(service)]
  /\ helper' = [helper EXCEPT ![l] = [NoHelper EXCEPT !.at = "load"]]
  /\ asked' = [asked EXCEPT ![l] = << >>]
  /\ UNCHANGED holder

\* pam_sm_authenticate, on the exit code of the helper.
PamResult(code) ==
  CASE code = "recognized"            -> "success"
    [] code \in {"denied", "crashed"} -> "auth_err"
    [] OTHER                          -> "ignore"

\* try_wait finds the helper ended.
Reap(l) ==
  /\ pam[l].step = "waiting"
  /\ At(l, "exited")
  /\ Return(l, PamResult(helper[l].exit))
  /\ helper' = [helper EXCEPT ![l].at = "reaped"]
  /\ UNCHANGED <<holder, asked>>

\* In an application that ignores SIGCHLD the system has reaped the helper:
\* try_wait fails, and the exit code is lost.
ReapFails(l) ==
  /\ pam[l].step = "waiting"
  /\ At(l, "exited")
  /\ Return(l, "ignore")
  /\ helper' = [helper EXCEPT ![l].at = "lost"]
  /\ UNCHANGED <<holder, asked>>

\* Slip: the deadline is looked at only when the helper has ended.
WaitsForExit(l) ==
  /\ pam[l].step = "waiting"
  /\ At(l, "exited")
  /\ pam' = [pam EXCEPT ![l].step = "killing"]
  /\ UNCHANGED <<helper, holder, asked>>

\* try_wait finds the helper running, and the deadline has passed.
GiveUp(l) ==
  /\ pam[l].step = "waiting"
  /\ Running(l)
  /\ pam' = [pam EXCEPT ![l].step = "killing"]
  /\ UNCHANGED <<helper, holder, asked>>

\* Slip: the helper is left running.
LeaveHelper(l) ==
  /\ pam[l].step = "killing"
  /\ Return(l, "ignore")
  /\ UNCHANGED <<helper, holder, asked>>

\* kill and wait; the helper may have ended since it was found running.
Kill(l) ==
  /\ pam[l].step = "killing"
  /\ helper' = [helper EXCEPT ![l].at = "lost"]
  /\ CloseCameras(l)
  /\ Return(l, "ignore")
  /\ UNCHANGED asked

\* The application has its answer; the same place serves another login.
Leave(l) ==
  /\ pam[l].step = "done"
  /\ pam' = [pam EXCEPT ![l] = Idle]
  /\ helper' = [helper EXCEPT ![l] = IF Running(l) THEN @ ELSE NoHelper]
  /\ asked' = [asked EXCEPT ![l] = << >>]
  /\ UNCHANGED holder

-----------------------------------------------------------------------------

HelperStep(l) ==
  \/ \E c \in Configs : LoadConfig(l, c)
  \/ LoadFails(l)
  \/ \E c \in Cameras : OpenCamera(l, c)
  \/ CameraFails(l)
  \/ Capture(l)
  \/ \E a \in Answers : Answer(l, a)
  \/ Crash(l)

HostStep(l) == Reap(l) \/ ReapFails(l) \/ GiveUp(l) \/ Kill(l)

Next ==
  \E l \in Logins :
    \/ NoUsername(l)
    \/ SpawnFails(l)
    \/ \E service \in Services : Spawn(l, service)
    \/ HelperStep(l)
    \/ HostStep(l)
    \/ Leave(l)

\* The host process runs and time passes; nothing is asked of the helper, the
\* cameras or the broker.
Spec == Init /\ [][Next]_vars /\ \A l \in Logins : WF_vars(HostStep(l))

-----------------------------------------------------------------------------
(* Properties. *)

HelperSteps == {"none", "load", "rgb", "ir", "capture", "sent", "exited", "reaped", "lost"}

Call     == [step : {"idle", "waiting", "killing", "done"},
             scope : {"sudo", "session"}, result : Results \cup {None}]
Helper   == [at : HelperSteps, config : Configs \cup {None}, attempt : Nat,
             capture : 0 .. Retries, wins : Nat, exit : ExitCodes \cup {None}]
Question == [attempt : Nat, answer : Answers]

\* Types: the helper never counts past the attempts and captures it is allowed,
\* and there is a config from the moment it has been loaded.
TypeOK ==
  /\ pam \in [Logins -> Call]
  /\ helper \in [Logins -> Helper]
  /\ holder \in [Cameras -> Logins \cup {None}]
  /\ asked \in [Logins -> Seq(Question)]
  /\ \A l \in Logins : helper[l].at \in {"rgb", "ir", "capture", "sent"} =>
                         helper[l].config # None

Done(l) == pam[l].step = "done" /\ helper[l].config # None

Matched(l) == {q.attempt : q \in {asked[l][i] : i \in {j \in DOMAIN asked[l] :
                                                        asked[l][j].answer = "matched"}}}

\* A login succeeds only when the broker matched frames of as many different
\* attempts of this very login as the policy of its scope requires (auth.rs:146):
\* matches of an earlier login, or several of one attempt, do not add up.
SuccessEarned ==
  \A l \in Logins : pam[l].result = "success" =>
    Done(l) /\ Cardinality(Matched(l)) >= Policy(l).required

\* The host took the helper's exit code.
HeardOut(l) == At(l, "reaped")

LastAnswer(l) == asked[l][Len(asked[l])].answer

\* Every attempt was rejected or the user is not known, rate-limited or locked out.
TurnedAway(l) ==
  /\ asked[l] # << >>
  /\ helper[l].exit # "crashed"
  /\ \/ LastAnswer(l) = "unavailable"
     \/ /\ LastAnswer(l) \in {"mismatch", "retryable"}
        /\ asked[l][Len(asked[l])].attempt = Policy(l).attempts
        /\ helper[l].exit \in {"not_recognized", "denied"}

\* What a login that was not cut short comes to (auth.rs:256, lib.rs:66): enough
\* matches are a success; who was turned away gets the password prompt exactly
\* where the config allows it; denial is for those without fallback; and without
\* fallback the prompt needs an error of the broker, or a camera error that
\* deny_on_camera_error, which facegate.1 says is to deny, keeps from denying.
ResultByPolicy ==
  \A l \in Logins : Done(l) =>
    /\ HeardOut(l) /\ Cardinality(Matched(l)) >= Policy(l).required
         => pam[l].result = "success" \/ helper[l].exit = "crashed"
    /\ HeardOut(l) /\ TurnedAway(l)
         => pam[l].result = IF helper[l].config.fallback THEN "ignore" ELSE "auth_err"
    /\ pam[l].result = "auth_err"
         => ~helper[l].config.fallback \/ helper[l].exit = "crashed"
    /\ HeardOut(l) /\ helper[l].exit = "camera_error" => helper[l].config.denyOnCamera
    /\ HeardOut(l) /\ pam[l].result = "ignore" /\ ~helper[l].config.fallback
         => \/ asked[l] # << >> /\ LastAnswer(l) = "error"
            \/ helper[l].exit = "camera_error"

\* The questions of a login are in the order of its attempts, and one that is
\* repeated was a pair worth capturing again.
AskedOnce(l) ==
  \A i, j \in DOMAIN asked[l] :
    /\ i < j => asked[l][i].attempt <= asked[l][j].attempt
    /\ i < j /\ asked[l][i].attempt = asked[l][j].attempt
         => /\ asked[l][i].answer = "retryable"
            /\ helper[l].config.crossCheck
            /\ j - i < Retries
    /\ asked[l][j].attempt <= Policy(l).attempts

\* The broker is asked for a verdict at most once per attempt: questions of the
\* same attempt repeat only after a reason another capture may mend, Retries
\* times at most, only with cross-check, and never past the last attempt
\* (auth.rs:77).  The questions count as failures in the broker's guard.
OneVerdictPerAttempt == \A l \in Logins : AskedOnce(l)

\* When the PAM module has returned, no helper of that login keeps a camera
\* (lib.rs:205): whoever comes next, or the application itself, can open it.
CamerasReleased ==
  \A l \in Logins : pam[l].step \in {"idle", "done"} =>
    \A c \in Cameras : holder[c] # l

\* Every login comes to a result, though the broker never answers and the
\* camera hangs: PAM is never blocked indefinitely (lib.rs:198).
LoginEnds == \A l \in Logins : pam[l].step = "waiting" ~> pam[l].step = "done"

-----------------------------------------------------------------------------
(* Inductive strengthening of the properties, for the proofs. *)

Wins(l) == Cardinality(Matched(l))

\* Where the helper can be while the PAM module is at its step, and what it has
\* by then.
StepInv(l) ==
  /\ pam[l].step = "idle" => At(l, "none")
  /\ pam[l].step \in {"waiting", "killing"} => Running(l) \/ At(l, "exited")
  /\ pam[l].step = "done" => helper[l].at \in {"none", "reaped", "lost"}
  /\ At(l, "none") => helper[l] = NoHelper
  /\ At(l, "load") => helper[l].config = None
  /\ helper[l].at \in {"none", "load", "rgb", "ir"} => asked[l] = << >> /\ helper[l].wins = 0
  /\ helper[l].exit # None => helper[l].at \in {"exited", "reaped", "lost"}
  /\ \A c \in Cameras : holder[c] = l => Running(l)

\* The attempts and captures made so far are those the broker was asked about.
CountInv(l) ==
  helper[l].at \in {"capture", "sent"} =>
    /\ helper[l].attempt \in 1 .. Policy(l).attempts
    /\ helper[l].capture \in 1 .. Retries
    /\ IsFiniteSet(Matched(l))
    /\ helper[l].wins = Wins(l)
    /\ helper[l].wins < Policy(l).required
    /\ \A i \in DOMAIN asked[l] :
         /\ asked[l][i].attempt <= helper[l].attempt
         /\ asked[l][i].answer \in {"matched", "mismatch", "retryable"}
         /\ asked[l][i].attempt = helper[l].attempt =>
              /\ asked[l][i].answer = "retryable"
              /\ helper[l].config.crossCheck
              /\ Len(asked[l]) - i < helper[l].capture - 1

\* What the exit code of the helper says of its answers, and the result of the
\* exit code.
ExitInv(l) ==
  LET c    == helper[l].config
      code == helper[l].exit
  IN  /\ helper[l].at \in {"exited", "reaped"} => code # None
      /\ helper[l].at \in {"exited", "reaped"} /\ c # None =>
           /\ code = "recognized" => Wins(l) >= Policy(l).required
           /\ code \notin {"recognized", "crashed"} => Wins(l) < Policy(l).required
           /\ code = "not_recognized" => c.fallback
           /\ code = "denied" => ~c.fallback
           /\ code = "camera_error" => c.denyOnCamera
           /\ code = "internal_error" => asked[l] # << >> /\ LastAnswer(l) = "error"
           /\ code \notin {"timeout", "config_error"}
           /\ code # "crashed" /\ asked[l] # << >> /\ LastAnswer(l) = "unavailable"
                => code \in {"not_recognized", "denied"}
      /\ code = "recognized" => c # None
      /\ At(l, "reaped") => pam[l].result = PamResult(code)
      /\ pam[l].result = "success" => At(l, "reaped")
      /\ pam[l].result = "auth_err" => helper[l].at \in {"none", "reaped"}
      /\ pam[l].result # None => pam[l].step = "done"

LoginInv ==
  /\ TypeOK
  /\ \A l \in Logins : StepInv(l) /\ CountInv(l) /\ ExitInv(l) /\ AskedOnce(l)

=============================================================================
