--------------------------- MODULE AuthFlowProofs ---------------------------
(***************************************************************************)
(* Proofs about AuthFlow: any number of logins at a time, any valid        *)
(* configurations, any number of captures per attempt, whatever the broker *)
(* answers and whoever crashes.                                            *)
(*                                                                         *)
(* LoginInv is inductive.  It relates the attempts, captures and matches   *)
(* the helper counts to the questions the broker answered, its exit code   *)
(* to its answers, and the result to its exit code.                        *)
(***************************************************************************)
EXTENDS AuthFlow, FiniteSetTheorems, TLAPS

-----------------------------------------------------------------------------
(* Data. *)

\* The policy of a scope is one that can be met.
LEMMA PolicyMeetable ==
  ASSUME NEW c \in Configs, NEW scope \in {"sudo", "session"}
  PROVE  /\ PolicyFor(c, scope).required \in Nat \ {0}
         /\ PolicyFor(c, scope).attempts \in Nat \ {0}
         /\ PolicyFor(c, scope).required <= PolicyFor(c, scope).attempts
<1>1. c \in Config /\ Valid(c)
  BY LoginAssumption
<1>2. c[scope] \in Override
  <2>1. CASE scope = "sudo"
    BY <1>1, <2>1 DEF Config
  <2>2. CASE scope = "session"
    BY <1>1, <2>2 DEF Config
  <2>3. QED
    BY <2>1, <2>2
<1>3. OrElse(c[scope].required, c.required) \in Nat \ {0}
  BY <1>1, <1>2 DEF Config, Override, OrElse
<1>4. OrElse(c[scope].attempts, c.attempts) \in Nat \ {0}
  BY <1>1, <1>2 DEF Config, Override, OrElse
<1>5. PolicyFor(c, scope).required <= PolicyFor(c, scope).attempts
  BY <1>1 DEF Valid
<1>6. QED
  BY <1>3, <1>4, <1>5 DEF PolicyFor

\* What the types say of one login.
LEMMA Typed ==
  ASSUME TypeOK, NEW l \in Logins
  PROVE  /\ pam[l] \in Call /\ helper[l] \in Helper
         /\ asked[l] \in Seq(Question) /\ Len(asked[l]) \in Nat
         /\ helper[l].config # None =>
              /\ helper[l].config \in Config
              /\ Policy(l).required \in Nat \ {0}
              /\ Policy(l).attempts \in Nat \ {0}
<1>1. pam[l] \in Call /\ helper[l] \in Helper /\ asked[l] \in Seq(Question)
  BY DEF TypeOK
<1>2. pam[l].scope \in {"sudo", "session"} /\ helper[l].config \in Configs \cup {None}
  BY <1>1 DEF Call, Helper
<1>3. ASSUME helper[l].config # None
      PROVE  /\ helper[l].config \in Config
             /\ Policy(l).required \in Nat \ {0}
             /\ Policy(l).attempts \in Nat \ {0}
  BY <1>2, <1>3, PolicyMeetable, LoginAssumption DEF Policy
<1>4. QED
  BY <1>1, <1>3

-----------------------------------------------------------------------------
(* A step of one login leaves the others alone. *)

\* Nobody but l is touched, and no camera is opened for anybody but l.
OnlyFor(l) ==
  \A k \in Logins : k # l =>
    /\ pam'[k] = pam[k] /\ helper'[k] = helper[k] /\ asked'[k] = asked[k]
    /\ \A c \in Cameras : holder'[c] = k => holder[c] = k

\* What is known of one login depends on its own state.
LEMMA OthersStay ==
  ASSUME NEW k \in Logins,
         pam'[k] = pam[k], helper'[k] = helper[k], asked'[k] = asked[k],
         \A c \in Cameras : holder'[c] = k => holder[c] = k,
         StepInv(k), CountInv(k), ExitInv(k), AskedOnce(k)
  PROVE  StepInv(k)' /\ CountInv(k)' /\ ExitInv(k)' /\ AskedOnce(k)'
<1>1. Matched(k)' = Matched(k) /\ Policy(k)' = Policy(k) /\ LastAnswer(k)' = LastAnswer(k)
  BY DEF Matched, Policy, LastAnswer
<1>2. StepInv(k)'
  BY DEF StepInv, At, Running
<1>3. CountInv(k)'
  BY <1>1 DEF CountInv, Wins
<1>4. ExitInv(k)'
  BY <1>1 DEF ExitInv, Wins, At
<1>5. AskedOnce(k)'
  BY <1>1 DEF AskedOnce
<1>6. QED
  BY <1>2, <1>3, <1>4, <1>5

\* It is enough to look at the login that made the step.
LEMMA OneStep ==
  ASSUME LoginInv, TypeOK', NEW l \in Logins, OnlyFor(l),
         StepInv(l)', CountInv(l)', ExitInv(l)', AskedOnce(l)'
  PROVE  LoginInv'
<1>1. ASSUME NEW k \in Logins
      PROVE  StepInv(k)' /\ CountInv(k)' /\ ExitInv(k)' /\ AskedOnce(k)'
  <2>1. CASE k = l
    BY <2>1
  <2>2. CASE k # l
    BY <2>2, OthersStay DEF LoginInv, OnlyFor
  <2>3. QED
    BY <2>1, <2>2
<1>2. QED
  BY <1>1 DEF LoginInv

-----------------------------------------------------------------------------
(* The helper ends. *)

\* What Exit does.
LEMMA ExitDoes ==
  ASSUME TypeOK, NEW l \in Logins, NEW code \in ExitCodes, Exit(l, code)
  PROVE  /\ helper' \in [Logins -> Helper] /\ holder' \in [Cameras -> Logins \cup {None}]
         /\ helper'[l].at = "exited" /\ helper'[l].exit = code
         /\ helper'[l].config = helper[l].config
         /\ \A k \in Logins : k # l =>
              helper'[k] = helper[k] /\ \A c \in Cameras : holder'[c] = k => holder[c] = k
         /\ \A c \in Cameras : holder'[c] # l
<1>1. helper \in [Logins -> Helper] /\ helper[l] \in Helper
  BY DEF TypeOK
<1>2. helper'[l] = [helper[l] EXCEPT !.at = "exited", !.exit = code]
  BY <1>1 DEF Exit
<1>3. helper'[l] = [at |-> "exited", config |-> helper[l].config,
                    attempt |-> helper[l].attempt, capture |-> helper[l].capture,
                    wins |-> helper[l].wins, exit |-> code]
  BY <1>1, <1>2 DEF Helper
<1>4. helper'[l] \in Helper
  BY <1>1, <1>3 DEF Helper, HelperSteps
<1>5. \A k \in Logins : k # l => helper'[k] = helper[k]
  BY <1>1 DEF Exit
<1>6. helper' \in [Logins -> Helper]
  BY <1>1, <1>4, <1>5 DEF Exit
<1>7. \A c \in Cameras : holder'[c] = IF holder[c] = l THEN None ELSE holder[c]
  BY DEF Exit, CloseCameras
<1>8. holder' \in [Cameras -> Logins \cup {None}]
  BY <1>7 DEF TypeOK, Exit, CloseCameras
<1>9. QED
  BY <1>3, <1>5, <1>6, <1>7, <1>8, LoginAssumption

\* A running helper that ends keeps the invariant, if its exit code is right for
\* the answers it had.
LEMMA Exits ==
  ASSUME LoginInv, NEW l \in Logins, Running(l), NEW code \in ExitCodes, Exit(l, code),
         UNCHANGED pam, asked' \in [Logins -> Seq(Question)],
         \A k \in Logins : k # l => asked'[k] = asked[k],
         AskedOnce(l)',
         code = "recognized" => helper[l].config # None,
         helper[l].config # None =>
           /\ code = "recognized" => Wins(l)' >= Policy(l).required
           /\ code \notin {"recognized", "crashed"} => Wins(l)' < Policy(l).required
           /\ code = "not_recognized" => helper[l].config.fallback
           /\ code = "denied" => ~helper[l].config.fallback
           /\ code = "camera_error" => helper[l].config.denyOnCamera
           /\ code = "internal_error" => asked'[l] # << >> /\ LastAnswer(l)' = "error"
           /\ code \notin {"timeout", "config_error"}
           /\ code # "crashed" /\ asked'[l] # << >> /\ LastAnswer(l)' = "unavailable"
                => code \in {"not_recognized", "denied"}
  PROVE  LoginInv'
<1>1. TypeOK /\ StepInv(l) /\ ExitInv(l)
  BY DEF LoginInv
<1>2. /\ helper' \in [Logins -> Helper] /\ holder' \in [Cameras -> Logins \cup {None}]
      /\ helper'[l].at = "exited" /\ helper'[l].exit = code
      /\ helper'[l].config = helper[l].config
      /\ \A k \in Logins : k # l =>
           helper'[k] = helper[k] /\ \A c \in Cameras : holder'[c] = k => holder[c] = k
      /\ \A c \in Cameras : holder'[c] # l
  BY <1>1, ExitDoes
<1>3. TypeOK'
  BY <1>1, <1>2 DEF TypeOK
<1>4. OnlyFor(l)
  BY <1>2 DEF OnlyFor
<1>5. Policy(l)' = Policy(l)
  BY <1>2 DEF Policy
<1>6. pam'[l] = pam[l] /\ pam[l].step \in {"waiting", "killing"} /\ pam[l].result = None
  BY <1>1, Typed DEF StepInv, ExitInv, Running, At, Call
<1>7. code # None
  BY LoginAssumption
<1>8. StepInv(l)'
  BY <1>2, <1>6 DEF StepInv, At, Running
<1>9. CountInv(l)'
  BY <1>2 DEF CountInv
<1>10. ExitInv(l)'
  BY <1>1, <1>2, <1>5, <1>6, <1>7, LoginAssumption DEF ExitInv, At, Results
<1>11. QED
  BY <1>3, <1>4, <1>8, <1>9, <1>10, OneStep

-----------------------------------------------------------------------------
(* The broker answers. *)

\* The question that was answered is recorded.
Recorded(l, a) ==
  asked' = [asked EXCEPT ![l] = Append(@, [attempt |-> helper[l].attempt, answer |-> a])]

\* The helper captures again: attempt x, capture y, w matches so far.
CapturesAgain(l, x, y, w) ==
  /\ helper' = [helper EXCEPT ![l].at = "capture", ![l].attempt = x,
                              ![l].capture = y, ![l].wins = w]
  /\ UNCHANGED <<pam, holder>>

\* What an answer adds to the questions of a login.
LEMMA Answered ==
  ASSUME LoginInv, NEW l \in Logins, At(l, "sent"), NEW a \in Answers,
         a = "retryable" => helper[l].config.crossCheck,
         Recorded(l, a),
         helper'[l].config = helper[l].config, UNCHANGED pam
  PROVE  /\ asked' \in [Logins -> Seq(Question)]
         /\ \A k \in Logins : k # l => asked'[k] = asked[k]
         /\ Len(asked'[l]) = Len(asked[l]) + 1 /\ asked'[l] # << >>
         /\ DOMAIN asked'[l] = DOMAIN asked[l] \cup {Len(asked'[l])}
         /\ \A i \in DOMAIN asked[l] : asked'[l][i] = asked[l][i]
         /\ asked'[l][Len(asked'[l])] = [attempt |-> helper[l].attempt, answer |-> a]
         /\ LastAnswer(l)' = a
         /\ IsFiniteSet(Matched(l)')
         /\ Wins(l)' = IF a = "matched" THEN helper[l].wins + 1 ELSE helper[l].wins
         /\ AskedOnce(l)'
<1> DEFINE n == Len(asked[l])
           q == [attempt |-> helper[l].attempt, answer |-> a]
<1>1. /\ TypeOK /\ StepInv(l) /\ CountInv(l) /\ ExitInv(l) /\ AskedOnce(l)
      /\ asked[l] \in Seq(Question) /\ n \in Nat
      /\ helper[l] \in Helper /\ helper[l].attempt \in Nat
  BY Typed DEF LoginInv, Helper
<1>2. q \in Question
  BY <1>1 DEF Question
<1>3. asked'[l] = Append(asked[l], q)
  BY <1>1 DEF TypeOK, Recorded
<1>4. /\ asked'[l] \in Seq(Question) /\ Len(asked'[l]) = n + 1
      /\ DOMAIN asked[l] = 1 .. n /\ DOMAIN asked'[l] = 1 .. n + 1
      /\ \A i \in DOMAIN asked[l] : asked'[l][i] = asked[l][i]
      /\ asked'[l][n + 1] = q
  BY <1>1, <1>2, <1>3
<1>5. \A k \in Logins : k # l => asked'[k] = asked[k]
  BY <1>1 DEF TypeOK, Recorded
<1>6. asked' \in [Logins -> Seq(Question)]
  BY <1>1, <1>4, <1>5 DEF TypeOK, Recorded
<1>7. DOMAIN asked'[l] = DOMAIN asked[l] \cup {n + 1}
  BY <1>1, <1>4
<1>8. /\ IsFiniteSet(Matched(l)) /\ helper[l].wins = Cardinality(Matched(l))
      /\ helper[l].config # None /\ helper[l].wins \in Nat
  BY <1>1 DEF CountInv, Wins, TypeOK, At, Helper
<1>9. /\ helper[l].attempt \in 1 .. Policy(l).attempts /\ helper[l].capture \in 1 .. Retries
      /\ \A i \in DOMAIN asked[l] :
           /\ asked[l][i].attempt <= helper[l].attempt
           /\ asked[l][i].answer \in {"matched", "mismatch", "retryable"}
           /\ asked[l][i].attempt = helper[l].attempt =>
                /\ asked[l][i].answer = "retryable"
                /\ helper[l].config.crossCheck
                /\ n - i < helper[l].capture - 1
  BY <1>1 DEF CountInv, At
<1>10. \A x : x \in Matched(l) <=>
          \E i \in DOMAIN asked[l] : asked[l][i].answer = "matched" /\ x = asked[l][i].attempt
  BY DEF Matched
<1>11. \A x : x \in Matched(l)' <=>
          \E i \in DOMAIN asked'[l] : asked'[l][i].answer = "matched" /\ x = asked'[l][i].attempt
  BY DEF Matched
<1>12. q.attempt = helper[l].attempt /\ q.answer = a
  OBVIOUS
<1>13. \A x : x \in Matched(l)' <=> x \in Matched(l) \/ (a = "matched" /\ x = helper[l].attempt)
  BY <1>4, <1>7, <1>10, <1>11, <1>12
<1>14. helper[l].attempt \notin Matched(l)
  BY <1>9, <1>10
<1>15. ASSUME a = "matched"
       PROVE  IsFiniteSet(Matched(l)') /\ Wins(l)' = helper[l].wins + 1
  <2>1. Matched(l)' = Matched(l) \cup {helper[l].attempt}
    BY <1>13, <1>15
  <2>2. /\ IsFiniteSet(Matched(l) \cup {helper[l].attempt})
        /\ Cardinality(Matched(l) \cup {helper[l].attempt}) = Cardinality(Matched(l)) + 1
    <3>1. IsFiniteSet(Matched(l)) /\ helper[l].attempt \notin Matched(l)
      BY <1>8, <1>14
    <3>2. QED
      BY <3>1, FS_AddElement
  <2>3. QED
    BY <1>8, <2>1, <2>2 DEF Wins
<1>16. ASSUME a # "matched"
       PROVE  IsFiniteSet(Matched(l)') /\ Wins(l)' = helper[l].wins
  <2>1. Matched(l)' = Matched(l)
    BY <1>13, <1>16
  <2>2. QED
    BY <1>8, <1>16, <2>1 DEF Wins
<1>17. LastAnswer(l)' = a
  BY <1>4, <1>12 DEF LastAnswer
<1>18. Policy(l)' = Policy(l)
  BY DEF Policy
<1>19. AskedOnce(l)'
  <2> SUFFICES ASSUME NEW i \in 1 .. n + 1, NEW j \in 1 .. n + 1
               PROVE  /\ i < j => asked'[l][i].attempt <= asked'[l][j].attempt
                      /\ i < j /\ asked'[l][i].attempt = asked'[l][j].attempt
                           => /\ asked'[l][i].answer = "retryable"
                              /\ helper[l].config.crossCheck
                              /\ j - i < Retries
                      /\ asked'[l][j].attempt <= Policy(l).attempts
    BY <1>4, <1>18 DEF AskedOnce
  <2>1. CASE i \in 1 .. n /\ j \in 1 .. n
    <3>1. i \in DOMAIN asked[l] /\ j \in DOMAIN asked[l]
      BY <1>4, <2>1
    <3>2. asked'[l][i] = asked[l][i] /\ asked'[l][j] = asked[l][j]
      BY <1>4, <3>1
    <3>3. /\ i < j => asked[l][i].attempt <= asked[l][j].attempt
          /\ i < j /\ asked[l][i].attempt = asked[l][j].attempt
               => /\ asked[l][i].answer = "retryable"
                  /\ helper[l].config.crossCheck
                  /\ j - i < Retries
          /\ asked[l][j].attempt <= Policy(l).attempts
      BY <1>1, <3>1 DEF AskedOnce
    <3>4. QED
      BY <3>2, <3>3
  <2>2. CASE i \in 1 .. n /\ j = n + 1
    <3>1. i \in DOMAIN asked[l] /\ asked'[l][i] = asked[l][i]
      BY <1>4, <2>2
    <3>2. asked'[l][j].attempt = helper[l].attempt
      BY <1>4, <1>12, <2>2
    <3>3. /\ asked[l][i].attempt <= helper[l].attempt
          /\ asked[l][i].attempt = helper[l].attempt =>
               /\ asked[l][i].answer = "retryable"
               /\ helper[l].config.crossCheck
               /\ n - i < helper[l].capture - 1
      BY <1>9, <3>1
    <3>4. n - i < helper[l].capture - 1 => j - i < Retries
      BY <1>1, <1>9, <2>2, LoginAssumption
    <3>5. helper[l].attempt <= Policy(l).attempts
      BY <1>9
    <3>6. QED
      BY <3>1, <3>2, <3>3, <3>4, <3>5
  <2>3. CASE i = n + 1
    <3>1. CASE j \in 1 .. n
      BY <1>1, <1>4, <2>3, <3>1 DEF AskedOnce
    <3>2. CASE j = n + 1
      BY <1>1, <1>4, <1>9, <1>12, <2>3, <3>2, Typed
    <3>3. QED
      BY <1>1, <3>1, <3>2
  <2>4. QED
    BY <1>1, <2>1, <2>2, <2>3
<1>20. asked'[l] # << >>
  BY <1>1, <1>4
<1>21. QED
  BY <1>4, <1>5, <1>6, <1>7, <1>12, <1>15, <1>16, <1>17, <1>19, <1>20

\* The helper goes on after an answer, with the next attempt or another capture.
LEMMA Continues ==
  ASSUME LoginInv, NEW l \in Logins, At(l, "sent"),
         NEW a \in {"matched", "mismatch", "retryable"},
         a = "retryable" => helper[l].config.crossCheck,
         Recorded(l, a),
         NEW x \in Nat, NEW y \in Nat,
         \/ x = helper[l].attempt + 1 /\ x <= Policy(l).attempts /\ y = 1
         \/ x = helper[l].attempt /\ a = "retryable" /\ y = helper[l].capture + 1 /\ y <= Retries,
         NEW w \in Nat, w < Policy(l).required,
         w = IF a = "matched" THEN helper[l].wins + 1 ELSE helper[l].wins,
         CapturesAgain(l, x, y, w)
  PROVE  LoginInv'
<1> USE DEF CapturesAgain
<1>1. /\ TypeOK /\ StepInv(l) /\ CountInv(l) /\ ExitInv(l)
      /\ helper[l] \in Helper /\ helper \in [Logins -> Helper] /\ Retries \in Nat \ {0}
      /\ helper[l].config # None /\ Len(asked[l]) \in Nat /\ asked[l] \in Seq(Question)
  BY Typed, LoginAssumption DEF LoginInv, TypeOK, At
<1>2. helper'[l] = [helper[l] EXCEPT !.at = "capture", !.attempt = x, !.capture = y, !.wins = w]
  BY <1>1
<1>3. helper'[l] = [at |-> "capture", config |-> helper[l].config, attempt |-> x,
                    capture |-> y, wins |-> w, exit |-> helper[l].exit]
  BY <1>1, <1>2 DEF Helper
<1>4. y \in 1 .. Retries
  BY <1>1 DEF Helper
<1>5. helper'[l] \in Helper
  BY <1>1, <1>3, <1>4 DEF Helper, HelperSteps
<1>6. \A k \in Logins : k # l => helper'[k] = helper[k]
  BY <1>1
<1>7. helper' \in [Logins -> Helper]
  BY <1>1, <1>5, <1>6
<1>8. /\ helper'[l].at = "capture" /\ helper'[l].config = helper[l].config
      /\ helper'[l].attempt = x /\ helper'[l].capture = y /\ helper'[l].wins = w
      /\ helper'[l].exit = helper[l].exit
  BY <1>3
<1>9. a \in Answers
  BY DEF Answers
<1>10. /\ asked' \in [Logins -> Seq(Question)]
       /\ \A k \in Logins : k # l => asked'[k] = asked[k]
       /\ Len(asked'[l]) = Len(asked[l]) + 1 /\ asked'[l] # << >>
       /\ DOMAIN asked'[l] = DOMAIN asked[l] \cup {Len(asked'[l])}
       /\ \A i \in DOMAIN asked[l] : asked'[l][i] = asked[l][i]
       /\ asked'[l][Len(asked'[l])] = [attempt |-> helper[l].attempt, answer |-> a]
       /\ IsFiniteSet(Matched(l)')
       /\ Wins(l)' = w
       /\ AskedOnce(l)'
  BY <1>8, <1>9, Answered
<1>11. TypeOK'
  BY <1>1, <1>6, <1>7, <1>8, <1>10 DEF TypeOK
<1>12. OnlyFor(l)
  BY <1>6, <1>10 DEF OnlyFor
<1>13. Policy(l)' = Policy(l)
  BY <1>8 DEF Policy
<1>14. StepInv(l)'
  BY <1>1, <1>8, LoginAssumption DEF StepInv, At, Running
<1>15. ExitInv(l)'
  BY <1>1, <1>8, LoginAssumption DEF ExitInv, StepInv, At
<1>16. /\ helper[l].attempt \in 1 .. Policy(l).attempts /\ helper[l].capture \in 1 .. Retries
       /\ \A i \in DOMAIN asked[l] :
            /\ asked[l][i].attempt <= helper[l].attempt
            /\ asked[l][i].answer \in {"matched", "mismatch", "retryable"}
            /\ asked[l][i].attempt = helper[l].attempt =>
                 /\ asked[l][i].answer = "retryable"
                 /\ helper[l].config.crossCheck
                 /\ Len(asked[l]) - i < helper[l].capture - 1
  BY <1>1 DEF CountInv, At
<1>17. Policy(l).attempts \in Nat
  BY <1>1, Typed
<1>18. ASSUME NEW i \in DOMAIN asked'[l]
       PROVE  /\ asked'[l][i].attempt <= x
              /\ asked'[l][i].answer \in {"matched", "mismatch", "retryable"}
              /\ asked'[l][i].attempt = x =>
                   /\ asked'[l][i].answer = "retryable"
                   /\ helper[l].config.crossCheck
                   /\ Len(asked'[l]) - i < y - 1
  <2>1. CASE i \in DOMAIN asked[l]
    <3>1. i \in Nat /\ asked[l][i] \in Question /\ asked[l][i].attempt \in Nat
      <4>1. i \in Nat /\ asked[l][i] \in Question
        BY <1>1, <2>1
      <4>2. QED
        BY <4>1 DEF Question
    <3>2. asked'[l][i] = asked[l][i]
      BY <1>10, <2>1
    <3>3. /\ asked[l][i].attempt <= helper[l].attempt
          /\ asked[l][i].answer \in {"matched", "mismatch", "retryable"}
          /\ asked[l][i].attempt = helper[l].attempt =>
               /\ asked[l][i].answer = "retryable"
               /\ helper[l].config.crossCheck
               /\ Len(asked[l]) - i < helper[l].capture - 1
      BY <1>16, <2>1
    <3>4. helper[l].attempt \in Nat /\ helper[l].capture \in Nat
      BY <1>1 DEF Helper
    <3>5. CASE x = helper[l].attempt + 1
      BY <3>1, <3>2, <3>3, <3>4, <3>5
    <3>6. CASE x = helper[l].attempt /\ y = helper[l].capture + 1
      BY <1>1, <1>10, <3>1, <3>2, <3>3, <3>4, <3>6
    <3>7. QED
      BY <3>5, <3>6
  <2>2. CASE i = Len(asked'[l])
    BY <1>1, <1>10, <1>16, <1>17, <2>2
  <2>3. QED
    BY <1>10, <1>18, <2>1, <2>2
<1>19. CountInv(l)'
  <2>1. helper'[l].attempt \in 1 .. Policy(l)'.attempts
    BY <1>8, <1>13, <1>16, <1>17
  <2>2. helper'[l].wins = Wins(l)' /\ helper'[l].wins < Policy(l)'.required
    BY <1>8, <1>10, <1>13
  <2>3. \A i \in DOMAIN asked'[l] :
          /\ asked'[l][i].attempt <= helper'[l].attempt
          /\ asked'[l][i].answer \in {"matched", "mismatch", "retryable"}
          /\ asked'[l][i].attempt = helper'[l].attempt =>
               /\ asked'[l][i].answer = "retryable"
               /\ helper'[l].config.crossCheck
               /\ Len(asked'[l]) - i < helper'[l].capture - 1
    BY <1>8, <1>18
  <2>4. helper'[l].capture \in 1 .. Retries /\ IsFiniteSet(Matched(l)')
    BY <1>4, <1>8, <1>10
  <2>5. QED
    BY <2>1, <2>2, <2>3, <2>4, Zenon DEF CountInv
<1>20. QED
  BY <1>10, <1>11, <1>12, <1>14, <1>15, <1>19, OneStep

\* An answer after which the helper ends.
LEMMA AnswerEnds ==
  ASSUME LoginInv, NEW l \in Logins, At(l, "sent"), NEW a \in Answers,
         a = "retryable" => helper[l].config.crossCheck,
         Recorded(l, a),
         NEW code \in ExitCodes, Exit(l, code), UNCHANGED pam,
         \/ code = "recognized" /\ a = "matched" /\ helper[l].wins + 1 >= Policy(l).required
         \/ /\ code = FallbackOrDeny(helper[l].config)
            /\ a = "matched" => helper[l].wins + 1 < Policy(l).required
         \/ code = "internal_error" /\ a = "error"
  PROVE  LoginInv'
<1>1. /\ TypeOK /\ CountInv(l) /\ helper[l].config # None /\ Running(l)
      /\ helper[l].config \in Config /\ helper[l].wins \in Nat
      /\ Policy(l).required \in Nat
  BY Typed DEF LoginInv, TypeOK, At, Running, Helper
<1>2. helper[l].wins < Policy(l).required
  BY <1>1 DEF CountInv, At
<1>3. helper'[l].config = helper[l].config
  BY <1>1, ExitDoes
<1>4. /\ asked' \in [Logins -> Seq(Question)]
      /\ \A k \in Logins : k # l => asked'[k] = asked[k]
      /\ asked'[l] # << >>
      /\ LastAnswer(l)' = a
      /\ Wins(l)' = IF a = "matched" THEN helper[l].wins + 1 ELSE helper[l].wins
      /\ AskedOnce(l)'
  BY <1>3, Answered
<1>5. helper[l].config.fallback \in BOOLEAN
  BY <1>1 DEF Config
<1>6. code \in {"not_recognized", "denied"} <=> code = FallbackOrDeny(helper[l].config)
  <2>1. CASE code = "recognized"
    BY <2>1 DEF FallbackOrDeny
  <2>2. CASE code = "internal_error"
    BY <2>2 DEF FallbackOrDeny
  <2>3. CASE code = FallbackOrDeny(helper[l].config)
    BY <2>3 DEF FallbackOrDeny
  <2>4. QED
    BY <2>1, <2>2, <2>3
<1>7. /\ code = "not_recognized" => helper[l].config.fallback
      /\ code = "denied" => ~helper[l].config.fallback
      /\ code \in {"recognized", "not_recognized", "denied", "internal_error"}
  BY <1>5, <1>6 DEF FallbackOrDeny
<1>8. /\ code = "recognized" => Wins(l)' >= Policy(l).required
      /\ code # "recognized" => Wins(l)' < Policy(l).required
  BY <1>1, <1>2, <1>4, <1>6, <1>7
<1>9. /\ code = "internal_error" => a = "error"
      /\ a = "unavailable" => code \in {"not_recognized", "denied"}
  BY <1>6, <1>7
<1>10. QED
  BY <1>1, <1>4, <1>7, <1>8, <1>9, Exits

\* Every answer of the broker keeps the invariant.
LEMMA AnswerStep ==
  ASSUME LoginInv, NEW l \in Logins, NEW a \in Answers, Answer(l, a)
  PROVE  LoginInv'
<1>1. /\ At(l, "sent") /\ (a = "retryable" => helper[l].config.crossCheck)
      /\ Recorded(l, a) /\ UNCHANGED pam
  BY DEF Answer, Recorded
<1>2. /\ helper[l].config \in Config /\ helper[l].wins \in Nat /\ helper[l].attempt \in Nat
      /\ helper[l].capture \in Nat /\ Retries \in Nat
      /\ Policy(l).required \in Nat /\ Policy(l).attempts \in Nat
  BY <1>1, Typed, LoginAssumption DEF LoginInv, TypeOK, At, Helper
<1>3. helper[l].wins < Policy(l).required
  BY <1>1 DEF LoginInv, CountInv, At
<1>4. FallbackOrDeny(helper[l].config) \in ExitCodes
  BY DEF FallbackOrDeny, ExitCodes
<1>5. {"recognized", "internal_error"} \subseteq ExitCodes
  BY DEF ExitCodes
<1>6. ASSUME NextAttempt(l), a \in {"mismatch", "retryable"}
      PROVE  LoginInv'
  <2>1. CASE helper[l].attempt < Policy(l).attempts
    <3>1. /\ helper' = [helper EXCEPT ![l].at = "capture", ![l].attempt = helper[l].attempt + 1,
                                      ![l].capture = 1]
          /\ UNCHANGED holder
      BY <1>6, <2>1 DEF NextAttempt
    <3>2. helper \in [Logins -> Helper]
      BY DEF LoginInv, TypeOK
    <3>3. CapturesAgain(l, helper[l].attempt + 1, 1, helper[l].wins)
      BY <1>1, <3>1, <3>2 DEF Helper, CapturesAgain
    <3>4. /\ helper[l].attempt + 1 \in Nat /\ helper[l].attempt + 1 <= Policy(l).attempts
          /\ a \in {"matched", "mismatch", "retryable"} /\ a # "matched"
      BY <1>2, <1>6, <2>1
    <3>5. QED
      BY <1>1, <1>2, <1>3, <3>3, <3>4, Continues
  <2>2. CASE ~(helper[l].attempt < Policy(l).attempts)
    <3>1. Exit(l, FallbackOrDeny(helper[l].config))
      BY <1>6, <2>2 DEF NextAttempt
    <3>2. QED
      BY <1>1, <1>4, <1>6, <3>1, AnswerEnds
  <2>3. QED
    BY <2>1, <2>2
<1>7. CASE a = "matched"
  <2>1. Win(l)
    BY <1>7 DEF Answer
  <2>2. CASE helper[l].wins + 1 >= Policy(l).required
    <3>1. Exit(l, "recognized")
      BY <2>1, <2>2 DEF Win
    <3>2. QED
      BY <1>1, <1>5, <1>7, <2>2, <3>1, AnswerEnds
  <2>3. CASE helper[l].wins + 1 < Policy(l).required /\ helper[l].attempt < Policy(l).attempts
    <3>1. /\ helper' = [helper EXCEPT ![l].at = "capture", ![l].attempt = helper[l].attempt + 1,
                                      ![l].capture = 1, ![l].wins = helper[l].wins + 1]
          /\ UNCHANGED holder
      BY <1>2, <2>1, <2>3 DEF Win
    <3>2. CapturesAgain(l, helper[l].attempt + 1, 1, helper[l].wins + 1)
      BY <1>1, <3>1 DEF CapturesAgain
    <3>3. /\ helper[l].attempt + 1 \in Nat /\ helper[l].attempt + 1 <= Policy(l).attempts
          /\ helper[l].wins + 1 \in Nat /\ a \in {"matched", "mismatch", "retryable"}
      BY <1>2, <1>7, <2>3
    <3>4. QED
      BY <1>1, <1>2, <1>7, <2>3, <3>2, <3>3, Continues
  <2>4. CASE helper[l].wins + 1 < Policy(l).required /\ ~(helper[l].attempt < Policy(l).attempts)
    <3>1. Exit(l, FallbackOrDeny(helper[l].config))
      BY <1>2, <2>1, <2>4 DEF Win
    <3>2. QED
      BY <1>1, <1>4, <1>7, <2>4, <3>1, AnswerEnds
  <2>5. QED
    BY <1>2, <2>2, <2>3, <2>4
<1>8. CASE a = "mismatch"
  BY <1>6, <1>8 DEF Answer
<1>9. CASE a = "retryable"
  <2>1. CASE Recaptures(l)
    <3>1. /\ helper' = [helper EXCEPT ![l].at = "capture", ![l].capture = helper[l].capture + 1]
          /\ UNCHANGED holder /\ helper[l].capture + 1 <= Retries
      BY <1>2, <1>9, <2>1 DEF Answer, Recapture, Recaptures
    <3>2. helper \in [Logins -> Helper]
      BY DEF LoginInv, TypeOK
    <3>3. CapturesAgain(l, helper[l].attempt, helper[l].capture + 1, helper[l].wins)
      BY <1>1, <3>1, <3>2 DEF Helper, CapturesAgain
    <3>4. helper[l].capture + 1 \in Nat /\ a \in {"matched", "mismatch", "retryable"}
      BY <1>2, <1>9
    <3>5. QED
      BY <1>1, <1>2, <1>3, <1>9, <3>1, <3>3, <3>4, Continues
  <2>2. CASE ~Recaptures(l)
    BY <1>6, <1>9, <2>2 DEF Answer
  <2>3. QED
    BY <2>1, <2>2
<1>10. CASE a = "unavailable"
  <2>1. Exit(l, FallbackOrDeny(helper[l].config))
    BY <1>10 DEF Answer, OnUnavailable
  <2>2. QED
    BY <1>1, <1>4, <1>10, <2>1, AnswerEnds
<1>11. CASE a = "error"
  <2>1. Exit(l, "internal_error")
    BY <1>11 DEF Answer
  <2>2. QED
    BY <1>1, <1>5, <1>11, <2>1, AnswerEnds
<1>12. QED
  BY <1>7, <1>8, <1>9, <1>10, <1>11 DEF Answers

-----------------------------------------------------------------------------
(* The other steps of the helper. *)

\* The helper ends, not having asked the broker again.
LEMMA EndsUnasked ==
  ASSUME LoginInv, NEW l \in Logins, Running(l), NEW code \in ExitCodes, Exit(l, code),
         UNCHANGED <<pam, asked>>,
         \/ helper[l].config = None /\ code = "config_error"
         \/ code = "crashed"
         \/ /\ code = CameraErrorOrFallback(helper[l].config)
            /\ helper[l].config # None
            /\ Wins(l) < Policy(l).required
            /\ asked[l] # << >> => LastAnswer(l) # "unavailable"
  PROVE  LoginInv'
<1>1. TypeOK /\ AskedOnce(l) /\ asked \in [Logins -> Seq(Question)]
  BY DEF LoginInv, TypeOK
<1>2. helper'[l].config = helper[l].config
  BY <1>1, ExitDoes
<1>3. /\ asked' \in [Logins -> Seq(Question)]
      /\ \A k \in Logins : k # l => asked'[k] = asked[k]
      /\ LastAnswer(l)' = LastAnswer(l) /\ Wins(l)' = Wins(l) /\ AskedOnce(l)'
  BY <1>1, <1>2 DEF LastAnswer, Wins, Matched, AskedOnce, Policy
<1>4. helper[l].config # None => helper[l].config.fallback \in BOOLEAN
                                 /\ helper[l].config.denyOnCamera \in BOOLEAN
  BY <1>1, Typed DEF Config
<1>5. CASE helper[l].config = None /\ code = "config_error"
  BY <1>3, <1>5, Exits
<1>6. CASE code = "crashed"
  BY <1>3, <1>6, Exits
<1>7. ASSUME code = CameraErrorOrFallback(helper[l].config),
             helper[l].config # None,
             Wins(l) < Policy(l).required,
             asked[l] # << >> => LastAnswer(l) # "unavailable"
      PROVE  LoginInv'
  <2>1. /\ code \in {"camera_error", "not_recognized", "denied"}
        /\ code = "not_recognized" => helper[l].config.fallback
        /\ code = "denied" => ~helper[l].config.fallback
        /\ code = "camera_error" => helper[l].config.denyOnCamera
    BY <1>4, <1>7 DEF CameraErrorOrFallback, FallbackOrDeny
  <2>2. QED
    BY <1>3, <1>7, <2>1, Exits
<1>8. QED
  BY <1>5, <1>6, <1>7, Zenon

\* With no question answered nothing has matched.
LEMMA NothingMatched ==
  ASSUME NEW l \in Logins, asked[l] = << >>
  PROVE  IsFiniteSet(Matched(l)) /\ Wins(l) = 0
<1>1. Matched(l) = {}
  BY DEF Matched
<1>2. QED
  BY <1>1, FS_EmptySet DEF Wins

\* A config that cannot be loaded ends a helper that has asked nothing.
LEMMA LoadFailsStep ==
  ASSUME LoginInv, NEW l \in Logins, LoadFails(l)
  PROVE  LoginInv'
<1>1. Running(l) /\ helper[l].config = None /\ "config_error" \in ExitCodes
  BY DEF LoadFails, At, Running, LoginInv, StepInv, ExitCodes
<1>2. Exit(l, "config_error") /\ UNCHANGED <<pam, asked>>
  BY DEF LoadFails
<1>3. QED
  BY <1>1, <1>2, EndsUnasked

\* The helper may die at any point.
LEMMA CrashStep ==
  ASSUME LoginInv, NEW l \in Logins, Crash(l)
  PROVE  LoginInv'
<1>1. Running(l) /\ "crashed" \in ExitCodes /\ Exit(l, "crashed") /\ UNCHANGED <<pam, asked>>
  BY DEF Crash, ExitCodes
<1>2. QED
  BY <1>1, EndsUnasked

\* A camera error is answered as the config says, and hides no success.
LEMMA CameraFailsStep ==
  ASSUME LoginInv, NEW l \in Logins, CameraFails(l)
  PROVE  LoginInv'
<1> DEFINE code == CameraErrorOrFallback(helper[l].config)
<1>1. Running(l) /\ Exit(l, code) /\ UNCHANGED <<pam, asked>>
  BY DEF CameraFails, At, Running
<1>2. code \in ExitCodes
  BY DEF CameraErrorOrFallback, FallbackOrDeny, ExitCodes
<1>3. /\ helper[l].at \in {"rgb", "ir", "capture"} /\ helper[l].config # None
      /\ Policy(l).required \in Nat \ {0} /\ asked[l] \in Seq(Question)
      /\ Len(asked[l]) \in Nat
  BY Typed DEF CameraFails, At, LoginInv, TypeOK
<1>4. CASE helper[l].at \in {"rgb", "ir"}
  <2>1. asked[l] = << >>
    BY <1>4 DEF LoginInv, StepInv
  <2>2. Wins(l) < Policy(l).required
    BY <1>3, <2>1, NothingMatched
  <2>3. QED
    BY <1>1, <1>2, <1>3, <2>1, <2>2, EndsUnasked
<1>5. CASE helper[l].at = "capture"
  <2>1. /\ Wins(l) < Policy(l).required
        /\ \A i \in DOMAIN asked[l] : asked[l][i].answer \in {"matched", "mismatch", "retryable"}
    BY <1>5 DEF LoginInv, CountInv
  <2>2. asked[l] # << >> => LastAnswer(l) # "unavailable"
    <3>1. ASSUME asked[l] # << >>
          PROVE  Len(asked[l]) \in DOMAIN asked[l]
      BY <1>3, <3>1
    <3>2. QED
      BY <2>1, <3>1 DEF LastAnswer
  <2>3. QED
    BY <1>1, <1>2, <1>3, <2>1, <2>2, EndsUnasked
<1>6. QED
  BY <1>3, <1>4, <1>5

\* The config is there before the first camera.
LEMMA LoadConfigStep ==
  ASSUME LoginInv, NEW l \in Logins, NEW c \in Configs, LoadConfig(l, c)
  PROVE  LoginInv'
<1>1. /\ TypeOK /\ StepInv(l) /\ CountInv(l) /\ ExitInv(l) /\ helper[l] \in Helper
      /\ helper \in [Logins -> Helper] /\ At(l, "load") /\ asked[l] = << >>
      /\ helper[l].exit = None /\ c # None /\ c \in Configs
  BY Typed, LoginAssumption DEF LoginInv, LoadConfig, StepInv, At, TypeOK
<1>2. /\ helper' = [helper EXCEPT ![l].at = "rgb", ![l].config = c]
      /\ UNCHANGED <<pam, holder, asked>>
  BY DEF LoadConfig
<1>3. helper'[l] = [helper[l] EXCEPT !.at = "rgb", !.config = c]
  BY <1>1, <1>2
<1>4. helper'[l] = [at |-> "rgb", config |-> c, attempt |-> helper[l].attempt,
                    capture |-> helper[l].capture, wins |-> helper[l].wins,
                    exit |-> helper[l].exit]
  BY <1>1, <1>3 DEF Helper
<1>5. helper'[l] \in Helper
  BY <1>1, <1>4 DEF Helper, HelperSteps
<1>6. \A k \in Logins : k # l => helper'[k] = helper[k]
  BY <1>1, <1>2
<1>7. helper' \in [Logins -> Helper]
  BY <1>1, <1>2, <1>5, <1>6
<1>8. /\ helper'[l].at = "rgb" /\ helper'[l].config = c /\ helper'[l].wins = helper[l].wins
      /\ helper'[l].exit = None
  BY <1>1, <1>4
<1>9. TypeOK'
  BY <1>1, <1>2, <1>6, <1>7, <1>8 DEF TypeOK
<1>10. OnlyFor(l)
  BY <1>2, <1>6 DEF OnlyFor
<1>11. StepInv(l)'
  BY <1>1, <1>2, <1>8 DEF StepInv, At, Running
<1>12. CountInv(l)'
  BY <1>8 DEF CountInv
<1>13. ExitInv(l)'
  BY <1>1, <1>2, <1>8, LoginAssumption DEF ExitInv, At
<1>14. AskedOnce(l)'
  BY <1>1, <1>2 DEF AskedOnce
<1>15. QED
  BY <1>9, <1>10, <1>11, <1>12, <1>13, <1>14, OneStep

\* The first attempt starts with the last camera.
LEMMA OpenCameraStep ==
  ASSUME LoginInv, NEW l \in Logins, NEW c \in Cameras, OpenCamera(l, c)
  PROVE  LoginInv'
<1>1. /\ TypeOK /\ StepInv(l) /\ CountInv(l) /\ ExitInv(l) /\ helper[l] \in Helper
      /\ helper \in [Logins -> Helper] /\ helper[l].at \in {"rgb", "ir"} /\ asked[l] = << >>
      /\ helper[l].wins = 0 /\ helper[l].exit = None /\ helper[l].config # None
      /\ Policy(l).required \in Nat \ {0} /\ Policy(l).attempts \in Nat \ {0}
      /\ Retries \in Nat \ {0}
  BY Typed, LoginAssumption DEF LoginInv, OpenCamera, StepInv, At, TypeOK, Cameras
<1>2. /\ helper' = [helper EXCEPT ![l].at = NextCamera(l), ![l].attempt = 1, ![l].capture = 1]
      /\ holder' = [holder EXCEPT ![c] = l]
      /\ UNCHANGED <<pam, asked>>
  BY DEF OpenCamera
<1>3. helper'[l] = [helper[l] EXCEPT !.at = NextCamera(l), !.attempt = 1, !.capture = 1]
  BY <1>1, <1>2
<1>4. helper'[l] = [at |-> NextCamera(l), config |-> helper[l].config, attempt |-> 1,
                    capture |-> 1, wins |-> helper[l].wins, exit |-> helper[l].exit]
  BY <1>1, <1>3 DEF Helper
<1>5. NextCamera(l) \in {"ir", "capture"}
  BY DEF NextCamera
<1>6. helper'[l] \in Helper
  BY <1>1, <1>4, <1>5 DEF Helper, HelperSteps
<1>7. \A k \in Logins : k # l => helper'[k] = helper[k]
  BY <1>1, <1>2
<1>8. helper' \in [Logins -> Helper]
  BY <1>1, <1>2, <1>6, <1>7
<1>9. /\ helper'[l].at \in {"ir", "capture"} /\ helper'[l].config = helper[l].config
      /\ helper'[l].attempt = 1 /\ helper'[l].capture = 1
      /\ helper'[l].wins = 0 /\ helper'[l].exit = None
  BY <1>1, <1>4, <1>5
<1>10. holder' \in [Cameras -> Logins \cup {None}]
  BY <1>1, <1>2 DEF TypeOK
<1>11. TypeOK'
  BY <1>1, <1>2, <1>7, <1>8, <1>9, <1>10 DEF TypeOK
<1>12. OnlyFor(l)
  BY <1>1, <1>2, <1>7 DEF OnlyFor, TypeOK
<1>13. StepInv(l)'
  BY <1>1, <1>2, <1>9 DEF StepInv, At, Running
<1>14. Policy(l)' = Policy(l) /\ asked'[l] = << >>
  BY <1>1, <1>2, <1>9 DEF Policy
<1>15. IsFiniteSet(Matched(l)') /\ Wins(l)' = 0
  <2>1. Matched(l)' = {}
    BY <1>14 DEF Matched
  <2>2. QED
    BY <2>1, FS_EmptySet DEF Wins
<1>16. CountInv(l)'
  BY <1>1, <1>9, <1>14, <1>15 DEF CountInv
<1>17. ExitInv(l)'
  BY <1>1, <1>2, <1>9, LoginAssumption DEF ExitInv, At
<1>18. AskedOnce(l)'
  BY <1>14 DEF AskedOnce
<1>19. QED
  BY <1>11, <1>12, <1>13, <1>16, <1>17, <1>18, OneStep

\* Capturing changes none of the counts.
LEMMA CaptureStep ==
  ASSUME LoginInv, NEW l \in Logins, Capture(l)
  PROVE  LoginInv'
<1>1. /\ TypeOK /\ StepInv(l) /\ CountInv(l) /\ ExitInv(l) /\ AskedOnce(l)
      /\ helper[l] \in Helper /\ helper \in [Logins -> Helper] /\ At(l, "capture")
      /\ helper[l].config # None
  BY Typed DEF LoginInv, Capture, TypeOK, At
<1>2. helper' = [helper EXCEPT ![l].at = "sent"] /\ UNCHANGED <<pam, holder, asked>>
  BY DEF Capture
<1>3. helper'[l] = [helper[l] EXCEPT !.at = "sent"]
  BY <1>1, <1>2
<1>4. helper'[l] = [at |-> "sent", config |-> helper[l].config, attempt |-> helper[l].attempt,
                    capture |-> helper[l].capture, wins |-> helper[l].wins,
                    exit |-> helper[l].exit]
  BY <1>1, <1>3 DEF Helper
<1>5. helper'[l] \in Helper
  BY <1>1, <1>4 DEF Helper, HelperSteps
<1>6. \A k \in Logins : k # l => helper'[k] = helper[k]
  BY <1>1, <1>2
<1>7. helper' \in [Logins -> Helper]
  BY <1>1, <1>2, <1>5, <1>6
<1>8. /\ helper'[l].at = "sent" /\ helper'[l].config = helper[l].config
      /\ helper'[l].attempt = helper[l].attempt /\ helper'[l].capture = helper[l].capture
      /\ helper'[l].wins = helper[l].wins /\ helper'[l].exit = helper[l].exit
  BY <1>4
<1>9. TypeOK'
  BY <1>1, <1>2, <1>6, <1>7, <1>8 DEF TypeOK
<1>10. OnlyFor(l)
  BY <1>2, <1>6 DEF OnlyFor
<1>11. StepInv(l)'
  BY <1>1, <1>2, <1>8 DEF StepInv, At, Running
<1>12. Policy(l)' = Policy(l) /\ Matched(l)' = Matched(l)
  BY <1>2, <1>8 DEF Policy, Matched
<1>13. CountInv(l)'
  BY <1>1, <1>2, <1>8, <1>12 DEF CountInv, At, Wins
<1>14. ExitInv(l)'
  BY <1>1, <1>2, <1>8, LoginAssumption DEF ExitInv, StepInv, At
<1>15. AskedOnce(l)'
  BY <1>1, <1>2, <1>8, <1>12 DEF AskedOnce
<1>16. QED
  BY <1>9, <1>10, <1>11, <1>13, <1>14, <1>15, OneStep

-----------------------------------------------------------------------------
(* The steps of the PAM module. *)

\* What a change of the record of the call makes of it.
LEMMA ReturnDoes ==
  ASSUME TypeOK, NEW l \in Logins, NEW result \in Results, Return(l, result)
  PROVE  /\ pam' \in [Logins -> Call]
         /\ pam'[l].step = "done" /\ pam'[l].result = result /\ pam'[l].scope = pam[l].scope
         /\ \A k \in Logins : k # l => pam'[k] = pam[k]
<1>1. pam \in [Logins -> Call] /\ pam[l] \in Call
  BY DEF TypeOK
<1>2. pam'[l] = [pam[l] EXCEPT !.step = "done", !.result = result]
  BY <1>1 DEF Return
<1>3. pam'[l] = [step |-> "done", scope |-> pam[l].scope, result |-> result]
  BY <1>1, <1>2 DEF Call
<1>4. pam'[l] \in Call
  BY <1>1, <1>3 DEF Call
<1>5. \A k \in Logins : k # l => pam'[k] = pam[k]
  BY <1>1 DEF Return
<1>6. pam' \in [Logins -> Call]
  BY <1>1, <1>4, <1>5 DEF Return
<1>7. QED
  BY <1>3, <1>5, <1>6

\* The helper is left where it has no more to say.
LEMMA HelperLeft ==
  ASSUME TypeOK, NEW l \in Logins, NEW step \in {"reaped", "lost"},
         helper' = [helper EXCEPT ![l].at = step]
  PROVE  /\ helper' \in [Logins -> Helper]
         /\ helper'[l].at = step /\ helper'[l].config = helper[l].config
         /\ helper'[l].exit = helper[l].exit /\ helper'[l].wins = helper[l].wins
         /\ \A k \in Logins : k # l => helper'[k] = helper[k]
<1>1. helper \in [Logins -> Helper] /\ helper[l] \in Helper
  BY DEF TypeOK
<1>2. helper'[l] = [helper[l] EXCEPT !.at = step]
  BY <1>1
<1>3. helper'[l] = [at |-> step, config |-> helper[l].config, attempt |-> helper[l].attempt,
                    capture |-> helper[l].capture, wins |-> helper[l].wins,
                    exit |-> helper[l].exit]
  BY <1>1, <1>2 DEF Helper
<1>4. helper'[l] \in Helper
  BY <1>1, <1>3 DEF Helper, HelperSteps
<1>5. \A k \in Logins : k # l => helper'[k] = helper[k]
  BY <1>1
<1>6. helper' \in [Logins -> Helper]
  BY <1>1, <1>4, <1>5
<1>7. QED
  BY <1>3, <1>5, <1>6

\* PAM is answered before a helper was started.
LEMMA EarlyReturn ==
  ASSUME LoginInv, NEW l \in Logins, pam[l].step = "idle", NEW result \in {"ignore", "auth_err"},
         Return(l, result), UNCHANGED <<helper, holder, asked>>
  PROVE  LoginInv'
<1>1. /\ TypeOK /\ StepInv(l) /\ ExitInv(l) /\ At(l, "none") /\ helper[l] = NoHelper
      /\ asked[l] = << >>
  BY DEF LoginInv, StepInv, At
<1>2. result \in Results
  BY DEF Results
<1>3. /\ pam' \in [Logins -> Call]
      /\ pam'[l].step = "done" /\ pam'[l].result = result
      /\ \A k \in Logins : k # l => pam'[k] = pam[k]
  BY <1>1, <1>2, ReturnDoes
<1>4. TypeOK' /\ OnlyFor(l)
  BY <1>1, <1>3 DEF TypeOK, OnlyFor
<1>5. helper'[l] = NoHelper /\ asked'[l] = << >>
  BY <1>1
<1>6. StepInv(l)'
  BY <1>1, <1>3, <1>5 DEF StepInv, At, Running, NoHelper
<1>7. CountInv(l)'
  BY <1>5 DEF CountInv, NoHelper
<1>8. ExitInv(l)'
  BY <1>3, <1>5, LoginAssumption DEF ExitInv, At, NoHelper, ExitCodes
<1>9. AskedOnce(l)'
  BY <1>5 DEF AskedOnce
<1>10. QED
  BY <1>4, <1>6, <1>7, <1>8, <1>9, OneStep

\* A new helper starts with nothing asked and no camera.
LEMMA SpawnStep ==
  ASSUME LoginInv, NEW l \in Logins, NEW service \in Services, Spawn(l, service)
  PROVE  LoginInv'
<1>1. /\ TypeOK /\ StepInv(l) /\ ExitInv(l) /\ At(l, "none") /\ helper[l] = NoHelper
      /\ pam \in [Logins -> Call] /\ pam[l] \in Call /\ pam[l].step = "idle"
      /\ pam[l].result = None /\ helper \in [Logins -> Helper]
      /\ asked \in [Logins -> Seq(Question)]
  BY DEF LoginInv, StepInv, ExitInv, At, Spawn, TypeOK
<1>2. pam'[l] = [step |-> "waiting", scope |-> ScopeOf(service), result |-> pam[l].result]
  BY <1>1 DEF Spawn, Call
<1>3. ScopeOf(service) \in {"sudo", "session"}
  BY DEF ScopeOf
<1>4. pam'[l] \in Call
  BY <1>1, <1>2, <1>3 DEF Call
<1>5. helper'[l] = [NoHelper EXCEPT !.at = "load"]
  BY <1>1 DEF Spawn
<1>6. helper'[l] = [at |-> "load", config |-> None, attempt |-> 0, capture |-> 0, wins |-> 0,
                    exit |-> None]
  BY <1>5 DEF NoHelper
<1>7. helper'[l] \in Helper
  BY <1>6, LoginAssumption DEF Helper, HelperSteps
<1>8. asked'[l] = << >>
  BY <1>1 DEF Spawn
<1>9. \A k \in Logins : k # l => pam'[k] = pam[k] /\ helper'[k] = helper[k] /\ asked'[k] = asked[k]
  BY <1>1 DEF Spawn
<1>10. /\ pam' \in [Logins -> Call] /\ helper' \in [Logins -> Helper]
       /\ asked' \in [Logins -> Seq(Question)] /\ holder' = holder
  BY <1>1, <1>4, <1>7, <1>8, <1>9 DEF Spawn
<1>11. TypeOK' /\ OnlyFor(l)
  <2>1. \A k \in Logins : helper'[k].at \in {"rgb", "ir", "capture", "sent"} =>
                            helper'[k].config # None
    BY <1>1, <1>6, <1>9 DEF TypeOK
  <2>2. TypeOK'
    BY <1>1, <1>10, <2>1 DEF TypeOK
  <2>3. OnlyFor(l)
    BY <1>9, <1>10 DEF OnlyFor
  <2>4. QED
    BY <2>2, <2>3
<1>12. \A c \in Cameras : holder[c] # l
  BY <1>1 DEF StepInv, At, Running
<1>13. StepInv(l)'
  BY <1>2, <1>6, <1>8, <1>10, <1>12 DEF StepInv, At, Running
<1>14. CountInv(l)'
  BY <1>6 DEF CountInv
<1>15. ExitInv(l)'
  BY <1>1, <1>2, <1>6, LoginAssumption DEF ExitInv, At, ExitCodes, Results
<1>16. AskedOnce(l)'
  BY <1>8 DEF AskedOnce
<1>17. QED
  BY <1>11, <1>13, <1>14, <1>15, <1>16, OneStep

\* The result is that of the exit code.
LEMMA ReapStep ==
  ASSUME LoginInv, NEW l \in Logins, Reap(l)
  PROVE  LoginInv'
<1> DEFINE result == PamResult(helper[l].exit)
<1>1. /\ TypeOK /\ StepInv(l) /\ ExitInv(l) /\ AskedOnce(l) /\ At(l, "exited")
      /\ helper[l] \in Helper /\ helper[l].exit # None
  BY Typed DEF LoginInv, Reap, ExitInv, At
<1>2. result \in Results
  BY DEF PamResult, Results
<1>3. /\ pam' \in [Logins -> Call]
      /\ pam'[l].step = "done" /\ pam'[l].result = result /\ pam'[l].scope = pam[l].scope
      /\ \A k \in Logins : k # l => pam'[k] = pam[k]
  BY <1>1, <1>2, ReturnDoes DEF Reap
<1>4. /\ helper' \in [Logins -> Helper]
      /\ helper'[l].at = "reaped" /\ helper'[l].config = helper[l].config
      /\ helper'[l].exit = helper[l].exit
      /\ \A k \in Logins : k # l => helper'[k] = helper[k]
  BY <1>1, HelperLeft DEF Reap
<1>5. UNCHANGED <<holder, asked>>
  BY DEF Reap
<1>6. TypeOK' /\ OnlyFor(l)
  BY <1>1, <1>3, <1>4, <1>5 DEF TypeOK, OnlyFor
<1>7. StepInv(l)'
  BY <1>1, <1>3, <1>4, <1>5 DEF StepInv, At, Running
<1>8. CountInv(l)'
  BY <1>4 DEF CountInv
<1>9. /\ Policy(l)' = Policy(l) /\ Matched(l)' = Matched(l) /\ Wins(l)' = Wins(l)
      /\ LastAnswer(l)' = LastAnswer(l)
  BY <1>3, <1>4, <1>5 DEF Policy, Matched, LastAnswer, Wins
<1>10. ExitInv(l)'
  BY <1>1, <1>3, <1>4, <1>5, <1>9 DEF ExitInv, At
<1>11. AskedOnce(l)'
  BY <1>1, <1>4, <1>5, <1>9 DEF AskedOnce
<1>12. QED
  BY <1>6, <1>7, <1>8, <1>10, <1>11, OneStep

\* The exit code is lost, because somebody else reaped the helper or because it
\* was killed; PAM ignores the module.
LEMMA Lost ==
  ASSUME LoginInv, NEW l \in Logins, pam[l].step \in {"waiting", "killing"},
         Return(l, "ignore"), helper' = [helper EXCEPT ![l].at = "lost"],
         holder' \in [Cameras -> Logins \cup {None}],
         \A k \in Logins, c \in Cameras : k # l /\ holder'[c] = k => holder[c] = k,
         \A c \in Cameras : holder'[c] # l,
         UNCHANGED asked
  PROVE  LoginInv'
<1>1. /\ TypeOK /\ StepInv(l) /\ ExitInv(l) /\ AskedOnce(l)
      /\ "ignore" \in Results
  BY DEF LoginInv, Results
<1>2. /\ pam' \in [Logins -> Call]
      /\ pam'[l].step = "done" /\ pam'[l].result = "ignore" /\ pam'[l].scope = pam[l].scope
      /\ \A k \in Logins : k # l => pam'[k] = pam[k]
  BY <1>1, ReturnDoes
<1>3. /\ helper' \in [Logins -> Helper]
      /\ helper'[l].at = "lost" /\ helper'[l].config = helper[l].config
      /\ helper'[l].exit = helper[l].exit
      /\ \A k \in Logins : k # l => helper'[k] = helper[k]
  BY <1>1, HelperLeft
<1>4. TypeOK' /\ OnlyFor(l)
  BY <1>1, <1>2, <1>3 DEF TypeOK, OnlyFor
<1>5. StepInv(l)'
  BY <1>1, <1>2, <1>3 DEF StepInv, At, Running
<1>6. CountInv(l)'
  BY <1>3 DEF CountInv
<1>7. ExitInv(l)'
  BY <1>1, <1>2, <1>3 DEF ExitInv, At
<1>8. AskedOnce(l)'
  BY <1>1, <1>2, <1>3 DEF AskedOnce, Policy
<1>9. QED
  BY <1>4, <1>5, <1>6, <1>7, <1>8, OneStep

\* A helper reaped by the system had closed its cameras.
LEMMA ReapFailsStep ==
  ASSUME LoginInv, NEW l \in Logins, ReapFails(l)
  PROVE  LoginInv'
<1>1. \A c \in Cameras : holder[c] # l
  BY DEF LoginInv, StepInv, ReapFails, At, Running
<1>2. holder \in [Cameras -> Logins \cup {None}] /\ UNCHANGED <<holder, asked>>
  BY DEF LoginInv, TypeOK, ReapFails
<1>3. QED
  BY <1>1, <1>2, Lost DEF ReapFails

\* Killing the helper closes its cameras.
LEMMA KillStep ==
  ASSUME LoginInv, NEW l \in Logins, Kill(l)
  PROVE  LoginInv'
<1>1. \A c \in Cameras : holder'[c] = IF holder[c] = l THEN None ELSE holder[c]
  BY DEF Kill, CloseCameras
<1>2. holder' \in [Cameras -> Logins \cup {None}]
  BY DEF Kill, CloseCameras, LoginInv, TypeOK
<1>3. \A c \in Cameras : holder'[c] # l
  BY <1>1, LoginAssumption
<1>4. \A k \in Logins, c \in Cameras : k # l /\ holder'[c] = k => holder[c] = k
  BY <1>1, LoginAssumption
<1>5. QED
  BY <1>2, <1>3, <1>4, Lost DEF Kill

\* Passing the deadline changes nothing for the helper.
LEMMA GiveUpStep ==
  ASSUME LoginInv, NEW l \in Logins, GiveUp(l)
  PROVE  LoginInv'
<1>1. /\ TypeOK /\ StepInv(l) /\ CountInv(l) /\ ExitInv(l) /\ AskedOnce(l) /\ Running(l)
      /\ pam \in [Logins -> Call] /\ pam[l] \in Call /\ pam[l].step = "waiting"
  BY DEF LoginInv, GiveUp, TypeOK
<1>2. UNCHANGED <<helper, holder, asked>>
  BY DEF GiveUp
<1>3. pam'[l] = [pam[l] EXCEPT !.step = "killing"]
  BY <1>1 DEF GiveUp
<1>4. pam'[l] = [step |-> "killing", scope |-> pam[l].scope, result |-> pam[l].result]
  BY <1>1, <1>3 DEF Call
<1>5. pam'[l] \in Call
  BY <1>1, <1>4 DEF Call
<1>6. \A k \in Logins : k # l => pam'[k] = pam[k]
  BY <1>1 DEF GiveUp
<1>7. pam' \in [Logins -> Call]
  BY <1>1, <1>5, <1>6 DEF GiveUp
<1>8. TypeOK' /\ OnlyFor(l)
  BY <1>1, <1>2, <1>6, <1>7 DEF TypeOK, OnlyFor
<1>9. StepInv(l)'
  BY <1>1, <1>2, <1>4 DEF StepInv, At, Running
<1>10. Policy(l)' = Policy(l) /\ Matched(l)' = Matched(l)
  BY <1>2, <1>4 DEF Policy, Matched
<1>11. CountInv(l)'
  BY <1>1, <1>2, <1>10 DEF CountInv, Wins
<1>12. ExitInv(l)'
  <2>1. pam[l].result = None /\ pam'[l].result = None
    BY <1>1, <1>4 DEF ExitInv
  <2>2. ~At(l, "exited") /\ ~At(l, "reaped")
    BY <1>1 DEF Running, At
  <2>3. QED
    BY <1>1, <1>2, <2>1, <2>2, LoginAssumption DEF ExitInv, At, Results
<1>13. AskedOnce(l)'
  BY <1>1, <1>2, <1>10 DEF AskedOnce
<1>14. QED
  BY <1>8, <1>9, <1>11, <1>12, <1>13, OneStep

\* The place of a finished login is as new.
LEMMA LeaveStep ==
  ASSUME LoginInv, NEW l \in Logins, Leave(l)
  PROVE  LoginInv'
<1>1. /\ TypeOK /\ StepInv(l) /\ pam[l].step = "done" /\ ~Running(l)
      /\ pam \in [Logins -> Call] /\ helper \in [Logins -> Helper]
      /\ asked \in [Logins -> Seq(Question)]
  BY DEF LoginInv, Leave, TypeOK, StepInv, Running
<1>2. pam'[l] = Idle /\ helper'[l] = NoHelper /\ asked'[l] = << >> /\ holder' = holder
  BY <1>1 DEF Leave
<1>3. Idle \in Call
  BY DEF Idle, Call
<1>4. NoHelper \in Helper
  BY LoginAssumption DEF NoHelper, Helper, HelperSteps
<1>5. \A k \in Logins : k # l => pam'[k] = pam[k] /\ helper'[k] = helper[k] /\ asked'[k] = asked[k]
  BY <1>1 DEF Leave
<1>6. /\ pam' \in [Logins -> Call] /\ helper' \in [Logins -> Helper]
      /\ asked' \in [Logins -> Seq(Question)]
  BY <1>1, <1>2, <1>3, <1>4, <1>5 DEF Leave
<1>7. TypeOK' /\ OnlyFor(l)
  <2>1. \A k \in Logins : helper'[k].at \in {"rgb", "ir", "capture", "sent"} =>
                            helper'[k].config # None
    BY <1>1, <1>2, <1>5 DEF TypeOK, NoHelper
  <2>2. TypeOK'
    BY <1>1, <1>2, <1>6, <2>1 DEF TypeOK
  <2>3. OnlyFor(l)
    BY <1>2, <1>5 DEF OnlyFor
  <2>4. QED
    BY <2>2, <2>3
<1>8. \A c \in Cameras : holder'[c] # l
  BY <1>1, <1>2 DEF StepInv
<1>9. StepInv(l)'
  BY <1>2, <1>8 DEF StepInv, At, Running, Idle, NoHelper
<1>10. CountInv(l)'
  BY <1>2 DEF CountInv, NoHelper
<1>11. ExitInv(l)'
  BY <1>2, LoginAssumption DEF ExitInv, At, Idle, NoHelper, ExitCodes, Results
<1>12. AskedOnce(l)'
  BY <1>2 DEF AskedOnce
<1>13. QED
  BY <1>7, <1>9, <1>10, <1>11, <1>12, OneStep

-----------------------------------------------------------------------------
(* The inductive invariant. *)

\* The invariant holds at the start.
LEMMA Initially == Init => LoginInv
<1> SUFFICES ASSUME Init PROVE LoginInv
  OBVIOUS
<1>1. Idle \in Call /\ NoHelper \in Helper
  BY LoginAssumption DEF Idle, Call, NoHelper, Helper, HelperSteps
<1>2. TypeOK
  <2>1. << >> \in Seq(Question)
    OBVIOUS
  <2>2. QED
    BY <1>1, <2>1 DEF Init, TypeOK, NoHelper
<1>3. ASSUME NEW l \in Logins
      PROVE  StepInv(l) /\ CountInv(l) /\ ExitInv(l) /\ AskedOnce(l)
  <2>1. pam[l] = Idle /\ helper[l] = NoHelper /\ asked[l] = << >>
    BY DEF Init
  <2>2. \A c \in Cameras : holder[c] # l
    BY LoginAssumption DEF Init
  <2>3. StepInv(l)
    BY <2>1, <2>2 DEF StepInv, At, Running, Idle, NoHelper
  <2>4. CountInv(l)
    BY <2>1 DEF CountInv, NoHelper
  <2>5. ExitInv(l)
    BY <2>1, LoginAssumption DEF ExitInv, At, Idle, NoHelper, ExitCodes, Results
  <2>6. AskedOnce(l)
    BY <2>1 DEF AskedOnce
  <2>7. QED
    BY <2>3, <2>4, <2>5, <2>6
<1>4. QED
  BY <1>2, <1>3 DEF LoginInv

\* A step of nobody keeps it.
LEMMA Stutters ==
  ASSUME LoginInv, UNCHANGED vars
  PROVE  LoginInv'
<1>1. pam' = pam /\ helper' = helper /\ holder' = holder /\ asked' = asked
  BY DEF vars
<1>2. TypeOK'
  BY <1>1 DEF LoginInv, TypeOK
<1>3. \A l \in Logins : StepInv(l)' /\ CountInv(l)' /\ ExitInv(l)' /\ AskedOnce(l)'
  BY <1>1, OthersStay DEF LoginInv
<1>4. QED
  BY <1>2, <1>3 DEF LoginInv

\* Every step keeps it.
LEMMA Steps == LoginInv /\ [Next]_vars => LoginInv'
<1> SUFFICES ASSUME LoginInv, [Next]_vars
             PROVE  LoginInv'
  OBVIOUS
<1>1. ASSUME NEW l \in Logins, NoUsername(l)
      PROVE  LoginInv'
  BY <1>1, EarlyReturn DEF NoUsername
<1>2. ASSUME NEW l \in Logins, SpawnFails(l)
      PROVE  LoginInv'
  BY <1>2, EarlyReturn DEF SpawnFails
<1>3. ASSUME NEW l \in Logins, NEW service \in Services, Spawn(l, service)
      PROVE  LoginInv'
  BY <1>3, SpawnStep
<1>4. ASSUME NEW l \in Logins, HelperStep(l)
      PROVE  LoginInv'
  BY <1>4, LoadConfigStep, LoadFailsStep, OpenCameraStep, CameraFailsStep, CaptureStep,
     AnswerStep, CrashStep DEF HelperStep
<1>5. ASSUME NEW l \in Logins, HostStep(l)
      PROVE  LoginInv'
  BY <1>5, ReapStep, ReapFailsStep, GiveUpStep, KillStep DEF HostStep
<1>6. ASSUME NEW l \in Logins, Leave(l)
      PROVE  LoginInv'
  BY <1>6, LeaveStep
<1>7. CASE Next
  BY <1>1, <1>2, <1>3, <1>4, <1>5, <1>6, <1>7 DEF Next
<1>8. CASE UNCHANGED vars
  BY <1>8, Stutters
<1>9. QED
  BY <1>7, <1>8

\* LoginInv holds at all times.
THEOREM LoginInvariant == Spec => []LoginInv
<1>1. QED
  BY Initially, Steps, PTL DEF Spec

-----------------------------------------------------------------------------
(* The properties. *)

\* The helper never counts past the attempts and captures it is allowed, and has
\* a config from the moment it loaded one.
THEOREM LoginTypeCorrect == Spec => []TypeOK
<1>1. LoginInv => TypeOK
  BY DEF LoginInv
<1>2. QED
  BY <1>1, LoginInvariant, PTL

\* A success of pam_sm_authenticate was earned: the broker matched frames of as
\* many different attempts of this login as the policy of its scope requires.
THEOREM SuccessIsEarned == Spec => []SuccessEarned
<1>1. ASSUME LoginInv, NEW l \in Logins, pam[l].result = "success"
      PROVE  Done(l) /\ Cardinality(Matched(l)) >= Policy(l).required
  <2>1. ExitInv(l) /\ pam[l].result # None
    BY <1>1, LoginAssumption DEF LoginInv, Results
  <2>2. At(l, "reaped") /\ helper[l].exit = "recognized" /\ pam[l].step = "done"
    BY <1>1, <2>1 DEF ExitInv, PamResult
  <2>3. QED
    BY <2>1, <2>2 DEF ExitInv, Done, Wins, At
<1>2. LoginInv => SuccessEarned
  BY <1>1 DEF SuccessEarned
<1>3. QED
  BY <1>2, LoginInvariant, PTL

\* There are finitely many numbers up to n.
LEMMA FiniteCount == \A n \in Nat : IsFiniteSet(1 .. n)
<1> TAKE n \in Nat
<1>1. 1 \in Int /\ n \in Int
  OBVIOUS
<1>2. QED
  BY <1>1, FS_Interval

\* The attempts that matched are finitely many.
LEMMA MatchesCount ==
  ASSUME TypeOK, NEW l \in Logins
  PROVE  Cardinality(Matched(l)) \in Nat
<1> DEFINE n == Len(asked[l])
           Hits == {i \in 1 .. n : asked[l][i].answer = "matched"}
<1>1. n \in Nat /\ DOMAIN asked[l] = 1 .. n
  BY Typed
<1>2. IsFiniteSet(1 .. n)
  BY <1>1, FiniteCount
<1>3. IsFiniteSet(Hits)
  BY <1>2, FS_Subset
<1> DEFINE f == [i \in Hits |-> asked[l][i].attempt]
<1>4. IsFiniteSet({asked[l][i].attempt : i \in Hits})
  <2>1. f \in Surjection(Hits, {asked[l][i].attempt : i \in Hits})
    BY DEF Surjection
  <2>2. QED
    BY <1>3, <2>1, FS_Surjection
<1>5. Matched(l) = {asked[l][i].attempt : i \in Hits}
  BY <1>1 DEF Matched
<1>6. QED
  BY <1>4, <1>5, FS_CardinalityType

\* A login whose helper was heard out ends as its policy, its answers and the
\* fallback switch say; the prompt with fallback off comes from an error only.
THEOREM ResultsFollowPolicy == Spec => []ResultByPolicy
<1>1. ASSUME LoginInv, NEW l \in Logins, Done(l)
      PROVE  /\ HeardOut(l) /\ Cardinality(Matched(l)) >= Policy(l).required
                  => pam[l].result = "success" \/ helper[l].exit = "crashed"
             /\ HeardOut(l) /\ TurnedAway(l)
                  => pam[l].result = IF helper[l].config.fallback THEN "ignore" ELSE "auth_err"
             /\ pam[l].result = "auth_err"
                  => ~helper[l].config.fallback \/ helper[l].exit = "crashed"
             /\ HeardOut(l) /\ helper[l].exit = "camera_error"
                  => helper[l].config.denyOnCamera
             /\ HeardOut(l) /\ pam[l].result = "ignore" /\ ~helper[l].config.fallback
                  => \/ asked[l] # << >> /\ LastAnswer(l) = "error"
                     \/ helper[l].exit = "camera_error"
  <2> DEFINE c == helper[l].config
             code == helper[l].exit
  <2>1. /\ TypeOK /\ StepInv(l) /\ ExitInv(l) /\ c # None /\ c \in Config
        /\ helper[l] \in Helper /\ Policy(l).required \in Nat
    BY <1>1, Typed DEF LoginInv, Done
  <2>2. c.fallback \in BOOLEAN /\ Wins(l) \in Nat
    BY <2>1, MatchesCount DEF Config, Wins
  <2>3. pam[l].result = "auth_err" => HeardOut(l)
    BY <2>1 DEF ExitInv, StepInv, NoHelper, HeardOut, At
  <2>4. ASSUME HeardOut(l)
        PROVE  /\ code \in ExitCodes /\ pam[l].result = PamResult(code)
               /\ code \notin {"recognized", "crashed"} => Wins(l) < Policy(l).required
               /\ code = "not_recognized" => c.fallback
               /\ code = "denied" => ~c.fallback
               /\ code = "camera_error" => c.denyOnCamera
               /\ code = "internal_error" => asked[l] # << >> /\ LastAnswer(l) = "error"
               /\ code \notin {"timeout", "config_error"}
               /\ code # "crashed" /\ asked[l] # << >> /\ LastAnswer(l) = "unavailable"
                    => code \in {"not_recognized", "denied"}
    BY <2>1, <2>4 DEF ExitInv, HeardOut, At, Helper
  <2>5. ASSUME HeardOut(l), Cardinality(Matched(l)) >= Policy(l).required
        PROVE  pam[l].result = "success" \/ code = "crashed"
    <3>1. code \in {"recognized", "crashed"}
      BY <2>1, <2>2, <2>4, <2>5 DEF Wins
    <3>2. QED
      BY <2>4, <2>5, <3>1 DEF PamResult
  <2>6. ASSUME HeardOut(l), TurnedAway(l)
        PROVE  pam[l].result = IF c.fallback THEN "ignore" ELSE "auth_err"
    <3>1. code \in {"not_recognized", "denied"}
      BY <2>4, <2>6 DEF TurnedAway
    <3>2. QED
      BY <2>2, <2>4, <2>6, <3>1 DEF PamResult
  <2>7. ASSUME pam[l].result = "auth_err"
        PROVE  ~c.fallback \/ code = "crashed"
    <3>1. code \in {"denied", "crashed"}
      BY <2>3, <2>4, <2>7 DEF PamResult
    <3>2. QED
      BY <2>3, <2>4, <2>7, <3>1
  <2>8. ASSUME HeardOut(l), pam[l].result = "ignore", ~c.fallback
        PROVE  \/ asked[l] # << >> /\ LastAnswer(l) = "error"
               \/ code = "camera_error"
    <3>1. code \in {"camera_error", "internal_error"}
      BY <2>4, <2>8 DEF PamResult, ExitCodes
    <3>2. QED
      BY <2>4, <2>8, <3>1
  <2>9. QED
    BY <2>4, <2>5, <2>6, <2>7, <2>8
<1>2. LoginInv => ResultByPolicy
  BY <1>1 DEF ResultByPolicy
<1>3. QED
  BY <1>2, LoginInvariant, PTL

\* However many captures a pair takes and whatever the broker answers, an attempt
\* gets one verdict, and no question is asked past the last attempt.
THEOREM VerdictsOncePerAttempt == Spec => []OneVerdictPerAttempt
<1>1. LoginInv => OneVerdictPerAttempt
  BY DEF LoginInv, OneVerdictPerAttempt
<1>2. QED
  BY <1>1, LoginInvariant, PTL

\* The PAM module does not return while a helper of that login has a camera.
THEOREM CamerasGivenBack == Spec => []CamerasReleased
<1>1. ASSUME LoginInv, NEW l \in Logins, pam[l].step \in {"idle", "done"},
             NEW c \in Cameras
      PROVE  holder[c] # l
  BY <1>1 DEF LoginInv, StepInv, Running, At
<1>2. LoginInv => CamerasReleased
  BY <1>1 DEF CamerasReleased
<1>3. QED
  BY <1>2, LoginInvariant, PTL

=============================================================================
