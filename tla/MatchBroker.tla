----------------------------- MODULE MatchBroker -----------------------------
(***************************************************************************)
(* How facegate-brokerd decides a match request (match_embedding,          *)
(* match_frame and match_frame_pair of                                     *)
(* crates/facegate_brokerd/src/main.rs).                                   *)
(*                                                                         *)
(* Each request runs on a thread of its own: authorization, admission by   *)
(* the abuse guard, examination of the frames, comparison with the user's  *)
(* templates as they are in his file at that moment, recording of the      *)
(* outcome in the guard, the answer.  Between any two of these other       *)
(* requests make their steps, administrators change the file, time passes, *)
(* and the broker may stop.                                                *)
(*                                                                         *)
(* The limits are those of AbuseGuard, whose actions the steps of a        *)
(* request perform; the file changes as TemplateStore lets a load see it.  *)
(* What frames show is a record of the facts the code asks about.          *)
(* Examination reads and writes nothing other requests see, so it is one   *)
(* step: the models it runs under a mutex are loaded on first use, and     *)
(* failing to load them is one more way to answer internal.  The line      *)
(* appended to the audit log before the answer is output that no step      *)
(* reads, and a failure to write it is ignored: it is left out.            *)
(***************************************************************************)
EXTENDS Naturals, FiniteSets

CONSTANTS
  \* The constants of AbuseGuard:
  Uids, Root, Users, UidOf, Threads, RateWindow, MaxMatches, FailureWindow,
  Threshold, Cooldown, LastInstant, MaxTime, OnePerUser, None,
  Faces,          \* faces, as far as their embeddings differ
  Score,          \* Score[f][g]: cosine similarity of the embeddings of f and g
  RequiredScore,  \* RequiredScore[scope]: threshold of the scope's policy
  Templates,      \* templates: records with an id, a face and a scope
  Contents,       \* sets of templates embeddings.json may hold
  Requests        \* match requests the peers send

AuthScopes == {"sudo", "session"}

\* What the frames of a request show: whether each decodes, how many faces are
\* detected on it, whose is the largest on the RGB one, whether the capture
\* times agree, and whether the IR face is where the homography expects it.
Evidence == [rgbDecodes : BOOLEAN, irDecodes : BOOLEAN,
             rgbFaces : 0 .. 2, irFaces : 0 .. 2, face : Faces,
             synced : BOOLEAN, aligned : BOOLEAN]

\* Match, MatchFrame and MatchFramePair; uid is None when the peer's
\* credentials cannot be read.  Of a Match only the face is looked at, of a
\* MatchFrame only the RGB part.
Request == [kind : {"match", "frame", "pair"}, uid : Uids \cup {None},
            user : Users, scope : AuthScopes, shows : Evidence]

\* MatchReason of a response that is not an error, and ErrorCode.
Mismatches ==
  {"cross_check_required", "cross_check_time_skew",
   "cross_check_rgb_no_face", "cross_check_rgb_multiple_faces",
   "cross_check_ir_no_face", "cross_check_ir_multiple_faces",
   "cross_check_position_mismatch", "no_face", "template_mismatch"}

Errors == {"unauthorized", "rate_limited", "locked_out", "not_enrolled",
           "bad_request", "internal"}

Answer == [code : Mismatches \cup Errors, template : {None}]
            \cup [code : {"matched"}, template : {t.id : t \in Templates}]

\* Where a request is.  The last two fields of a task are history: the
\* templates that were in the user's file at some time since the request came,
\* and those that were there all the time.
Steps == {"received", "admitted", "examined", "decided", "answered"}
Task  == [req : Requests, step : Steps, answer : Answer \cup {None},
          seen : SUBSET Templates, stayed : SUBSET Templates]

ASSUME BrokerAssumption ==
  /\ Score \in [Faces -> [Faces -> Nat]]
  /\ RequiredScore \in [AuthScopes -> Nat]
  /\ Templates \subseteq [id : Nat, face : Faces, scope : AuthScopes \cup {"both"}]
  /\ Contents \subseteq SUBSET Templates
  /\ Requests \subseteq Request
  /\ None \notin Nat
  /\ None \notin Answer
  /\ None \notin Task

VARIABLES
  now, peer, failure,            \* the state of AbuseGuard,
  passed, failedAt, promised,    \* and its history
  required,  \* CrossCheckPolicy::required, read from the config at the start
  file,      \* file[u]: the templates in embeddings.json of u
  task       \* task[t]: the request thread t is working on, or None

guardVars == <<now, peer, failure, passed, failedAt, promised>>
vars == <<guardVars, required, file, task>>

At(t, step) == task[t] # None /\ task[t].step = step

\* What the guard knows as the request of each thread: one that was admitted
\* and whose outcome is not recorded yet.
admitted ==
  [t \in Threads |->
     IF At(t, "admitted") \/ At(t, "examined") \/ At(t, "decided")
     THEN [uid |-> task[t].req.uid, user |-> task[t].req.user]
     ELSE None]

Guard == INSTANCE AbuseGuard WITH thread <- admitted

ASSUME GuardAssumed == Guard!GuardAssumption /\ Guard!NoneAssumption

-----------------------------------------------------------------------------
(* Decisions. *)

\* authorized_for_match; and dispatch takes an embedding from root only.
Permitted(r) ==
  /\ r.uid # None
  /\ Guard!Authorized(r.uid, r.user, r.scope)
  /\ r.kind = "match" => r.uid = Root

\* match_frame_pair with cross-check: the first reason to reject the frames.
PairVerdict(e) ==
  CASE ~e.synced                      -> "cross_check_time_skew"
    [] ~(e.rgbDecodes /\ e.irDecodes) -> "bad_request"
    [] e.rgbFaces = 0                 -> "cross_check_rgb_no_face"
    [] e.rgbFaces > 1                 -> "cross_check_rgb_multiple_faces"
    [] e.irFaces = 0                  -> "cross_check_ir_no_face"
    [] e.irFaces > 1                  -> "cross_check_ir_multiple_faces"
    [] ~e.aligned                     -> "cross_check_position_mismatch"
    [] OTHER                          -> "fit"

\* match_frame: of several faces the largest is taken.
FrameVerdict(e) ==
  CASE ~e.rgbDecodes  -> "bad_request"
    [] e.rgbFaces = 0 -> "no_face"
    [] OTHER          -> "fit"

\* Slip: a single frame is accepted where a pair is required.
SingleFrameAccepted(r) ==
  CASE r.kind = "match"             -> "fit"
    [] r.kind = "pair" /\ required  -> PairVerdict(r.shows)
    [] OTHER                        -> FrameVerdict(r.shows)

\* What the frames of a request are found to be: fit for a comparison, or the
\* answer.  A pair is cross-checked when that is required, and is otherwise
\* treated as a single frame; a single frame is not enough when it is.
Verdict(r) ==
  CASE r.kind = "match"              -> "fit"
    [] r.kind = "pair" /\ required   -> PairVerdict(r.shows)
    [] r.kind = "frame" /\ required  -> "cross_check_required"
    [] OTHER                         -> FrameVerdict(r.shows)

\* Does finding that out run the models?
Inferred(r) ==
  r.kind # "match" /\ Verdict(r) \notin
    {"cross_check_required", "cross_check_time_skew", "bad_request"}

\* The templates whose TemplateScope::allows the scope.
Allowed(templates, scope) == {t \in templates : t.scope \in {scope, "both"}}

\* Slip: any template for the scope decides.
AnyCandidate(r, candidates) == candidates

\* The candidates with the highest score: the code takes the first of them in
\* the order of the file, which the model leaves open.
Best(r, candidates) ==
  {t \in candidates : \A c \in candidates :
     Score[r.shows.face][c.face] <= Score[r.shows.face][t.face]}

\* Is the template similar enough for the policy of the scope?
Reaches(r, t) == Score[r.shows.face][t.face] >= RequiredScore[r.scope]

\* Slip: every answer that is not an error counts as a success.
EveryOk(answer) == answer.code \in Mismatches \cup {"matched"}

\* Does the answer reset the user's failures (record_match_success), or count
\* as one (record_match_failure)?
Resets(answer) == answer.code = "matched"

-----------------------------------------------------------------------------

Init ==
  /\ now = 0
  /\ peer = [uid \in Uids |-> None]
  /\ failure = [u \in Users |-> None]
  /\ passed = [uid \in Uids |-> <<>>]
  /\ failedAt = [u \in Users |-> <<>>]
  /\ promised = [u \in Users |-> 0]
  /\ required \in BOOLEAN
  /\ file \in [Users -> Contents]
  /\ task = [t \in Threads |-> None]

\* An answer that names no template.
Answering(code) == [code |-> code, template |-> None]

\* A request is read and authorized: answered at once if it may not be made.
Receive(t, r) ==
  /\ task[t] = None
  /\ task' = [task EXCEPT ![t] =
       [req |-> r,
        step |-> IF Permitted(r) THEN "received" ELSE "answered",
        answer |-> IF Permitted(r) THEN None ELSE Answering("unauthorized"),
        seen |-> file[r.user], stayed |-> file[r.user]]]
  /\ UNCHANGED <<guardVars, required, file>>

\* The request goes on to a step, in the second case with its answer.
Goes(t, step) == task' = [task EXCEPT ![t] = [@ EXCEPT !.step = step]]

\* Slip: the answer is lost.
EndsUnanswered(t, step, answer) == Goes(t, step)

Ends(t, step, answer) ==
  task' = [task EXCEPT ![t] = [@ EXCEPT !.step = step, !.answer = answer]]

\* check_match_allowed refuses: answered without looking at the frames, and
\* without counting as a failure.
Refuse(t) ==
  LET r == task[t].req
  IN  /\ At(t, "received")
      /\ \/ /\ Ends(t, "answered", Answering("rate_limited"))
            /\ Guard!RefuseRate(t, r.uid, r.user)
         \/ /\ Ends(t, "answered", Answering("locked_out"))
            /\ Guard!RefuseLocked(t, r.uid, r.user)
      /\ UNCHANGED <<required, file>>

\* check_match_allowed admits.
Admit(t) ==
  /\ At(t, "received")
  /\ Goes(t, "admitted")
  /\ Guard!Admit(t, task[t].req.uid, task[t].req.user)
  /\ UNCHANGED <<required, file>>

\* Slip: rejected frames are answered without being counted.
ExamineUncounted(t) ==
  LET r == task[t].req
  IN  /\ At(t, "admitted")
      /\ \/ Verdict(r) = "fit" /\ Goes(t, "examined")
         \/ Verdict(r) # "fit" /\ Ends(t, "answered", Answering(Verdict(r)))
         \/ Inferred(r) /\ Ends(t, "decided", Answering("internal"))
      /\ UNCHANGED <<guardVars, required, file>>

\* The frames are decoded, detected, checked against each other, embedded;
\* where the models run they may also fail.
Examine(t) ==
  LET r == task[t].req
  IN  /\ At(t, "admitted")
      /\ \/ Verdict(r) = "fit" /\ Goes(t, "examined")
         \/ Verdict(r) # "fit" /\ Ends(t, "decided", Answering(Verdict(r)))
         \/ Inferred(r) /\ Ends(t, "decided", Answering("internal"))
      /\ UNCHANGED <<guardVars, required, file>>

\* compare_embedding up to the decision: the file is loaded, which may fail,
\* and the best of the templates for the scope decides.
Compare(t) ==
  LET r          == task[t].req
      candidates == Allowed(file[r.user], r.scope)
  IN  /\ At(t, "examined")
      /\ \/ Ends(t, "decided", Answering("internal"))
         \/ candidates = {} /\ Ends(t, "decided", Answering("not_enrolled"))
         \/ \E best \in Best(r, candidates) :
              Ends(t, "decided",
                   IF Reaches(r, best)
                   THEN [code |-> "matched", template |-> best.id]
                   ELSE Answering("template_mismatch"))
      /\ UNCHANGED <<guardVars, required, file>>

\* The outcome is recorded; every path to an answer does so exactly once.
Record(t) ==
  /\ At(t, "decided")
  /\ Goes(t, "answered")
  /\ IF Resets(task[t].answer) THEN Guard!RecordSuccess(t) ELSE Guard!RecordFailure(t)
  /\ UNCHANGED <<required, file>>

\* Recording panics: the connection is closed without an answer.
RecordPanics(t) ==
  /\ At(t, "decided")
  /\ ~Resets(task[t].answer)
  /\ task' = [task EXCEPT ![t] = None]
  /\ Guard!RecordFailurePanics(t)
  /\ UNCHANGED <<required, file>>

\* The answer is written, or the client is gone.
Respond(t) ==
  /\ At(t, "answered")
  /\ task' = [task EXCEPT ![t] = None]
  /\ UNCHANGED <<guardVars, required, file>>

\* An administrator's request installs another content.
Replace(u, content) ==
  /\ file' = [file EXCEPT ![u] = content]
  /\ task' = [t \in Threads |->
       IF task[t] # None /\ task[t].req.user = u
       THEN [task[t] EXCEPT !.seen = @ \cup content, !.stayed = @ \cap content]
       ELSE task[t]]
  /\ UNCHANGED <<guardVars, required>>

Tick == UNCHANGED <<required, file, task>> /\ Guard!Tick

\* The broker stops and is started again, possibly with another config.
Restart ==
  /\ task' = [t \in Threads |-> None]
  /\ Guard!Restart
  /\ required' \in BOOLEAN
  /\ UNCHANGED file

Serve(t) ==
  \/ \E r \in Requests : Receive(t, r)
  \/ Refuse(t)
  \/ Admit(t)
  \/ Examine(t)
  \/ Compare(t)
  \/ Record(t)
  \/ RecordPanics(t)
  \/ Respond(t)

Next ==
  \/ \E t \in Threads : Serve(t)
  \/ \E u \in Users, content \in Contents : Replace(u, content)
  \/ Tick
  \/ Restart

Spec == Init /\ [][Next]_vars

-----------------------------------------------------------------------------
(* Properties. *)

\* Each thread's request is where it can be, with an answer once it has one.
TypeOK ==
  /\ required \in BOOLEAN
  /\ file \in [Users -> Contents]
  /\ task \in [Threads -> Task \cup {None}]
  /\ \A t \in Threads : task[t] # None =>
       (task[t].answer # None <=> task[t].step \in {"decided", "answered"})

\* The frames leave no doubt: exactly one face, on both when cross-check is
\* required, at the same time and place.  An embedding of root is taken as it is.
Genuine(r) ==
  LET e == r.shows
  IN  \/ r.kind = "match" /\ r.uid = Root
      \/ /\ r.kind # "match" /\ e.rgbDecodes /\ e.rgbFaces = 1
         /\ required => /\ r.kind = "pair" /\ e.irDecodes /\ e.irFaces = 1
                        /\ e.synced /\ e.aligned

\* Several faces on the RGB frame, where nothing cross-checks it: the code goes
\* on with the largest (brokerd main.rs:826), though broker.md says it rejects.
Crowded(r) ==
  ~required /\ r.kind # "match" /\ r.shows.rgbDecodes /\ r.shows.rgbFaces > 1

\* Root asks for anyone, a user for his own session.
Entitled(r) ==
  r.uid # None /\ (r.uid = Root \/ (r.scope = "session" /\ r.uid = UidOf[r.user]))

\* A request is answered matched only if its peer may ask, its frames are
\* genuine or, without cross-check, show several faces of which the largest
\* counts, and the template named was in the user's file at some time since the
\* request came, for the scope asked and similar enough: a template whose
\* removal was acknowledged before never matches.
MatchSound ==
  \A t \in Threads : At(t, "answered") /\ task[t].answer.code = "matched" =>
    /\ Entitled(task[t].req)
    /\ Genuine(task[t].req) \/ Crowded(task[t].req)
    /\ \E tpl \in Allowed(task[t].seen, task[t].req.scope) :
         tpl.id = task[t].answer.template /\ Reaches(task[t].req, tpl)

\* A genuine request of an entitled peer, one face and no more, is not answered
\* with a mismatch, with not_enrolled or unauthorized while a template that
\* matches it stays in the file, whatever else is enrolled next to it.
MatchComplete ==
  \A t \in Threads :
    /\ At(t, "answered")
    /\ task[t].answer.code \in Mismatches \cup {"not_enrolled", "unauthorized", "bad_request"}
    /\ Entitled(task[t].req)
    /\ Genuine(task[t].req)
    => \A tpl \in Allowed(task[t].stayed, task[t].req.scope) :
         ~Reaches(task[t].req, tpl)

\* The step of t that gives the broker a reason to forget failures of u: the
\* match of an entitled request for him is recorded; a request for him is
\* admitted after the lockout ended; the outcome of a request for him is
\* recorded after the window of his failures is over.
GivesReason(t, u) ==
  /\ task[t] # None /\ task[t].req.user = u
  /\ \/ /\ Record(t)
        /\ task[t].answer.code = "matched"
        /\ Entitled(task[t].req)
        /\ Genuine(task[t].req) \/ Crowded(task[t].req)
     \/ Admit(t) /\ Guard!LockEnded(u)
     \/ /\ Record(t) \/ RecordPanics(t)
        /\ task[t].answer.code # "matched"
        /\ Guard!WindowOver(u)

\* No counted failure of a user and no lockout set for him is forgotten, or cut
\* short, except for one of these reasons or because the broker stops.  The
\* last reason forgets even a lockout in force (see LockoutHolds of AbuseGuard).
ForgottenWithReason ==
  [][\A u \in Users :
       Guard!Forgets(u) => Restart \/ \E t \in Threads : GivesReason(t, u)]_vars

\* Requests use the guard as it is meant to be used: whichever way a request
\* is answered, it is admitted at most once, looked at only then, and its
\* outcome recorded once.  What holds of AbuseGuard holds of the broker.
ImplementsGuard == Guard!Spec

-----------------------------------------------------------------------------
(* Inductive strengthening of the properties, for the proofs. *)

\* The answer of the request k has its reason.
Explained(k) ==
  LET code == k.answer.code
      fits == Allowed(k.stayed, k.req.scope)
  IN  /\ code = "unauthorized" <=> ~Permitted(k.req)
      /\ code = "matched" =>
           /\ Verdict(k.req) = "fit"
           /\ \E tpl \in Allowed(k.seen, k.req.scope) :
                tpl.id = k.answer.template /\ Reaches(k.req, tpl)
      /\ code \in {"template_mismatch", "not_enrolled"} =>
           \A tpl \in fits : ~Reaches(k.req, tpl)
      /\ code \in (Mismatches \ {"template_mismatch"}) \cup {"bad_request"} =>
           Verdict(k.req) = code

\* What is known of the request k at its step.
Known(k) ==
  /\ k.stayed \subseteq file[k.req.user]
  /\ file[k.req.user] \subseteq k.seen
  /\ k.step # "answered" => Permitted(k.req)
  /\ k.step = "examined" => Verdict(k.req) = "fit"
  /\ k.answer # None => Explained(k)

RequestInv == \A t \in Threads : task[t] # None => Known(task[t])

=============================================================================
