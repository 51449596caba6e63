-------------------------- MODULE MatchBrokerProofs --------------------------
(***************************************************************************)
(* Proofs about MatchBroker: any peers, users, threads, templates, scores  *)
(* and requests, whose steps overlap in any way with each other, with      *)
(* changes of the files and with restarts.                                 *)
(*                                                                         *)
(* TypeOK and RequestInv are inductive and give MatchSound and             *)
(* MatchComplete.  With them every step of the broker is a step of the     *)
(* guard or leaves it alone, so the theorems of AbuseGuardProofs apply.    *)
(***************************************************************************)
EXTENDS MatchBroker, TLAPS

-----------------------------------------------------------------------------
(* How the steps of a request change it. *)

\* A request that goes on keeps everything but its step.
LEMMA GoesOn ==
  ASSUME TypeOK, NEW t \in Threads, task[t] # None, NEW step \in Steps, Goes(t, step)
  PROVE  /\ task' \in [Threads -> Task \cup {None}]
         /\ task'[t] \in Task
         /\ task'[t].req = task[t].req /\ task'[t].step = step
         /\ task'[t].answer = task[t].answer
         /\ task'[t].seen = task[t].seen /\ task'[t].stayed = task[t].stayed
         /\ \A o \in Threads : o # t => task'[o] = task[o]
<1>1. task \in [Threads -> Task \cup {None}] /\ task[t] \in Task
  BY DEF TypeOK
<1>2. task'[t] = [task[t] EXCEPT !.step = step]
  BY <1>1 DEF Goes
<1>3. task'[t] = [req |-> task[t].req, step |-> step, answer |-> task[t].answer,
                  seen |-> task[t].seen, stayed |-> task[t].stayed]
  BY <1>1, <1>2 DEF Task
<1>4. task'[t] \in Task
  BY <1>1, <1>3 DEF Task
<1>5. \A o \in Threads : o # t => task'[o] = task[o]
  BY <1>1 DEF Goes
<1>6. task' \in [Threads -> Task \cup {None}]
  BY <1>1, <1>4, <1>5 DEF Goes
<1>7. QED
  BY <1>3, <1>4, <1>5, <1>6

\* A request that ends gets its answer.
LEMMA EndsWith ==
  ASSUME TypeOK, NEW t \in Threads, task[t] # None, NEW step \in Steps,
         NEW answer \in Answer, Ends(t, step, answer)
  PROVE  /\ task' \in [Threads -> Task \cup {None}]
         /\ task'[t] \in Task
         /\ task'[t].req = task[t].req /\ task'[t].step = step
         /\ task'[t].answer = answer
         /\ task'[t].seen = task[t].seen /\ task'[t].stayed = task[t].stayed
         /\ \A o \in Threads : o # t => task'[o] = task[o]
<1>1. task \in [Threads -> Task \cup {None}] /\ task[t] \in Task
  BY DEF TypeOK
<1>2. task'[t] = [task[t] EXCEPT !.step = step, !.answer = answer]
  BY <1>1 DEF Ends
<1>3. task'[t] = [req |-> task[t].req, step |-> step, answer |-> answer,
                  seen |-> task[t].seen, stayed |-> task[t].stayed]
  BY <1>1, <1>2 DEF Task
<1>4. task'[t] \in Task
  BY <1>1, <1>3 DEF Task
<1>5. \A o \in Threads : o # t => task'[o] = task[o]
  BY <1>1 DEF Ends
<1>6. task' \in [Threads -> Task \cup {None}]
  BY <1>1, <1>4, <1>5 DEF Ends
<1>7. QED
  BY <1>3, <1>4, <1>5, <1>6

\* An answer without a template is an answer.
LEMMA PlainAnswer ==
  ASSUME NEW code \in Mismatches \cup Errors
  PROVE  /\ Answering(code) \in Answer
         /\ Answering(code).code = code
         /\ Answering(code) # None
  BY BrokerAssumption DEF Answering, Answer

\* What a verdict can be.
LEMMA VerdictRange ==
  ASSUME NEW r \in Requests
  PROVE  Verdict(r) \in (Mismatches \ {"template_mismatch"}) \cup {"bad_request", "fit"}
  BY DEF Verdict, PairVerdict, FrameVerdict, Mismatches

\* A verdict depends on the request and the policy in force.
LEMMA SameVerdict ==
  ASSUME NEW r, UNCHANGED required
  PROVE  Verdict(r)' = Verdict(r)
BY DEF Verdict, PairVerdict, FrameVerdict

\* A file and a policy that stay leave what is known of a request as it was.
LEMMA KnownStays ==
  ASSUME NEW k, Known(k), UNCHANGED <<file, required>>
  PROVE  Known(k)'
<1>1. Verdict(k.req)' = Verdict(k.req)
  BY SameVerdict
<1>2. Permitted(k.req)' = Permitted(k.req)
  BY DEF Permitted, Guard!Authorized
<1>3. Explained(k)' = Explained(k)
  BY <1>1, <1>2 DEF Explained, Allowed, Reaches
<1>4. QED
  BY <1>1, <1>2, <1>3 DEF Known

\* What is known of the request of o is known of it by any name.
LEMMA KnownByName ==
  ASSUME NEW o \in Threads, NEW k, k = task'[o], Known(k)'
  PROVE  Known(task[o])'
<1>1. Verdict(task[o].req)' = Verdict(k.req)'
  BY DEF Verdict, PairVerdict, FrameVerdict
<1>2. Permitted(task[o].req)' = Permitted(k.req)'
  BY DEF Permitted, Guard!Authorized
<1>3. Explained(task[o])' = Explained(k)'
  BY <1>1, <1>2 DEF Explained, Allowed, Reaches
<1>4. QED
  BY <1>1, <1>2, <1>3 DEF Known

\* A step of one thread that changes neither the file nor the policy disturbs
\* nothing known of the other threads' requests.
LEMMA OthersStay ==
  ASSUME RequestInv, UNCHANGED <<file, required>>, NEW t \in Threads,
         \A o \in Threads : o # t => task'[o] = task[o],
         NEW k, task'[t] = k, k # None => Known(k)
  PROVE  RequestInv'
<1> SUFFICES ASSUME NEW o \in Threads, task'[o] # None
             PROVE  Known(task[o])'
  BY DEF RequestInv
<1>1. PICK n : n = task'[o] /\ n # None
  OBVIOUS
<1>2. Known(n)
  <2>1. CASE o = t
    BY <1>1, <2>1
  <2>2. CASE o # t
    <3>1. n = task[o] /\ Known(task[o])
      BY <1>1, <2>2 DEF RequestInv
    <3>2. QED
      BY <3>1
  <2>3. QED
    BY <2>1, <2>2
<1>3. Known(n)'
  BY <1>2, KnownStays
<1>4. QED
  BY <1>1, <1>3, KnownByName

-----------------------------------------------------------------------------
(* Types. *)

LEMMA BrokerTypeInit == Init => TypeOK
BY DEF Init, TypeOK

\* A comparison ends with an answer.
LEMMA ComparisonAnswers ==
  ASSUME TypeOK, NEW t \in Threads, Compare(t)
  PROVE  \E answer \in Answer : Ends(t, "decided", answer)
<1> DEFINE r          == task[t].req
           candidates == Allowed(file[r.user], r.scope)
<1>1. r \in Request
  BY BrokerAssumption DEF Compare, At, TypeOK, Task
<1>2. \A code \in Mismatches \cup Errors : Answering(code) \in Answer
  BY PlainAnswer
<1>3. \A best \in Best(r, candidates) : [code |-> "matched", template |-> best.id] \in Answer
  <2>1. file[r.user] \subseteq Templates
    BY <1>1, BrokerAssumption DEF TypeOK, Request
  <2>2. QED
    BY <2>1 DEF Best, Allowed, Answer
<1>4. QED
  BY <1>2, <1>3 DEF Compare, Errors, Mismatches

\* A step of one thread that changes neither the file nor the policy leaves the
\* types as they are when its request has its answer in time.
LEMMA TypeStays ==
  ASSUME TypeOK, UNCHANGED <<file, required>>, NEW t \in Threads,
         task' \in [Threads -> Task \cup {None}],
         \A o \in Threads : o # t => task'[o] = task[o],
         task'[t] # None =>
           (task'[t].answer # None <=> task'[t].step \in {"decided", "answered"})
  PROVE  TypeOK'
BY DEF TypeOK

LEMMA BrokerTypeStep == TypeOK /\ [Next]_vars => TypeOK'
<1> SUFFICES ASSUME TypeOK, [Next]_vars PROVE TypeOK'
  OBVIOUS
<1>1. ASSUME NEW t \in Threads, NEW r \in Requests, Receive(t, r)
      PROVE  TypeOK'
  <2>1. PICK k : k = [req |-> r,
             step |-> IF Permitted(r) THEN "received" ELSE "answered",
             answer |-> IF Permitted(r) THEN None ELSE Answering("unauthorized"),
             seen |-> file[r.user], stayed |-> file[r.user]]
    OBVIOUS
  <2>2. file[r.user] \subseteq Templates
    BY BrokerAssumption DEF TypeOK, Request
  <2>3. Answering("unauthorized") \in Answer /\ Answering("unauthorized") # None
    BY PlainAnswer DEF Errors
  <2>4. k \in Task
    BY <2>1, <2>2, <2>3 DEF Task, Steps
  <2>5. k.answer # None <=> k.step \in {"decided", "answered"}
    BY <2>1, <2>3
  <2>6. task' = [task EXCEPT ![t] = k]
    BY <1>1, <2>1 DEF Receive
  <2>7. /\ task' \in [Threads -> Task \cup {None}]
        /\ task'[t] = k
        /\ \A o \in Threads : o # t => task'[o] = task[o]
    BY <2>4, <2>6 DEF TypeOK
  <2>8. UNCHANGED <<file, required>>
    BY <1>1 DEF Receive
  <2>9. QED
    BY <2>5, <2>7, <2>8, TypeStays
<1>2. ASSUME NEW t \in Threads, Refuse(t) PROVE TypeOK'
  <2>1. PICK code \in {"rate_limited", "locked_out"} : Ends(t, "answered", Answering(code))
    BY <1>2 DEF Refuse
  <2>2. Answering(code) \in Answer /\ Answering(code) # None
    BY PlainAnswer DEF Errors
  <2>3. task[t] # None /\ UNCHANGED <<file, required>> /\ "answered" \in Steps
    BY <1>2 DEF Refuse, At, Steps
  <2>4. /\ task' \in [Threads -> Task \cup {None}]
        /\ task'[t].answer = Answering(code) /\ task'[t].step = "answered"
        /\ \A o \in Threads : o # t => task'[o] = task[o]
    BY <2>1, <2>2, <2>3, EndsWith
  <2>5. QED
    BY <2>2, <2>3, <2>4, TypeStays
<1>3. ASSUME NEW t \in Threads, Admit(t) PROVE TypeOK'
  <2>1. task[t] # None /\ task[t].step = "received" /\ task[t].answer = None
    BY <1>3 DEF Admit, At, TypeOK
  <2>2. Goes(t, "admitted") /\ UNCHANGED <<file, required>> /\ "admitted" \in Steps
    BY <1>3 DEF Admit, Steps
  <2>3. /\ task' \in [Threads -> Task \cup {None}]
        /\ task'[t].answer = None /\ task'[t].step = "admitted"
        /\ \A o \in Threads : o # t => task'[o] = task[o]
    BY <2>1, <2>2, GoesOn
  <2>4. QED
    BY <2>2, <2>3, TypeStays
<1>4. ASSUME NEW t \in Threads, Examine(t) PROVE TypeOK'
  <2>1. task[t] # None /\ task[t].step = "admitted" /\ task[t].answer = None
    BY <1>4 DEF Examine, At, TypeOK
  <2>2. UNCHANGED <<file, required>> /\ task[t] \in Task
    BY <1>4, <2>1 DEF Examine, TypeOK
  <2>3. CASE Goes(t, "examined")
    <3>1. /\ task' \in [Threads -> Task \cup {None}]
          /\ task'[t].answer = None /\ task'[t].step = "examined"
          /\ \A o \in Threads : o # t => task'[o] = task[o]
      BY <2>1, <2>3, GoesOn DEF Steps
    <3>2. QED
      BY <2>2, <3>1, TypeStays
  <2>4. ASSUME NEW code \in Mismatches \cup Errors, Ends(t, "decided", Answering(code))
        PROVE  TypeOK'
    <3>1. Answering(code) \in Answer /\ Answering(code) # None
      BY PlainAnswer
    <3>2. /\ task' \in [Threads -> Task \cup {None}]
          /\ task'[t].answer = Answering(code) /\ task'[t].step = "decided"
          /\ \A o \in Threads : o # t => task'[o] = task[o]
      BY <2>1, <2>4, <3>1, EndsWith DEF Steps
    <3>3. QED
      BY <2>2, <3>1, <3>2, TypeStays
  <2>5. Verdict(task[t].req) # "fit" => Verdict(task[t].req) \in Mismatches \cup Errors
    BY <2>2, VerdictRange DEF Task, Errors
  <2>6. QED
    BY <1>4, <2>3, <2>4, <2>5 DEF Examine, Errors
<1>5. ASSUME NEW t \in Threads, Compare(t) PROVE TypeOK'
  <2>1. task[t] # None /\ UNCHANGED <<file, required>>
    BY <1>5 DEF Compare, At
  <2>2. PICK answer \in Answer : Ends(t, "decided", answer)
    BY <1>5, ComparisonAnswers
  <2>3. /\ task' \in [Threads -> Task \cup {None}]
        /\ task'[t].answer = answer /\ task'[t].step = "decided"
        /\ \A o \in Threads : o # t => task'[o] = task[o]
    BY <2>1, <2>2, EndsWith DEF Steps
  <2>4. answer # None
    BY BrokerAssumption
  <2>5. QED
    BY <2>1, <2>3, <2>4, TypeStays
<1>6. ASSUME NEW t \in Threads, Record(t) PROVE TypeOK'
  <2>1. task[t] # None /\ task[t].step = "decided" /\ task[t].answer # None
    BY <1>6 DEF Record, At, TypeOK
  <2>2. Goes(t, "answered") /\ UNCHANGED <<file, required>> /\ "answered" \in Steps
    BY <1>6 DEF Record, Steps
  <2>3. /\ task' \in [Threads -> Task \cup {None}]
        /\ task'[t].answer # None /\ task'[t].step = "answered"
        /\ \A o \in Threads : o # t => task'[o] = task[o]
    BY <2>1, <2>2, GoesOn
  <2>4. QED
    BY <2>2, <2>3, TypeStays
<1>7. ASSUME NEW t \in Threads, RecordPanics(t) PROVE TypeOK'
  BY <1>7 DEF RecordPanics, TypeOK
<1>8. ASSUME NEW t \in Threads, Respond(t) PROVE TypeOK'
  BY <1>8 DEF Respond, TypeOK
<1>9. ASSUME NEW u \in Users, NEW content \in Contents, Replace(u, content)
      PROVE  TypeOK'
  <2>1. file' \in [Users -> Contents] /\ UNCHANGED required
    BY <1>9 DEF Replace, TypeOK
  <2>2. ASSUME NEW t \in Threads
        PROVE  /\ task'[t] \in Task \cup {None}
               /\ task'[t] # None =>
                    (task'[t].answer # None <=> task'[t].step \in {"decided", "answered"})
    <3>1. task[t] \in Task \cup {None}
      BY DEF TypeOK
    <3>2. CASE task[t] # None /\ task[t].req.user = u
      <4>1. task'[t] = [task[t] EXCEPT !.seen = @ \cup content, !.stayed = @ \cap content]
        BY <1>9, <3>2 DEF Replace
      <4>2. task'[t] = [req |-> task[t].req, step |-> task[t].step, answer |-> task[t].answer,
                        seen |-> task[t].seen \cup content,
                        stayed |-> task[t].stayed \cap content]
        BY <3>1, <3>2, <4>1 DEF Task
      <4>3. content \subseteq Templates
        BY BrokerAssumption
      <4>4. QED
        BY <3>1, <3>2, <4>2, <4>3 DEF TypeOK, Task
    <3>3. CASE ~(task[t] # None /\ task[t].req.user = u)
      BY <1>9, <3>1, <3>3 DEF Replace, TypeOK
    <3>4. QED
      BY <3>2, <3>3
  <2>3. QED
    BY <1>9, <2>1, <2>2 DEF Replace, TypeOK
<1>10. CASE Tick
  BY <1>10 DEF Tick, TypeOK
<1>11. CASE Restart
  BY <1>11 DEF Restart, TypeOK
<1>12. CASE UNCHANGED vars
  BY <1>12 DEF vars, TypeOK
<1>13. QED
  BY <1>1, <1>2, <1>3, <1>4, <1>5, <1>6, <1>7, <1>8, <1>9, <1>10, <1>11, <1>12
     DEF Next, Serve

\* Each request is where it can be, with an answer exactly when it has one.
THEOREM BrokerTypeCorrect == Spec => []TypeOK
BY BrokerTypeInit, BrokerTypeStep, PTL DEF Spec

-----------------------------------------------------------------------------
(* What is known of the requests. *)

\* A reason stays one when more templates have been seen and fewer stayed.
LEMMA ExplainedOn ==
  ASSUME NEW j, NEW k, Explained(j), k.req = j.req, k.answer = j.answer,
         j.seen \subseteq k.seen, k.stayed \subseteq j.stayed
  PROVE  Explained(k)
BY DEF Explained, Allowed

\* A step that changes no request, file or policy.
LEMMA AllStay ==
  ASSUME RequestInv, UNCHANGED <<file, required, task>>
  PROVE  RequestInv'
<1> SUFFICES ASSUME NEW o \in Threads, task'[o] # None
             PROVE  Known(task[o])'
  BY DEF RequestInv
<1>1. PICK n : n = task'[o] /\ n # None
  OBVIOUS
<1>2. n = task[o] /\ Known(task[o])
  BY <1>1 DEF RequestInv
<1>3. Known(n)'
  BY <1>2, KnownStays
<1>4. QED
  BY <1>1, <1>3, KnownByName

\* A request that goes on to a step it may take.
LEMMA KnownGoesOn ==
  ASSUME TypeOK, RequestInv, UNCHANGED <<file, required>>, NEW t \in Threads,
         task[t] # None, task[t].step # "answered", NEW step \in Steps, Goes(t, step),
         step = "examined" => Verdict(task[t].req) = "fit"
  PROVE  RequestInv'
<1>1. PICK k : k = task'[t]
  OBVIOUS
<1>2. /\ k.req = task[t].req /\ k.step = step /\ k.answer = task[t].answer
      /\ k.seen = task[t].seen /\ k.stayed = task[t].stayed
      /\ \A o \in Threads : o # t => task'[o] = task[o]
  BY <1>1, GoesOn
<1>3. Known(task[t])
  BY DEF RequestInv
<1>4. k.answer # None => Explained(k)
  BY <1>2, <1>3, ExplainedOn DEF Known
<1>5. Known(k)
  BY <1>2, <1>3, <1>4 DEF Known
<1>6. QED
  BY <1>1, <1>2, <1>5, OthersStay

\* A request that ends with an answer that has its reason.
LEMMA KnownEnds ==
  ASSUME TypeOK, RequestInv, UNCHANGED <<file, required>>, NEW t \in Threads,
         task[t] # None, task[t].step # "answered",
         NEW step \in {"decided", "answered"}, NEW answer \in Answer, Ends(t, step, answer),
         \A k : /\ k.req = task[t].req /\ k.answer = answer
                /\ k.seen = task[t].seen /\ k.stayed = task[t].stayed
                => Explained(k)
  PROVE  RequestInv'
<1>1. PICK k : k = task'[t]
  OBVIOUS
<1>2. step \in Steps
  BY DEF Steps
<1>3. /\ k.req = task[t].req /\ k.step = step /\ k.answer = answer
      /\ k.seen = task[t].seen /\ k.stayed = task[t].stayed
      /\ \A o \in Threads : o # t => task'[o] = task[o]
  BY <1>1, <1>2, EndsWith
<1>4. Known(task[t]) /\ Explained(k)
  BY <1>3 DEF RequestInv
<1>5. Known(k)
  BY <1>3, <1>4 DEF Known
<1>6. QED
  BY <1>1, <1>3, <1>5, OthersStay

\* Of the candidates with the highest score one decides for all that stayed.
LEMMA BestDecides ==
  ASSUME TypeOK, NEW r \in Requests, NEW candidates \in SUBSET Templates,
         NEW best \in Best(r, candidates), ~Reaches(r, best)
  PROVE  \A tpl \in candidates : ~Reaches(r, tpl)
<1> SUFFICES ASSUME NEW tpl \in candidates PROVE ~Reaches(r, tpl)
  OBVIOUS
<1>1. r.shows.face \in Faces /\ r.scope \in AuthScopes
  BY BrokerAssumption DEF Request, Evidence
<1>2. best \in candidates /\ Score[r.shows.face][tpl.face] <= Score[r.shows.face][best.face]
  BY DEF Best
<1>3. tpl.face \in Faces /\ best.face \in Faces
  BY <1>2, BrokerAssumption
<1>4. /\ Score[r.shows.face][tpl.face] \in Nat
      /\ Score[r.shows.face][best.face] \in Nat
      /\ RequiredScore[r.scope] \in Nat
  BY <1>1, <1>3, BrokerAssumption
<1>5. QED
  BY <1>2, <1>4 DEF Reaches

LEMMA RequestInit == Init => RequestInv
BY DEF Init, RequestInv

LEMMA RequestStep == TypeOK /\ RequestInv /\ [Next]_vars => RequestInv'
<1> SUFFICES ASSUME TypeOK, RequestInv, [Next]_vars PROVE RequestInv'
  OBVIOUS
<1>1. ASSUME NEW t \in Threads, NEW r \in Requests, Receive(t, r)
      PROVE  RequestInv'
  <2>1. PICK k : k = [req |-> r,
             step |-> IF Permitted(r) THEN "received" ELSE "answered",
             answer |-> IF Permitted(r) THEN None ELSE Answering("unauthorized"),
             seen |-> file[r.user], stayed |-> file[r.user]]
    OBVIOUS
  <2>2. ~Permitted(r) => Explained(k)
    BY <2>1 DEF Explained, Answering, Mismatches
  <2>3. Known(k)
    BY <2>1, <2>2 DEF Known
  <2>4. task' = [task EXCEPT ![t] = k]
    BY <1>1, <2>1 DEF Receive
  <2>5. task'[t] = k /\ \A o \in Threads : o # t => task'[o] = task[o]
    BY <2>4 DEF TypeOK
  <2>6. UNCHANGED <<file, required>>
    BY <1>1 DEF Receive
  <2>7. QED
    BY <2>3, <2>5, <2>6, OthersStay
<1>2. ASSUME NEW t \in Threads, Refuse(t) PROVE RequestInv'
  <2>1. PICK code \in {"rate_limited", "locked_out"} : Ends(t, "answered", Answering(code))
    BY <1>2 DEF Refuse
  <2>2. Answering(code) \in Answer /\ Answering(code).code = code
    BY PlainAnswer DEF Errors
  <2>3. task[t] # None /\ task[t].step = "received" /\ UNCHANGED <<file, required>>
    BY <1>2 DEF Refuse, At
  <2>4. Permitted(task[t].req)
    BY <2>3 DEF RequestInv, Known
  <2>5. ASSUME NEW k, k.req = task[t].req, k.answer = Answering(code)
        PROVE  Explained(k)
    BY <2>2, <2>4, <2>5 DEF Explained, Mismatches
  <2>6. QED
    BY <2>1, <2>2, <2>3, <2>5, KnownEnds
<1>3. ASSUME NEW t \in Threads, Admit(t) PROVE RequestInv'
  <2>1. task[t] # None /\ task[t].step = "received" /\ Goes(t, "admitted")
    BY <1>3 DEF Admit, At
  <2>2. UNCHANGED <<file, required>> /\ "admitted" \in Steps
    BY <1>3 DEF Admit, Steps
  <2>3. QED
    BY <2>1, <2>2, KnownGoesOn
<1>4. ASSUME NEW t \in Threads, Examine(t) PROVE RequestInv'
  <2> DEFINE r == task[t].req
  <2>1. task[t] # None /\ task[t].step = "admitted" /\ UNCHANGED <<file, required>>
    BY <1>4 DEF Examine, At
  <2>2. r \in Requests /\ Permitted(r)
    BY <2>1 DEF TypeOK, Task, RequestInv, Known
  <2>3. CASE Verdict(r) = "fit" /\ Goes(t, "examined")
    BY <2>1, <2>3, KnownGoesOn DEF Steps
  <2>4. CASE Verdict(r) # "fit" /\ Ends(t, "decided", Answering(Verdict(r)))
    <3>1. Verdict(r) \in (Mismatches \ {"template_mismatch"}) \cup {"bad_request"}
      BY <2>2, <2>4, VerdictRange
    <3>2. Answering(Verdict(r)) \in Answer /\ Answering(Verdict(r)).code = Verdict(r)
      BY <3>1, PlainAnswer DEF Errors
    <3>3. ASSUME NEW k, k.req = r, k.answer = Answering(Verdict(r))
          PROVE  Explained(k)
      BY <2>2, <3>1, <3>2, <3>3 DEF Explained, Mismatches
    <3>4. QED
      BY <2>1, <2>4, <3>2, <3>3, KnownEnds
  <2>5. CASE Ends(t, "decided", Answering("internal"))
    <3>1. Answering("internal") \in Answer /\ Answering("internal").code = "internal"
      BY PlainAnswer DEF Errors
    <3>2. ASSUME NEW k, k.req = r, k.answer = Answering("internal")
          PROVE  Explained(k)
      BY <2>2, <3>1, <3>2 DEF Explained, Mismatches
    <3>3. QED
      BY <2>1, <2>5, <3>1, <3>2, KnownEnds
  <2>6. QED
    BY <1>4, <2>3, <2>4, <2>5 DEF Examine
<1>5. ASSUME NEW t \in Threads, Compare(t) PROVE RequestInv'
  <2> DEFINE r          == task[t].req
             candidates == Allowed(file[r.user], r.scope)
  <2>1. task[t] # None /\ task[t].step = "examined" /\ UNCHANGED <<file, required>>
    BY <1>5 DEF Compare, At
  <2>2. r \in Requests /\ Permitted(r) /\ Verdict(r) = "fit"
    BY <2>1 DEF TypeOK, Task, RequestInv, Known
  <2>3. /\ Allowed(task[t].stayed, r.scope) \subseteq candidates
        /\ candidates \subseteq Allowed(task[t].seen, r.scope)
    BY <2>1 DEF RequestInv, Known, Allowed
  <2>4. candidates \in SUBSET Templates
    <3>1. file[r.user] \subseteq Templates
      BY <2>2, BrokerAssumption DEF TypeOK, Request
    <3>2. QED
      BY <3>1 DEF Allowed
  <2>5. CASE Ends(t, "decided", Answering("internal"))
    <3>1. Answering("internal") \in Answer /\ Answering("internal").code = "internal"
      BY PlainAnswer DEF Errors
    <3>2. ASSUME NEW k, k.req = r, k.answer = Answering("internal")
          PROVE  Explained(k)
      BY <2>2, <3>1, <3>2 DEF Explained, Mismatches
    <3>3. QED
      BY <2>1, <2>5, <3>1, <3>2, KnownEnds
  <2>6. ASSUME NEW code \in {"not_enrolled", "template_mismatch"},
               Ends(t, "decided", Answering(code)),
               \A tpl \in candidates : ~Reaches(r, tpl)
        PROVE  RequestInv'
    <3>1. Answering(code) \in Answer /\ Answering(code).code = code
      BY PlainAnswer DEF Errors, Mismatches
    <3>2. ASSUME NEW k, k.req = r, k.answer = Answering(code), k.stayed = task[t].stayed
          PROVE  Explained(k)
      BY <2>2, <2>3, <2>6, <3>1, <3>2 DEF Explained, Mismatches
    <3>3. QED
      BY <2>1, <2>6, <3>1, <3>2, KnownEnds
  <2>7. CASE candidates = {} /\ Ends(t, "decided", Answering("not_enrolled"))
    BY <2>6, <2>7
  <2>8. ASSUME NEW best \in Best(r, candidates), ~Reaches(r, best),
               Ends(t, "decided", Answering("template_mismatch"))
        PROVE  RequestInv'
    <3>1. \A tpl \in candidates : ~Reaches(r, tpl)
      BY <2>2, <2>4, <2>8, BestDecides
    <3>2. QED
      BY <2>6, <2>8, <3>1
  <2>9. ASSUME NEW best \in Best(r, candidates), Reaches(r, best),
               Ends(t, "decided", [code |-> "matched", template |-> best.id])
        PROVE  RequestInv'
    <3>1. PICK answer : answer = [code |-> "matched", template |-> best.id]
      OBVIOUS
    <3>2. best \in candidates
      BY DEF Best
    <3>3. answer \in Answer /\ answer.code = "matched" /\ answer.template = best.id
      BY <2>4, <3>1, <3>2 DEF Answer
    <3>4. ASSUME NEW k, k.req = r, k.answer = answer, k.seen = task[t].seen
          PROVE  Explained(k)
      <4>1. \E tpl \in Allowed(k.seen, k.req.scope) :
              tpl.id = k.answer.template /\ Reaches(k.req, tpl)
        BY <2>3, <2>9, <3>2, <3>3, <3>4
      <4>2. QED
        BY <2>2, <3>3, <3>4, <4>1 DEF Explained, Mismatches
    <3>5. QED
      BY <2>1, <2>9, <3>1, <3>3, <3>4, KnownEnds
  <2>10. QED
    BY <1>5, <2>5, <2>7, <2>8, <2>9 DEF Compare
<1>6. ASSUME NEW t \in Threads, Record(t) PROVE RequestInv'
  <2>1. task[t] # None /\ task[t].step = "decided" /\ Goes(t, "answered")
    BY <1>6 DEF Record, At
  <2>2. UNCHANGED <<file, required>> /\ "answered" \in Steps
    BY <1>6 DEF Record, Steps
  <2>3. QED
    BY <2>1, <2>2, KnownGoesOn
<1>7. ASSUME NEW t \in Threads, RecordPanics(t) \/ Respond(t) PROVE RequestInv'
  <2>1. PICK k : k = None
    OBVIOUS
  <2>2. UNCHANGED <<file, required>> /\ task' = [task EXCEPT ![t] = k]
    BY <1>7, <2>1 DEF RecordPanics, Respond
  <2>3. task'[t] = k /\ \A o \in Threads : o # t => task'[o] = task[o]
    BY <2>2 DEF TypeOK
  <2>4. QED
    BY <2>1, <2>2, <2>3, OthersStay
<1>8. ASSUME NEW u \in Users, NEW content \in Contents, Replace(u, content)
      PROVE  RequestInv'
  <2> SUFFICES ASSUME NEW o \in Threads, task'[o] # None
               PROVE  Known(task[o])'
    BY DEF RequestInv
  <2>1. UNCHANGED required /\ file' = [file EXCEPT ![u] = content]
    BY <1>8 DEF Replace
  <2>2. PICK n : n = task'[o] /\ n # None
    OBVIOUS
  <2>3. task[o] # None
    BY <1>8, <2>2 DEF Replace
  <2>4. Known(task[o]) /\ task[o] \in Task /\ task[o].req.user \in Users
    BY <2>3, BrokerAssumption DEF RequestInv, TypeOK, Task, Request
  <2>5. /\ n.req = task[o].req /\ n.step = task[o].step /\ n.answer = task[o].answer
        /\ task[o].seen \subseteq n.seen /\ n.stayed \subseteq task[o].stayed
        /\ n.stayed \subseteq file'[n.req.user] /\ file'[n.req.user] \subseteq n.seen
    <3>1. CASE task[o].req.user = u
      <4>1. n = [task[o] EXCEPT !.seen = @ \cup content, !.stayed = @ \cap content]
        BY <1>8, <2>2, <2>3, <3>1 DEF Replace
      <4>2. /\ n.req = task[o].req /\ n.step = task[o].step /\ n.answer = task[o].answer
            /\ n.seen = task[o].seen \cup content
            /\ n.stayed = task[o].stayed \cap content
        BY <2>4, <4>1 DEF Task
      <4>3. file'[u] = content
        BY <2>1 DEF TypeOK
      <4>4. QED
        BY <3>1, <4>2, <4>3
    <3>2. CASE task[o].req.user # u
      <4>1. n = task[o]
        BY <1>8, <2>2, <3>2 DEF Replace
      <4>2. file'[n.req.user] = file[n.req.user]
        BY <2>1, <2>4, <3>2, <4>1 DEF TypeOK
      <4>3. QED
        BY <2>4, <4>1, <4>2 DEF Known
    <3>3. QED
      BY <3>1, <3>2
  <2>6. n.answer # None => Explained(n)
    BY <2>4, <2>5, ExplainedOn DEF Known
  <2>7. Verdict(n.req)' = Verdict(n.req) /\ Permitted(n.req)' = Permitted(n.req)
    BY <2>1, SameVerdict DEF Permitted, Guard!Authorized
  <2>8. Explained(n)' = Explained(n)
    BY <2>7 DEF Explained, Allowed, Reaches
  <2>9. Known(n)'
    BY <2>4, <2>5, <2>6, <2>7, <2>8 DEF Known
  <2>10. QED
    BY <2>2, <2>9, KnownByName
<1>9. CASE Tick
  BY <1>9, AllStay DEF Tick
<1>10. CASE Restart
  BY <1>10 DEF Restart, RequestInv
<1>11. CASE UNCHANGED vars
  BY <1>11, AllStay DEF vars
<1>12. QED
  BY <1>1, <1>2, <1>3, <1>4, <1>5, <1>6, <1>7, <1>8, <1>9, <1>10, <1>11
     DEF Next, Serve

-----------------------------------------------------------------------------
(* What follows for the answers. *)

\* The frames fit for a comparison are the genuine ones and, without
\* cross-check, those with several faces.
LEMMA FitIsGenuine ==
  ASSUME NEW r \in Requests, Permitted(r)
  PROVE  Verdict(r) = "fit" <=> Genuine(r) \/ Crowded(r)
<1>1. r \in Request /\ r.shows \in Evidence
  BY BrokerAssumption DEF Request
<1>2. /\ r.kind \in {"match", "frame", "pair"}
      /\ r.shows.rgbFaces \in 0 .. 2 /\ r.shows.irFaces \in 0 .. 2
  BY <1>1 DEF Request, Evidence
<1>3. QED
  BY <1>2 DEF Permitted, Verdict, PairVerdict, FrameVerdict, Genuine, Crowded

LEMMA RequestAlways == Spec => [](TypeOK /\ RequestInv)
BY BrokerTypeInit, BrokerTypeStep, RequestInit, RequestStep, PTL DEF Spec

\* A match is answered only to an entitled peer, on frames that passed every
\* check the policy in force requires, and for a template that was in the file
\* while the request was served.
THEOREM MatchesSound == Spec => []MatchSound
<1>1. TypeOK /\ RequestInv => MatchSound
  <2> SUFFICES ASSUME TypeOK, RequestInv, NEW t \in Threads, At(t, "answered"),
                      task[t].answer.code = "matched"
               PROVE  /\ Entitled(task[t].req)
                      /\ Genuine(task[t].req) \/ Crowded(task[t].req)
                      /\ \E tpl \in Allowed(task[t].seen, task[t].req.scope) :
                           tpl.id = task[t].answer.template /\ Reaches(task[t].req, tpl)
    BY DEF MatchSound
  <2>1. Explained(task[t]) /\ task[t].req \in Requests
    BY DEF At, TypeOK, Task, RequestInv, Known
  <2>2. Permitted(task[t].req) /\ Verdict(task[t].req) = "fit"
    BY <2>1 DEF Explained
  <2>3. Entitled(task[t].req)
    BY <2>2 DEF Permitted, Entitled, Guard!Authorized
  <2>4. QED
    BY <2>1, <2>2, <2>3, FitIsGenuine DEF Explained
<1>2. QED
  BY <1>1, RequestAlways, PTL

\* An entitled peer whose frames show exactly one face is not turned away while a template
\* that matches them stays in the file.
THEOREM MatchesComplete == Spec => []MatchComplete
<1>1. TypeOK /\ RequestInv => MatchComplete
  <2> SUFFICES ASSUME TypeOK, RequestInv, NEW t \in Threads, At(t, "answered"),
                      task[t].answer.code \in
                        Mismatches \cup {"not_enrolled", "unauthorized", "bad_request"},
                      Entitled(task[t].req), Genuine(task[t].req)
               PROVE  \A tpl \in Allowed(task[t].stayed, task[t].req.scope) :
                        ~Reaches(task[t].req, tpl)
    BY DEF MatchComplete
  <2>1. Explained(task[t]) /\ task[t].req \in Requests
    BY DEF At, TypeOK, Task, RequestInv, Known
  <2>2. Permitted(task[t].req)
    BY DEF Entitled, Genuine, Permitted, Guard!Authorized
  <2>3. Verdict(task[t].req) = "fit"
    BY <2>1, <2>2, FitIsGenuine
  <2>4. task[t].answer.code \in {"template_mismatch", "not_enrolled"}
    BY <2>1, <2>2, <2>3 DEF Explained, Mismatches
  <2>5. QED
    BY <2>1, <2>4 DEF Explained
<1>2. QED
  BY <1>1, RequestAlways, PTL

-----------------------------------------------------------------------------
(* The guard under the broker. *)

\* A thread whose request is between admission and recording, in both, is the
\* same to the guard.
LEMMA AdmittedStays ==
  ASSUME NEW t \in Threads, \A o \in Threads : o # t => task'[o] = task[o],
         (At(t, "admitted") \/ At(t, "examined") \/ At(t, "decided"))
           <=> (At(t, "admitted") \/ At(t, "examined") \/ At(t, "decided"))',
         At(t, "admitted") \/ At(t, "examined") \/ At(t, "decided")
           => task'[t].req = task[t].req
  PROVE  admitted' = admitted
BY DEF admitted, At

LEMMA GuardInit == Init => Guard!Init
BY DEF Init, Guard!Init, admitted, At

\* Each step of the broker is a step of the guard or leaves the guard alone.
LEMMA GuardSimulated ==
  TypeOK /\ RequestInv /\ [Next]_vars => [Guard!Next]_(Guard!vars)
<1> SUFFICES ASSUME TypeOK, RequestInv, [Next]_vars PROVE [Guard!Next]_(Guard!vars)
  OBVIOUS
<1>1. ASSUME UNCHANGED guardVars, NEW t \in Threads,
             \A o \in Threads : o # t => task'[o] = task[o],
             (At(t, "admitted") \/ At(t, "examined") \/ At(t, "decided"))
               <=> (At(t, "admitted") \/ At(t, "examined") \/ At(t, "decided"))',
             At(t, "admitted") \/ At(t, "examined") \/ At(t, "decided")
               => task'[t].req = task[t].req
      PROVE  UNCHANGED Guard!vars
  BY <1>1, AdmittedStays DEF guardVars, Guard!vars
<1>2. ASSUME NEW t \in Threads, NEW r \in Requests, Receive(t, r)
      PROVE  UNCHANGED Guard!vars
  <2>1. PICK k : k = [req |-> r,
             step |-> IF Permitted(r) THEN "received" ELSE "answered",
             answer |-> IF Permitted(r) THEN None ELSE Answering("unauthorized"),
             seen |-> file[r.user], stayed |-> file[r.user]]
    OBVIOUS
  <2>2. task[t] = None /\ task' = [task EXCEPT ![t] = k] /\ UNCHANGED guardVars
    BY <1>2, <2>1 DEF Receive
  <2>3. task'[t] = k /\ \A o \in Threads : o # t => task'[o] = task[o]
    BY <2>2 DEF TypeOK
  <2>4. task'[t].step \in {"received", "answered"}
    BY <2>1, <2>3
  <2>5. QED
    BY <1>1, <2>2, <2>3, <2>4 DEF At
<1>3. ASSUME NEW t \in Threads, Refuse(t) \/ Admit(t)
      PROVE  Guard!Next
  <2>1. task[t] # None /\ task[t].step = "received"
    BY <1>3 DEF Refuse, Admit, At
  <2>2. Permitted(task[t].req) /\ task[t].req \in Request
    BY <2>1, BrokerAssumption DEF TypeOK, Task, RequestInv, Known
  <2>3. task[t].req.uid \in Uids /\ task[t].req.user \in Users
    BY <2>2 DEF Permitted, Request
  <2>4. QED
    BY <1>3, <2>3 DEF Refuse, Admit, Guard!Next, Guard!Request
<1>4. ASSUME NEW t \in Threads, Examine(t) PROVE UNCHANGED Guard!vars
  <2>1. task[t] # None /\ task[t].step = "admitted" /\ UNCHANGED guardVars
    BY <1>4 DEF Examine, At
  <2>2. task[t].req \in Requests
    BY <2>1 DEF TypeOK, Task
  <2>3. PICK step \in {"examined", "decided"} :
          \/ Goes(t, step)
          \/ \E code \in Mismatches \cup Errors : Ends(t, step, Answering(code))
    BY <1>4, <2>2, VerdictRange DEF Examine, Errors
  <2>4. /\ task'[t] \in Task /\ task'[t].req = task[t].req /\ task'[t].step = step
        /\ \A o \in Threads : o # t => task'[o] = task[o]
    BY <2>1, <2>3, GoesOn, EndsWith, PlainAnswer DEF Steps
  <2>5. QED
    BY <1>1, <2>1, <2>3, <2>4, BrokerAssumption DEF At
<1>5. ASSUME NEW t \in Threads, Compare(t) PROVE UNCHANGED Guard!vars
  <2>1. task[t] # None /\ task[t].step = "examined" /\ UNCHANGED guardVars
    BY <1>5 DEF Compare, At
  <2>2. PICK answer \in Answer : Ends(t, "decided", answer)
    BY <1>5, ComparisonAnswers
  <2>3. /\ task'[t] \in Task /\ task'[t].req = task[t].req /\ task'[t].step = "decided"
        /\ \A o \in Threads : o # t => task'[o] = task[o]
    BY <2>1, <2>2, EndsWith DEF Steps
  <2>4. QED
    BY <1>1, <2>1, <2>3, BrokerAssumption DEF At
<1>6. ASSUME NEW t \in Threads, Record(t) \/ RecordPanics(t) PROVE Guard!Next
  BY <1>6 DEF Record, RecordPanics, Guard!Next, Guard!Record
<1>7. ASSUME NEW t \in Threads, Respond(t) PROVE UNCHANGED Guard!vars
  <2>1. task[t] # None /\ task[t].step = "answered" /\ UNCHANGED guardVars
    BY <1>7 DEF Respond, At
  <2>2. task'[t] = None /\ \A o \in Threads : o # t => task'[o] = task[o]
    BY <1>7 DEF Respond, TypeOK
  <2>3. QED
    BY <1>1, <2>1, <2>2 DEF At
<1>8. ASSUME NEW u \in Users, NEW content \in Contents, Replace(u, content)
      PROVE  UNCHANGED Guard!vars
  <2>1. ASSUME NEW t \in Threads
        PROVE  /\ task'[t] = None <=> task[t] = None
               /\ task[t] # None =>
                    task'[t].step = task[t].step /\ task'[t].req = task[t].req
    <3>1. CASE task[t] # None /\ task[t].req.user = u
      <4>1. task[t] \in Task
        BY <3>1 DEF TypeOK
      <4>2. task'[t] = [task[t] EXCEPT !.seen = @ \cup content, !.stayed = @ \cap content]
        BY <1>8, <3>1 DEF Replace
      <4>3. task'[t] = [req |-> task[t].req, step |-> task[t].step, answer |-> task[t].answer,
                        seen |-> task[t].seen \cup content,
                        stayed |-> task[t].stayed \cap content]
        BY <4>1, <4>2 DEF Task
      <4>4. content \subseteq Templates
        BY BrokerAssumption
      <4>5. task'[t] \in Task
        BY <4>1, <4>3, <4>4 DEF Task
      <4>6. task'[t].step = task[t].step /\ task'[t].req = task[t].req
        BY <4>3
      <4>7. task'[t] # None
        BY <4>5, BrokerAssumption
      <4>8. QED
        BY <3>1, <4>6, <4>7
    <3>2. CASE ~(task[t] # None /\ task[t].req.user = u)
      BY <1>8, <3>2 DEF Replace
    <3>3. QED
      BY <3>1, <3>2
  <2>2. admitted' = admitted
    BY <2>1 DEF admitted, At
  <2>3. QED
    BY <1>8, <2>2 DEF Replace, guardVars, Guard!vars
<1>9. CASE Tick
  BY <1>9 DEF Tick, Guard!Next
<1>10. CASE Restart
  BY <1>10 DEF Restart, Guard!Next
<1>11. CASE UNCHANGED vars
  BY <1>11 DEF vars, guardVars, Guard!vars, admitted, At
<1>12. QED
  BY <1>2, <1>3, <1>4, <1>5, <1>6, <1>7, <1>8, <1>9, <1>10, <1>11
     DEF Next, Serve

\* Requests use the guard as it is meant to be used.
THEOREM BrokerImplementsGuard == Spec => ImplementsGuard
<1>1. Init => Guard!Init
  BY GuardInit
<1>2. TypeOK /\ RequestInv /\ [Next]_vars => [Guard!Next]_(Guard!vars)
  BY GuardSimulated
<1>3. Spec => Guard!Spec
  BY <1>1, <1>2, RequestAlways, PTL DEF Spec, Guard!Spec
<1>4. QED
  BY <1>3 DEF ImplementsGuard

-----------------------------------------------------------------------------
(* What holds of the guard holds under the broker. *)

GuardProofs == INSTANCE AbuseGuardProofs WITH thread <- admitted

\* The assumptions of AbuseGuard hold of the broker's guard.
LEMMA GuardAssumptions == GuardProofs!GuardAssumption /\ GuardProofs!NoneAssumption
BY GuardAssumed
   DEF Guard!GuardAssumption, GuardProofs!GuardAssumption,
       Guard!NoneAssumption, GuardProofs!NoneAssumption,
       Guard!WindowCounter, GuardProofs!WindowCounter,
       Guard!FailureCounter, GuardProofs!FailureCounter,
       Guard!Admitted, GuardProofs!Admitted, Guard!Time, GuardProofs!Time

\* The guard the proofs of AbuseGuard are about is the broker's.
LEMMA SameRequests ==
  ASSUME NEW t, NEW uid, NEW u
  PROVE  /\ GuardProofs!RefuseRate(t, uid, u) <=> Guard!RefuseRate(t, uid, u)
         /\ GuardProofs!RefuseLocked(t, uid, u) <=> Guard!RefuseLocked(t, uid, u)
         /\ GuardProofs!Admit(t, uid, u) <=> Guard!Admit(t, uid, u)
<1>1. GuardProofs!Asks(t, uid, u) <=> Guard!Asks(t, uid, u)
  BY DEF GuardProofs!Asks, Guard!Asks, GuardProofs!Authorized, Guard!Authorized,
         GuardProofs!InFlight, Guard!InFlight
<1>2. GuardProofs!Window(uid) = Guard!Window(uid)
  BY DEF GuardProofs!Window, Guard!Window
<1>3. GuardProofs!PassRate(uid) <=> Guard!PassRate(uid)
  BY <1>2 DEF GuardProofs!PassRate, Guard!PassRate
<1>4. GuardProofs!LockedOut(u) <=> Guard!LockedOut(u)
  BY DEF GuardProofs!LockedOut, Guard!LockedOut
<1>5. GuardProofs!EntryAfterCheck(u) = Guard!EntryAfterCheck(u)
  BY DEF GuardProofs!EntryAfterCheck, Guard!EntryAfterCheck,
         GuardProofs!Unlocked, Guard!Unlocked
<1>6. QED
  BY <1>1, <1>2, <1>3, <1>4, <1>5
     DEF GuardProofs!RefuseRate, Guard!RefuseRate, GuardProofs!RefuseLocked,
         Guard!RefuseLocked, GuardProofs!Admit, Guard!Admit

LEMMA SameRecords ==
  ASSUME NEW t
  PROVE  /\ GuardProofs!RecordSuccess(t) <=> Guard!RecordSuccess(t)
         /\ GuardProofs!RecordFailure(t) <=> Guard!RecordFailure(t)
         /\ GuardProofs!RecordFailurePanics(t) <=> Guard!RecordFailurePanics(t)
<1>1. GuardProofs!Finish(t) <=> Guard!Finish(t)
  BY DEF GuardProofs!Finish, Guard!Finish
<1>2. ASSUME NEW u
      PROVE  GuardProofs!EntryForFailure(u) = Guard!EntryForFailure(u)
  BY DEF GuardProofs!EntryForFailure, Guard!EntryForFailure,
         GuardProofs!Unlocked, Guard!Unlocked
<1>3. ASSUME NEW u, NEW uid, NEW locks
      PROVE  GuardProofs!Note(u, uid, locks) <=> Guard!Note(u, uid, locks)
  BY DEF GuardProofs!Note, Guard!Note
<1>4. ASSUME NEW n
      PROVE  GuardProofs!LockAt(n) <=> Guard!LockAt(n)
  BY DEF GuardProofs!LockAt, Guard!LockAt
<1>5. GuardProofs!CooldownRepresentable <=> Guard!CooldownRepresentable
  BY DEF GuardProofs!CooldownRepresentable, Guard!CooldownRepresentable
<1>6. GuardProofs!RecordSuccess(t) <=> Guard!RecordSuccess(t)
  BY <1>1 DEF GuardProofs!RecordSuccess, Guard!RecordSuccess
<1>7. GuardProofs!RecordFailure(t) <=> Guard!RecordFailure(t)
  BY <1>1, <1>2, <1>3, <1>4, <1>5
     DEF GuardProofs!RecordFailure, Guard!RecordFailure
<1>8. GuardProofs!RecordFailurePanics(t) <=> Guard!RecordFailurePanics(t)
  BY <1>1, <1>2, <1>3, <1>4, <1>5
     DEF GuardProofs!RecordFailurePanics, Guard!RecordFailurePanics
<1>9. QED
  BY <1>6, <1>7, <1>8

LEMMA SameGuard == GuardProofs!Spec <=> Guard!Spec
<1>1. GuardProofs!Init <=> Guard!Init
  BY DEF GuardProofs!Init, Guard!Init
<1>2. \A t : GuardProofs!Record(t) <=> Guard!Record(t)
  BY SameRecords DEF GuardProofs!Record, Guard!Record
<1>3. \A t : GuardProofs!Request(t) <=> Guard!Request(t)
  BY SameRequests DEF GuardProofs!Request, Guard!Request
<1>4. (GuardProofs!Tick <=> Guard!Tick) /\ (GuardProofs!Restart <=> Guard!Restart)
  BY DEF GuardProofs!Tick, Guard!Tick, GuardProofs!Restart, Guard!Restart
<1>5. GuardProofs!Next <=> Guard!Next
  BY <1>2, <1>3, <1>4 DEF GuardProofs!Next, Guard!Next
<1>6. [GuardProofs!Next]_(GuardProofs!vars) <=> [Guard!Next]_(Guard!vars)
  BY <1>5 DEF GuardProofs!vars, Guard!vars
<1>7. QED
  BY <1>1, <1>6, PTL DEF GuardProofs!Spec, Guard!Spec

\* The limits of AbuseGuard hold of the broker: the peers' bursts are bounded,
\* and nobody locks out somebody else.
THEOREM BrokerGuarded == Spec => []Guard!BurstBounded /\ []Guard!LockJustified
<1>1. GuardProofs!BurstBounded <=> Guard!BurstBounded
  BY DEF GuardProofs!BurstBounded, Guard!BurstBounded, GuardProofs!Spaced, Guard!Spaced
<1>2. GuardProofs!LockJustified <=> Guard!LockJustified
  BY DEF GuardProofs!LockJustified, Guard!LockJustified,
         GuardProofs!Justified, Guard!Justified
<1>3. Guard!Spec => []GuardProofs!BurstBounded /\ []GuardProofs!LockJustified
  BY GuardAssumptions, SameGuard, GuardProofs!BurstsBounded,
     GuardProofs!LockoutsJustified, PTL
<1>4. Spec => Guard!Spec
  BY BrokerImplementsGuard DEF ImplementsGuard
<1>5. QED
  BY <1>1, <1>2, <1>3, <1>4, PTL

\* Guessing through the broker is bounded as well: of 2 * Threshold - 1 failed
\* requests for a user within FailureWindow one locks him out, and his lockout
\* begins exactly at the threshold, however the requests overlap, if the end of
\* every cooldown is an Instant.
THEOREM BrokerLimitsGuesses ==
  ASSUME Guard!CooldownsFit
  PROVE  Spec => []Guard!GuessesBounded /\ []Guard!LockIffThreshold
<1>1. GuardProofs!GuessesBounded <=> Guard!GuessesBounded
  BY DEF GuardProofs!GuessesBounded, Guard!GuessesBounded,
         GuardProofs!Limited, Guard!Limited
<1>2. GuardProofs!LockIffThreshold <=> Guard!LockIffThreshold
  BY DEF GuardProofs!LockIffThreshold, Guard!LockIffThreshold,
         GuardProofs!LockAt, Guard!LockAt
<1>3. GuardProofs!CooldownsFit
  BY DEF GuardProofs!CooldownsFit, Guard!CooldownsFit
<1>4. Guard!Spec => []GuardProofs!GuessesBounded /\ []GuardProofs!LockIffThreshold
  BY <1>3, GuardAssumptions, SameGuard, GuardProofs!GuessingBounded,
     GuardProofs!LocksAtThreshold, PTL
<1>5. Spec => Guard!Spec
  BY BrokerImplementsGuard DEF ImplementsGuard
<1>6. QED
  BY <1>1, <1>2, <1>4, <1>5, PTL

-----------------------------------------------------------------------------
(* What is forgotten. *)

LEMMA SameForgets ==
  ASSUME NEW u
  PROVE  /\ GuardProofs!Forgets(u) <=> Guard!Forgets(u)
         /\ GuardProofs!LockEnded(u) <=> Guard!LockEnded(u)
         /\ GuardProofs!WindowOver(u) <=> Guard!WindowOver(u)
BY DEF GuardProofs!Forgets, Guard!Forgets, GuardProofs!LockEnded, Guard!LockEnded,
       GuardProofs!WindowOver, Guard!WindowOver

\* A user's failures and lockout outlast everything but the four reasons: the
\* end of the broker, a match, the end of the lockout, the end of the window.
THEOREM ForgetsWithReason == Spec => ForgottenWithReason
<1> DEFINE Excused(u) == Restart \/ \E t \in Threads : GivesReason(t, u)
           Forgotten == \A u \in Users : Guard!Forgets(u) => Excused(u)
<1>1. ASSUME TypeOK, RequestInv, GuardProofs!TypeOK, GuardProofs!LocksEndSoon,
             [Next]_vars, NEW u \in Users, Guard!Forgets(u)
      PROVE  Excused(u)
  <2>0. GuardProofs!Forgets(u)
    BY <1>1, SameForgets
  <2>1. ASSUME UNCHANGED failure PROVE FALSE
    <3>1. /\ failure[u] # None /\ failure[u].failures \in Nat
          /\ failure[u].locked_until \in Nat \cup {None}
      BY <1>1, <2>0 DEF GuardProofs!Forgets, GuardProofs!TypeOK, GuardProofs!FailureCounter
    <3>2. QED
      BY <2>0, <2>1, <3>1 DEF GuardProofs!Forgets
  <2>2. ASSUME NEW t \in Threads, Refuse(t) PROVE FALSE
    BY <2>1, <2>2 DEF Refuse, Guard!RefuseRate, Guard!RefuseLocked
  <2>3. ASSUME NEW t \in Threads, Admit(t) PROVE GivesReason(t, u)
    <3>1. task[t] # None /\ task[t].step = "received"
      BY <2>3 DEF Admit, At
    <3>2. Permitted(task[t].req) /\ task[t].req \in Request
      BY <1>1, <3>1, BrokerAssumption DEF TypeOK, Task, RequestInv, Known
    <3>3. PICK uid \in Uids, v \in Users :
            Guard!Admit(t, uid, v) /\ v = task[t].req.user
      BY <2>3, <3>2 DEF Admit, Permitted, Request
    <3>4. GuardProofs!Admit(t, uid, v)
      BY <3>3, SameRequests
    <3>5. u = v /\ GuardProofs!LockEnded(u)
      BY <1>1, <2>0, <3>4, GuardAssumptions, GuardProofs!AdmitForgets
    <3>6. Guard!LockEnded(u)
      BY <3>5, SameForgets
    <3>7. QED
      BY <2>3, <3>1, <3>3, <3>5, <3>6 DEF GivesReason
  <2>4. ASSUME NEW t \in Threads, At(t, "decided"),
               Guard!RecordFailure(t) \/ Guard!RecordFailurePanics(t)
        PROVE  task[t] # None /\ u = task[t].req.user /\ Guard!WindowOver(u)
    <3>1. GuardProofs!RecordFailure(t) \/ GuardProofs!RecordFailurePanics(t)
      BY <2>4, SameRecords
    <3>2. u = admitted[t].user /\ GuardProofs!WindowOver(u)
      BY <1>1, <2>0, <3>1, GuardAssumptions, GuardProofs!RecordForgets
    <3>3. task[t] # None /\ admitted[t].user = task[t].req.user
      BY <2>4 DEF admitted, At
    <3>4. Guard!WindowOver(u)
      BY <3>2, SameForgets
    <3>5. QED
      BY <3>2, <3>3, <3>4
  <2>5. ASSUME NEW t \in Threads, Record(t), ~Resets(task[t].answer) PROVE GivesReason(t, u)
    <3>1. At(t, "decided") /\ Guard!RecordFailure(t) /\ task[t].answer.code # "matched"
      BY <2>5 DEF Record, Resets
    <3>2. task[t] # None /\ u = task[t].req.user /\ Guard!WindowOver(u)
      BY <2>4, <3>1
    <3>3. QED
      BY <2>5, <3>1, <3>2 DEF GivesReason
  <2>6. ASSUME NEW t \in Threads, RecordPanics(t) PROVE GivesReason(t, u)
    <3>1. /\ At(t, "decided") /\ Guard!RecordFailurePanics(t)
          /\ task[t].answer.code # "matched"
      BY <2>6 DEF RecordPanics, Resets
    <3>2. task[t] # None /\ u = task[t].req.user /\ Guard!WindowOver(u)
      BY <2>4, <3>1
    <3>3. QED
      BY <2>6, <3>1, <3>2 DEF GivesReason
  <2>7. ASSUME NEW t \in Threads, Record(t), Resets(task[t].answer) PROVE GivesReason(t, u)
    <3>1. At(t, "decided") /\ task[t] # None /\ Guard!RecordSuccess(t)
      BY <2>7 DEF Record, At
    <3>2. admitted[t].user = task[t].req.user
      BY <3>1 DEF admitted
    <3>3. u = task[t].req.user
      <4>1. failure' = [failure EXCEPT ![task[t].req.user] = None]
        BY <3>1, <3>2 DEF Guard!RecordSuccess
      <4>2. u # task[t].req.user => failure'[u] = failure[u]
        BY <1>1, <4>1 DEF GuardProofs!TypeOK
      <4>3. failure'[u] # failure[u]
        <5>1. /\ failure[u] # None /\ failure[u].failures \in Nat
              /\ failure[u].locked_until \in Nat \cup {None}
          BY <1>1, <2>0 DEF GuardProofs!Forgets, GuardProofs!TypeOK,
                            GuardProofs!FailureCounter
        <5>2. QED
          BY <2>0, <5>1 DEF GuardProofs!Forgets
      <4>4. QED
        BY <4>2, <4>3
    <3>4. /\ task[t].answer.code = "matched" /\ task[t].req \in Requests
          /\ Explained(task[t])
      BY <1>1, <2>7, <3>1 DEF Resets, At, TypeOK, Task, RequestInv, Known
    <3>5. Permitted(task[t].req) /\ (Genuine(task[t].req) \/ Crowded(task[t].req))
      BY <3>4, FitIsGenuine DEF Explained
    <3>6. Entitled(task[t].req)
      BY <3>5 DEF Permitted, Entitled, Guard!Authorized
    <3>7. QED
      BY <2>7, <3>1, <3>3, <3>4, <3>5, <3>6 DEF GivesReason
  <2>8. CASE Restart
    BY <2>8
  <2>9. QED
    BY <1>1, <2>1, <2>2, <2>3, <2>5, <2>6, <2>7, <2>8
       DEF Next, Serve, Receive, Examine, Compare, Respond, Replace,
           Tick, Guard!Tick, vars, guardVars
<1>2. Spec => [](GuardProofs!TypeOK /\ GuardProofs!LocksEndSoon)
  <2>1. Spec => GuardProofs!Spec
    BY BrokerImplementsGuard, SameGuard DEF ImplementsGuard
  <2>2. QED
    BY <2>1, GuardAssumptions, GuardProofs!LocksEndSoonAlways, PTL
<1>3. TypeOK /\ RequestInv /\ GuardProofs!TypeOK /\ GuardProofs!LocksEndSoon /\ [Next]_vars
        => [Forgotten]_vars
  BY <1>1
<1>4. ForgottenWithReason <=> [][Forgotten]_vars
  BY DEF ForgottenWithReason
<1> HIDE DEF Forgotten
<1>5. QED
  BY <1>2, <1>3, <1>4, RequestAlways, PTL DEF Spec

=============================================================================
