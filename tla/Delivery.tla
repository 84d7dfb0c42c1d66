------------------------------ MODULE Delivery ------------------------------
(***************************************************************************)
(* The outbound calls of one background task: _patch_callback (the ROUTER  *)
(* callback), _post_orch_job (POST /api/v1/jobs) and _post_dispatcher.     *)
(* Each is a retry loop over a network that loses requests, loses answers, *)
(* and delivers requests after the client has given up on them.  The task  *)
(* makes its calls one after the other: Script lists them.                 *)
(*                                                                         *)
(* The receivers are external.  The ROUTER applies valid transitions of    *)
(* the task and answers 409 to the others; the orchestrator answers 409 to *)
(* an idempotency_key it knows; the dispatcher acts on whatever it gets.   *)
(***************************************************************************)
EXTENDS Naturals, Sequences, FiniteSets

CONSTANTS
  Script,         \* the calls in order; a callback is named by its status
  RetryAttempts   \* the values CALLBACK_RETRY_ATTEMPTS may have

Callback == {"IN_PROGRESS", "COMPLETED", "FAILED"}
Kind == Callback \union {"orch", "dispatcher"}
Code == {"2xx", "409", "4xx", "5xx", "error"}   \* "4xx": any but 409

ASSUME DeliveryAssumption == Script \in Seq(Kind) /\ RetryAttempts \subseteq Nat

VARIABLES
  configured,  \* which of ORCH_API_BASE_URL and AGENTIC_DISPATCHER_URL are set
  callback_retry_attempts,
  call,        \* position in Script of the current call
  sends,       \* requests sent for each call
  waiting,     \* is the client waiting for the answer of its last request?
  arrived,     \* has that request reached the receiver?
  late,        \* requests the client gave up on, still in the network
  refused,     \* pairs of a call and a 4xx code it was answered
  result,      \* what the call returned
  effects,     \* how often the receiver acted on the call
  router       \* the ROUTER's state of the task

clientVars == <<call, sends, waiting, arrived, refused, result>>
settings == <<configured, callback_retry_attempts>>
vars == <<settings, call, sends, waiting, arrived, late, refused, result,
          effects, router>>

Calls == 1..Len(Script)

Init ==
  /\ configured \in SUBSET {"orch", "dispatcher"}
  /\ callback_retry_attempts \in RetryAttempts
  /\ call = 1
  /\ sends = [i \in Calls |-> 0]
  /\ waiting = FALSE /\ arrived = FALSE
  /\ late = [i \in Calls |-> 0]
  /\ refused = {}
  /\ result = [i \in Calls |-> "none"]
  /\ effects = [i \in Calls |-> 0]
  /\ router = "DISPATCHED"

-----------------------------------------------------------------------------
(* The receivers (external).                                               *)

Accepts(from, to) ==
  \/ from = "DISPATCHED"
  \/ from = "IN_PROGRESS" /\ to \in {"COMPLETED", "FAILED"}

\* The ROUTER's TimeoutSweeper.
Sweep ==
  /\ router \in {"DISPATCHED", "IN_PROGRESS"}
  /\ router' = "TIMEOUT"
  /\ UNCHANGED <<settings, clientVars, late, effects>>

\* Mutant: each attempt carries a key of its own.
DuplicateUnseen(i) == FALSE

\* The orchestrator recognises idempotency_key marketer:{task_id}:{db_job_id}.
Duplicate(i) == Script[i] = "orch" /\ effects[i] > 0

Invalid(i) ==
  IF Script[i] \in Callback THEN ~Accepts(router, Script[i]) ELSE Duplicate(i)

\* The receiver gets the request of call i and answers with code.  A 5xx may
\* come before or after it has acted.
Receive(i, code) ==
  \/ /\ IF Invalid(i) THEN code \in {"409", "4xx", "5xx"} ELSE code \in {"4xx", "5xx"}
     /\ UNCHANGED <<effects, router>>
  \/ /\ ~Invalid(i) /\ code \in {"2xx", "5xx"}
     /\ effects' = [effects EXCEPT ![i] = @ + 1]
     /\ router' = IF Script[i] \in Callback THEN Script[i] ELSE router

-----------------------------------------------------------------------------
(* The client.                                                             *)

\* Mutant: the setting is used as it is.
AttemptsUnclamped == callback_retry_attempts

Attempts == IF callback_retry_attempts = 0 THEN 1 ELSE callback_retry_attempts

GivesUp(i) == sends[i] >= Attempts

\* _post_orch_job breaks at a 4xx other than 409; the other loops go on.
Stops(kind, code) == kind = "orch" /\ code = "4xx"

\* Mutant: a definitive answer counts as success.
SucceededAnswered(code) == code \in {"2xx", "4xx"}

Succeeded(code) == code = "2xx"

Return(value) ==
  /\ result' = [result EXCEPT ![call] = value]
  /\ call' = call + 1

\* What the loop does with an answer, or with a transport error.
Handle(code) ==
  /\ waiting' = FALSE /\ arrived' = FALSE
  /\ refused' = refused \union ({<<call, code>>} \intersect (Calls \X {"409", "4xx"}))
  /\ IF Succeeded(code)
     THEN Return("ok")
     ELSE IF Stops(Script[call], code) \/ GivesUp(call)
     THEN Return("failed")
     ELSE UNCHANGED <<result, call>>

\* No base URL, or a loop over no attempts.
NoRequest(i) == Script[i] \notin Callback \union configured \/ Attempts = 0

\* The call returns False without a request.
Skip ==
  /\ call \in Calls /\ NoRequest(call)
  /\ Return("failed")
  /\ UNCHANGED <<settings, sends, waiting, arrived, late, refused, effects, router>>

Send ==
  /\ call \in Calls /\ ~NoRequest(call)
  /\ ~waiting /\ sends[call] < Attempts
  /\ waiting' = TRUE
  /\ sends' = [sends EXCEPT ![call] = @ + 1]
  /\ UNCHANGED <<settings, call, arrived, late, refused, result, effects, router>>

\* The request arrives and its answer comes back.
Answer(code) ==
  /\ waiting /\ ~arrived
  /\ Receive(call, code)
  /\ Handle(code)
  /\ UNCHANGED <<settings, sends, late>>

\* The request arrives and its answer is lost.
LoseAnswer(code) ==
  /\ waiting /\ ~arrived
  /\ Receive(call, code)
  /\ arrived' = TRUE
  /\ UNCHANGED <<settings, call, sends, waiting, late, refused, result>>

\* Mutant: the client has no timeout, and waits for an answer that was lost.
TransportErrorNoTimeout ==
  /\ waiting /\ ~arrived
  /\ Handle("error")
  /\ UNCHANGED <<settings, sends, late, effects, router>>

\* httpx.HTTPError or TimeoutError: the request is lost, or still on its way.
TransportError ==
  /\ waiting
  /\ \/ UNCHANGED late
     \/ ~arrived /\ late' = [late EXCEPT ![call] = @ + 1]
  /\ Handle("error")
  /\ UNCHANGED <<settings, sends, effects, router>>

ArriveLate(i, code) ==
  /\ late[i] > 0
  /\ late' = [late EXCEPT ![i] = @ - 1]
  /\ Receive(i, code)
  /\ UNCHANGED <<settings, clientVars>>

Client == Skip \/ Send \/ TransportError \/ \E code \in Code : Answer(code)

Next ==
  \/ Client \/ Sweep
  \/ \E code \in Code : LoseAnswer(code)
  \/ \E i \in Calls, code \in Code : ArriveLate(i, code)

Spec == Init /\ [][Next]_vars

\* The event loop resumes the task; each request ends at the latest with the
\* timeout of its httpx client.
FairSpec == Spec /\ WF_vars(Client)

-----------------------------------------------------------------------------
(* Properties.                                                             *)

Finished == call > Len(Script)

DeliveryTypeOK ==
  /\ configured \subseteq {"orch", "dispatcher"} /\ callback_retry_attempts \in RetryAttempts
  /\ call \in 1..Len(Script) + 1
  /\ sends \in [Calls -> 0..Attempts] /\ late \in [Calls -> 0..Attempts]
  /\ effects \in [Calls -> 0..Attempts]
  /\ waiting \in BOOLEAN /\ arrived \in BOOLEAN
  /\ refused \subseteq Calls \X {"409", "4xx"}
  /\ result \in [Calls -> {"none", "ok", "failed"}]
  /\ router \in Callback \union {"DISPATCHED", "TIMEOUT"}

\* However many attempts, lost answers and late requests, the orchestrator
\* creates at most one job for a sub-job: the idempotency key is the same in
\* all the requests of one call.
OrchJobAtMostOnce == \A i \in Calls : Script[i] = "orch" => effects[i] <= 1

\* dispatch_status "ok" is never a lie: a call that returns True was acted on.
OkMeansDone == \A i \in Calls : result[i] = "ok" => effects[i] >= 1

\* A call to a service that is configured is tried, also with
\* CALLBACK_RETRY_ATTEMPTS=0, and gives up only after a refusal or after every one
\* of its attempts failed: fewer faults than attempts are masked.
GivesUpOnlyAfterAll ==
  \A i \in Calls :
    result[i] = "failed" /\ Script[i] \in Callback \union configured =>
      /\ sends[i] >= 1
      /\ sends[i] = Attempts \/ \E code \in {"409", "4xx"} : <<i, code>> \in refused

\* The whole script is carried out, whatever the receivers do and the network
\* loses.
ScriptFinishes == <>Finished

\* docs/ROUTER CONTRACT.md:445: "Maneja 409 por idempotency_key duplicada".  The
\* 409 says that the orchestrator has the job, so the call has not failed.
DuplicateIsNoFailure ==
  \A i \in Calls :
    Script[i] = "orch" /\ <<i, "409">> \in refused => result[i] # "failed"
=============================================================================
