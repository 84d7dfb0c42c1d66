---------------------------- MODULE DeliveryProofs ----------------------------
(***************************************************************************)
(* What the retry loops keep for every script of calls and every setting,  *)
(* whatever the network loses, doubles or delays.                          *)
(*                                                                         *)
(* A request that was sent is answered, still on its way or lost, so there *)
(* are never more effects than requests (Conserved), and the calls end in  *)
(* the order of the script (InOrder).                                      *)
(***************************************************************************)
EXTENDS Delivery, TLAPS

\* The last request of the current call, if it has not arrived.
UnderWay(i) == IF waiting /\ ~arrived /\ i = call THEN 1 ELSE 0

Typed ==
  /\ configured \subseteq {"orch", "dispatcher"} /\ callback_retry_attempts \in RetryAttempts
  /\ call \in 1..Len(Script) + 1
  /\ sends \in [Calls -> Nat] /\ late \in [Calls -> Nat] /\ effects \in [Calls -> Nat]
  /\ waiting \in BOOLEAN /\ arrived \in BOOLEAN
  /\ refused \subseteq Calls \X {"409", "4xx"}
  /\ result \in [Calls -> {"none", "ok", "failed"}]
  /\ router \in Callback \union {"DISPATCHED", "TIMEOUT"}

Conserved == \A i \in Calls :
  /\ effects[i] + late[i] + UnderWay(i) <= sends[i]
  /\ sends[i] <= Attempts

InOrder ==
  /\ \A i \in Calls : result[i] = "none" <=> i >= call
  /\ waiting => /\ call \in Calls /\ Script[call] \in Callback \union configured
                /\ sends[call] >= 1
  /\ arrived => waiting

DeliveryInv ==
  /\ Typed /\ Conserved /\ InOrder
  /\ OrchJobAtMostOnce /\ OkMeansDone /\ GivesUpOnlyAfterAll

\* The clamp.
LEMMA AttemptsType == Typed => Attempts \in Nat \ {0}
  BY DeliveryAssumption DEF Typed, Attempts

\* A receiver acts once more, or not at all; on a job it has it does not act.
LEMMA ReceiveFacts ==
  ASSUME DeliveryInv, NEW i \in Calls, NEW code, Receive(i, code)
  PROVE  /\ effects' = effects \/ effects' = [effects EXCEPT ![i] = effects[i] + 1]
         /\ router' \in Callback \union {"DISPATCHED", "TIMEOUT"}
         /\ code = "2xx" => effects'[i] >= 1
         /\ OrchJobAtMostOnce'
<1>1. effects \in [Calls -> Nat] /\ router \in Callback \union {"DISPATCHED", "TIMEOUT"}
  BY DEF DeliveryInv, Typed
<1>2. effects' = effects \/ effects' = [effects EXCEPT ![i] = effects[i] + 1]
  BY DEF Receive
<1>3. router' \in Callback \union {"DISPATCHED", "TIMEOUT"}
  BY <1>1 DEF Receive
<1>4. code = "2xx" => effects'[i] >= 1
  BY <1>1 DEF Receive
<1>5. OrchJobAtMostOnce'
  <2>1. CASE effects' = effects
    BY <2>1 DEF DeliveryInv, OrchJobAtMostOnce
  <2>2. CASE effects' # effects
    <3>1. ~Invalid(i) /\ effects' = [effects EXCEPT ![i] = effects[i] + 1]
      BY <2>2 DEF Receive
    <3>2. Script[i] = "orch" => effects[i] = 0
      BY <1>1, <3>1 DEF Invalid, Duplicate, Callback
    <3> QED
      BY <1>1, <3>1, <3>2 DEF DeliveryInv, OrchJobAtMostOnce
  <2> QED
    BY <2>1, <2>2
<1> QED
  BY <1>2, <1>3, <1>4, <1>5

\* The end of an attempt: of one that succeeded, was refused for good, was the last,
\* or is followed by another.
LEMMA HandleStep ==
  ASSUME DeliveryInv, waiting, NEW code, Handle(code),
         UNCHANGED <<settings, sends>>,
         effects' = effects \/ effects' = [effects EXCEPT ![call] = effects[call] + 1],
         \/ late' = late /\ (effects' # effects => ~arrived)
         \/ late' = [late EXCEPT ![call] = late[call] + 1] /\ effects' = effects /\ ~arrived,
         router' \in Callback \union {"DISPATCHED", "TIMEOUT"},
         code = "2xx" => effects'[call] >= 1,
         OrchJobAtMostOnce'
  PROVE  DeliveryInv'
<1>1. /\ call \in Calls /\ call \in Nat /\ Len(Script) \in Nat
      /\ waiting' = FALSE /\ arrived' = FALSE /\ UNCHANGED <<settings, sends>>
  BY DeliveryAssumption DEF DeliveryInv, InOrder, Handle, Calls
<1>2. \/ /\ call' = call + 1
         /\ \E v \in {"ok", "failed"} : result' = [result EXCEPT ![call] = v]
      \/ UNCHANGED <<call, result>>
  BY DEF Handle, Return
<1>3. refused \subseteq refused' /\ refused' \subseteq Calls \X {"409", "4xx"}
  BY DEF Handle, DeliveryInv, Typed
<1>4. Typed'
  <2>1. effects' \in [Calls -> Nat] /\ late' \in [Calls -> Nat]
    BY <1>1 DEF DeliveryInv, Typed
  <2>2. call' \in 1..Len(Script) + 1
    BY <1>1, <1>2 DEF DeliveryInv, Typed, Calls
  <2>3. result' \in [Calls -> {"none", "ok", "failed"}]
    BY <1>1, <1>2 DEF DeliveryInv, Typed
  <2> QED
    BY <1>1, <1>3, <2>1, <2>2, <2>3 DEF DeliveryInv, Typed, settings
<1>5. Conserved'
  <2>1. Attempts' = Attempts
    BY DEF Attempts, settings
  <2> SUFFICES ASSUME NEW i \in Calls
               PROVE  effects'[i] + late'[i] + 0 <= sends[i] /\ sends[i] <= Attempts
    BY <1>1, <2>1 DEF Conserved, UnderWay
  <2>2. /\ effects[i] \in Nat /\ late[i] \in Nat /\ sends[i] \in Nat
        /\ effects[i] + late[i] + UnderWay(i) <= sends[i] /\ sends[i] <= Attempts
    BY DEF DeliveryInv, Typed, Conserved
  <2>3. \/ effects'[i] = effects[i] /\ late'[i] = late[i]
        \/ i = call /\ ~arrived /\ effects'[i] + late'[i] = effects[i] + late[i] + 1
    BY <1>1, <2>2 DEF DeliveryInv, Typed
  <2> QED
    BY <2>2, <2>3 DEF UnderWay
<1>6. InOrder'
  BY <1>1, <1>2 DEF DeliveryInv, InOrder, Typed, Calls
<1>7. OkMeansDone'
  <2>1. \A i \in Calls : effects'[i] >= effects[i] /\ effects[i] \in Nat /\ effects'[i] \in Nat
    BY <1>1 DEF DeliveryInv, Typed
  <2>2. \A i \in Calls : result'[i] = "ok" => result[i] = "ok" \/ (i = call /\ code = "2xx")
    BY <1>1 DEF Handle, Return, Succeeded, DeliveryInv, Typed
  <2> QED
    BY <2>1, <2>2, <1>1 DEF DeliveryInv, OkMeansDone
<1>8. GivesUpOnlyAfterAll'
  <2>1. Attempts' = Attempts
    BY DEF Attempts, settings
  <2>2. \A i \in Calls : result'[i] = "failed" =>
          \/ result[i] = "failed"
          \/ i = call /\ (GivesUp(call) \/ code = "4xx")
    BY <1>1 DEF Handle, Return, Stops, DeliveryInv, Typed
  <2>3. GivesUp(call) => sends[call] = Attempts
    BY <1>1, AttemptsType DEF GivesUp, DeliveryInv, Typed, Conserved
  <2>4. code = "4xx" => <<call, "4xx">> \in refused'
    BY <1>1 DEF Handle
  <2>5. sends[call] >= 1
    BY DEF DeliveryInv, InOrder
  <2> QED
    BY <1>1, <1>3, <2>1, <2>2, <2>3, <2>4, <2>5
    DEF DeliveryInv, GivesUpOnlyAfterAll, settings
<1> QED
  BY <1>4, <1>5, <1>6, <1>7, <1>8 DEF DeliveryInv

\* A call to a service that is not configured.
LEMMA SkipStep ==
  ASSUME DeliveryInv, Skip
  PROVE  DeliveryInv'
<1>1. /\ call \in Calls /\ call \in Nat /\ Len(Script) \in Nat
      /\ call' = call + 1 /\ result' = [result EXCEPT ![call] = "failed"]
      /\ Script[call] \notin Callback \union configured
      /\ UNCHANGED <<settings, sends, waiting, arrived, late, refused, effects, router>>
  BY DeliveryAssumption, AttemptsType DEF Skip, NoRequest, Return, Calls, DeliveryInv
<1>2. waiting = FALSE /\ arrived = FALSE
  BY <1>1 DEF DeliveryInv, InOrder, Typed
<1>3. Typed'
  <2>1. call' \in 1..Len(Script) + 1
    BY <1>1 DEF Calls
  <2>2. result' \in [Calls -> {"none", "ok", "failed"}]
    BY <1>1 DEF DeliveryInv, Typed
  <2> QED
    BY <1>1, <2>1, <2>2 DEF DeliveryInv, Typed, settings
<1>4. Conserved'
  BY <1>1, <1>2 DEF DeliveryInv, Conserved, UnderWay, Attempts, settings
<1>5. InOrder'
  BY <1>1, <1>2 DEF DeliveryInv, InOrder, Typed, Calls
<1>6. \A i \in Calls : i # call => result'[i] = result[i]
  BY <1>1 DEF DeliveryInv, Typed
<1>7. result'[call] = "failed"
  BY <1>1 DEF DeliveryInv, Typed
<1>8. OrchJobAtMostOnce' /\ OkMeansDone' /\ GivesUpOnlyAfterAll'
  BY <1>1, <1>6, <1>7
  DEF DeliveryInv, OrchJobAtMostOnce, OkMeansDone, GivesUpOnlyAfterAll, Attempts, settings
<1> QED
  BY <1>3, <1>4, <1>5, <1>8 DEF DeliveryInv

\* One more request.
LEMMA SendStep ==
  ASSUME DeliveryInv, Send
  PROVE  DeliveryInv'
<1>1. /\ call \in Calls /\ sends[call] \in Nat /\ sends[call] < Attempts /\ Attempts \in Nat
      /\ waiting = FALSE /\ waiting' = TRUE /\ arrived = FALSE
      /\ sends' = [sends EXCEPT ![call] = sends[call] + 1]
      /\ Script[call] \in Callback \union configured
      /\ UNCHANGED <<settings, call, arrived, late, refused, result, effects, router>>
  BY AttemptsType DEF Send, NoRequest, DeliveryInv, Typed, InOrder
<1>2. Typed'
  BY <1>1 DEF DeliveryInv, Typed, settings
<1>3. Conserved'
  <2>1. Attempts' = Attempts
    BY <1>1 DEF Attempts, settings
  <2> SUFFICES ASSUME NEW i \in Calls
               PROVE  /\ effects[i] + late[i] + (IF i = call THEN 1 ELSE 0) <= sends'[i]
                      /\ sends'[i] <= Attempts
    BY <1>1, <2>1 DEF Conserved, UnderWay
  <2>2. /\ effects[i] \in Nat /\ late[i] \in Nat /\ sends[i] \in Nat
        /\ effects[i] + late[i] + 0 <= sends[i] /\ sends[i] <= Attempts
    BY <1>1 DEF DeliveryInv, Typed, Conserved, UnderWay
  <2>3. sends'[i] = IF i = call THEN sends[i] + 1 ELSE sends[i]
    BY <1>1 DEF DeliveryInv, Typed
  <2> QED
    BY <1>1, <2>2, <2>3
<1>4. InOrder'
  <2>1. sends'[call] >= 1
    BY <1>1 DEF DeliveryInv, Typed
  <2> QED
    BY <1>1, <2>1 DEF DeliveryInv, InOrder, settings
<1>5. GivesUpOnlyAfterAll'
  <2>1. \A i \in Calls : result[i] = "failed" => i # call
    BY <1>1 DEF DeliveryInv, InOrder, Typed, Calls
  <2>2. \A i \in Calls : i # call => sends'[i] = sends[i]
    BY <1>1 DEF DeliveryInv, Typed
  <2> QED
    BY <1>1, <2>1, <2>2 DEF DeliveryInv, GivesUpOnlyAfterAll, Attempts, settings
<1> QED
  BY <1>1, <1>2, <1>3, <1>4, <1>5 DEF DeliveryInv, OrchJobAtMostOnce, OkMeansDone

\* A receiver acts while nobody waits for it, or on a request whose answer is lost.
LEMMA UnheardStep ==
  ASSUME DeliveryInv, NEW i \in Calls, NEW code, Receive(i, code),
         UNCHANGED <<settings, call, sends, waiting, refused, result>>,
         \/ late' = late /\ i = call /\ waiting /\ ~arrived /\ arrived' = TRUE
         \/ late[i] > 0 /\ late' = [late EXCEPT ![i] = late[i] - 1] /\ arrived' = arrived
  PROVE  DeliveryInv'
<1>1. /\ effects' = effects \/ effects' = [effects EXCEPT ![i] = effects[i] + 1]
      /\ router' \in Callback \union {"DISPATCHED", "TIMEOUT"}
      /\ OrchJobAtMostOnce'
  BY ReceiveFacts
<1>2. effects \in [Calls -> Nat] /\ late \in [Calls -> Nat]
  BY DEF DeliveryInv, Typed
<1>3. Typed'
  <2>1. effects' \in [Calls -> Nat] /\ late' \in [Calls -> Nat]
    BY <1>1, <1>2
  <2>2. arrived' \in BOOLEAN
    BY DEF DeliveryInv, Typed
  <2> QED
    BY <1>1, <2>1, <2>2 DEF DeliveryInv, Typed, settings
<1>4. Conserved'
  <2> SUFFICES ASSUME NEW k \in Calls
               PROVE  effects'[k] + late'[k] + UnderWay(k)' <= sends[k] /\ sends[k] <= Attempts
    BY DEF Conserved, Attempts, settings
  <2>1. /\ effects[k] \in Nat /\ late[k] \in Nat /\ sends[k] \in Nat
        /\ effects[k] + late[k] + UnderWay(k) <= sends[k] /\ sends[k] <= Attempts
    BY DEF DeliveryInv, Typed, Conserved
  <2>2. effects'[k] \in {effects[k], effects[k] + 1} /\ (k # i => effects'[k] = effects[k])
    BY <1>1, <1>2
  <2>3. CASE late' = late /\ i = call /\ waiting /\ ~arrived /\ arrived' = TRUE
    BY <2>1, <2>2, <2>3 DEF UnderWay
  <2>4. CASE late[i] > 0 /\ late' = [late EXCEPT ![i] = late[i] - 1] /\ arrived' = arrived
    <3>1. late'[k] = IF k = i THEN late[k] - 1 ELSE late[k]
      BY <1>2, <2>4
    <3>2. UnderWay(k)' = UnderWay(k) /\ UnderWay(k) \in {0, 1}
      BY <2>4 DEF UnderWay
    <3> QED
      BY <2>1, <2>2, <3>1, <3>2
  <2> QED
    BY <2>3, <2>4
<1>5. InOrder'
  BY DEF DeliveryInv, InOrder, settings
<1>6. OkMeansDone'
  <2>1. \A k \in Calls : effects'[k] >= effects[k] /\ effects[k] \in Nat /\ effects'[k] \in Nat
    BY <1>1, <1>2
  <2> QED
    BY <2>1 DEF DeliveryInv, OkMeansDone
<1>7. GivesUpOnlyAfterAll'
  BY DEF DeliveryInv, GivesUpOnlyAfterAll, Attempts, settings
<1> QED
  BY <1>1, <1>3, <1>4, <1>5, <1>6, <1>7 DEF DeliveryInv

LEMMA DeliveryKeeps == DeliveryInv /\ [Next]_vars => DeliveryInv'
<1> SUFFICES ASSUME DeliveryInv, [Next]_vars PROVE DeliveryInv'
  OBVIOUS
<1>1. CASE UNCHANGED vars
  BY <1>1
  DEF vars, settings, DeliveryInv, Typed, Conserved, UnderWay, Attempts, InOrder,
      OrchJobAtMostOnce, OkMeansDone, GivesUpOnlyAfterAll
<1>2. CASE Sweep
  BY <1>2
  DEF Sweep, settings, clientVars, DeliveryInv, Typed, Conserved, UnderWay, Attempts, InOrder,
      OrchJobAtMostOnce, OkMeansDone, GivesUpOnlyAfterAll
<1>3. ASSUME NEW code \in Code, Answer(code) PROVE DeliveryInv'
  <2>1. call \in Calls /\ waiting /\ ~arrived /\ Receive(call, code) /\ Handle(code)
        /\ UNCHANGED <<settings, sends, late>>
    BY <1>3 DEF Answer, DeliveryInv, InOrder
  <2> QED
    BY <2>1, ReceiveFacts, HandleStep
<1>4. CASE TransportError
  <2>1. /\ waiting /\ Handle("error") /\ UNCHANGED <<settings, sends, effects, router>>
        /\ \/ late' = late
           \/ ~arrived /\ late' = [late EXCEPT ![call] = late[call] + 1]
    BY <1>4, Zenon DEF TransportError
  <2>2. router' \in Callback \union {"DISPATCHED", "TIMEOUT"} /\ OrchJobAtMostOnce'
    BY <2>1 DEF DeliveryInv, Typed, OrchJobAtMostOnce
  <2> QED
    BY <2>1, <2>2, HandleStep
<1>5. ASSUME NEW code \in Code, LoseAnswer(code) PROVE DeliveryInv'
  <2>1. call \in Calls
    BY <1>5 DEF LoseAnswer, DeliveryInv, InOrder
  <2> QED
    BY <1>5, <2>1, UnheardStep DEF LoseAnswer
<1>6. ASSUME NEW i \in Calls, NEW code \in Code, ArriveLate(i, code) PROVE DeliveryInv'
  BY <1>6, UnheardStep DEF ArriveLate, clientVars
<1> QED
  BY <1>1, <1>2, <1>3, <1>4, <1>5, <1>6, SkipStep, SendStep DEF Next, Client

THEOREM DeliveryInvariant == Spec => []DeliveryInv
<1>1. Init => DeliveryInv
  <2> SUFFICES ASSUME Init PROVE DeliveryInv
    OBVIOUS
  <2>1. Len(Script) \in Nat
    BY DeliveryAssumption
  <2>2. Typed
    <3>1. 1 \in 1..Len(Script) + 1 /\ {} \subseteq Calls \X {"409", "4xx"}
      BY <2>1
    <3>2. callback_retry_attempts \in RetryAttempts /\ configured \subseteq {"orch", "dispatcher"}
      BY DEF Init
    <3> QED
      BY <3>1, <3>2 DEF Init, Typed
  <2>3. Conserved
    BY <2>2, AttemptsType DEF Init, Conserved, UnderWay
  <2> QED
    BY <2>1, <2>2, <2>3
    DEF Init, DeliveryInv, InOrder, Calls, OrchJobAtMostOnce, OkMeansDone, GivesUpOnlyAfterAll
<1> QED
  BY <1>1, DeliveryKeeps, PTL DEF Spec

\* No call sends more requests, and no receiver acts more often, than the setting says.
THEOREM DeliveryTypeCorrect == Spec => []DeliveryTypeOK
<1>1. DeliveryInv => DeliveryTypeOK
  <2> SUFFICES ASSUME DeliveryInv PROVE DeliveryTypeOK
    OBVIOUS
  <2>1. Attempts \in Nat
    BY AttemptsType DEF DeliveryInv
  <2>2. ASSUME NEW i \in Calls
        PROVE  sends[i] \in 0..Attempts /\ late[i] \in 0..Attempts /\ effects[i] \in 0..Attempts
    <3>1. UnderWay(i) \in {0, 1}
      BY DEF UnderWay
    <3>2. /\ effects[i] \in Nat /\ late[i] \in Nat /\ sends[i] \in Nat
          /\ effects[i] + late[i] + UnderWay(i) <= sends[i] /\ sends[i] <= Attempts
      BY DEF DeliveryInv, Typed, Conserved
    <3> QED
      BY <2>1, <3>1, <3>2
  <2> QED
    BY <2>2 DEF DeliveryInv, Typed, DeliveryTypeOK
<1> QED
  BY <1>1, DeliveryInvariant, PTL

\* The orchestrator creates at most one job for a sub-job.
THEOREM OneOrchJob == Spec => []OrchJobAtMostOnce
  BY DeliveryInvariant, PTL DEF DeliveryInv

\* A call that says "ok" was acted on.
THEOREM OkCallsDone == Spec => []OkMeansDone
  BY DeliveryInvariant, PTL DEF DeliveryInv

\* A call to a configured service is tried, and fails only after a refusal or all of
\* its attempts.
THEOREM FailedCallsExhausted == Spec => []GivesUpOnlyAfterAll
  BY DeliveryInvariant, PTL DEF DeliveryInv
=============================================================================
