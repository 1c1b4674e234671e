------------------------- MODULE EndpointCallProofs -------------------------
(***************************************************************************)
(* Proofs about EndpointCall, for every configuration of endpoints, every  *)
(* retry policy and every bound.  The inductive invariant has one part for *)
(* each question: how many requests were sent, how long the call may still *)
(* wait, and what the result of an attempt says about its cause.           *)
(***************************************************************************)
EXTENDS EndpointCall, TLAPS

\* The numbers of a call: instants and durations, and what it counts.
NumType ==
    /\ now \in Nat /\ now <= MaxInstant /\ gate \in Nat /\ gate <= now
    /\ timeout_ms \in Int /\ timeout_ms >= -1 /\ limit \in Int /\ limit >= -1
    /\ expires_at \in Int /\ expires_at >= -1 /\ deadline \in Int /\ deadline >= -1
    /\ sends \in Nat /\ attempt \in Nat /\ wake \in Nat

\* The rest of the type invariant.
DataType ==
    /\ client \in Clients /\ pc \in Phases
    /\ class \in ErrorClasses \cup {"none", "Ok"}
    /\ cause \in MhcErrors \cup ErrorClasses \cup
           {"none", "fresh_transport", "clock overflow", "deadline", "limit"}
    /\ status \in Statuses \cup {0} /\ content_length \in Option(Sizes)
    /\ body \in Sizes
    /\ endpoint \in Endpoints /\ request_body \in BodyTypes \cup {"Absent"}
    /\ result \in Results

\* The phases in which the request of the current attempt is not sent yet.
Unsent == {"loop", "transport", "request", "sleep"}

\* Every attempt sends at most one request, and the loop variable stays within
\* max_attempts (the for loop of execute_endpoint).
CountInv ==
    /\ pc = "start" => attempt = 0 /\ sends = 0
    /\ attempt <= endpoint.max_attempts
    /\ sends <= attempt
    /\ pc \in Unsent => sends < attempt
    /\ pc # "done" => result = "none"

\* What the timeout handed to the transport is worth before the transport
\* turns it into a deadline of its own.
BudgetInv ==
    deadline # None =>
        /\ pc = "sleep" => wake <= deadline
        /\ pc = "transport" => /\ timeout_ms # None
                               /\ now <= gate + MaxSetup
                               /\ gate + 2 * timeout_ms <= deadline
        /\ Attempting => /\ expires_at # None
                         /\ expires_at <= deadline + MaxSetup

\* The response is longer than the limit.
TooLong == limit # None /\ (content_length > limit \/ body > limit)

\* What an attempt's result says about what caused it.
AnswerInv ==
    /\ pc \in {"result", "respond"} => class # "none"
    /\ class = "Network" => cause \in {"Unreachable", "Tls", "Cancelled", "Dns",
                                       "QuicHandshake", "Network"}
    /\ class = "Timeout" => cause \in {"Timeout", "deadline"}
    /\ class = "BodyTooLarge" => TooLong \/ cause = "BodyTooLarge"
    /\ result = "InvalidData" => TooLong \/ cause = "BodyTooLarge"
    /\ result = "ok" => ~TooLong
    /\ pc \in {"start", "loop", "sleep", "transport", "request", "headers", "body",
               "custom"} => class = "none"

\* The body of the request under way was not refused.
BodyInv ==
    pc \in {"transport", "request", "headers", "body", "custom"} => build_body # "invalid"

IInv == NumType /\ DataType /\ CountInv /\ BudgetInv /\ AnswerInv /\ BodyInv

-----------------------------------------------------------------------------
(* The constants.                                                          *)

\* The fields of a configured endpoint (mechanics-config's HttpEndpoint).
LEMMA EndpointFields ==
    ASSUME NEW e \in Endpoints
    PROVE  /\ e.timeout_ms \in Int /\ e.timeout_ms >= -1
           /\ e.default_timeout_ms \in Int /\ e.default_timeout_ms >= -1
           /\ e.response_max_bytes \in Int /\ e.response_max_bytes >= -1
           /\ e.default_response_max_bytes \in Int /\ e.default_response_max_bytes >= -1
           /\ e.request_body_type \in BodyTypes
           /\ e.max_attempts \in Nat /\ e.max_attempts > 0
  BY CallAssumption DEF EndpointType, Option, None

\* Or is Option::or of two optional numbers.
LEMMA OrOption ==
    ASSUME NEW a \in Int, a >= -1, NEW b \in Int, b >= -1
    PROVE  Or(a, b) \in Int /\ Or(a, b) >= -1
  BY DEF Or

\* The lengths of an answer that has not come yet.
LEMMA EmptyAnswer == 0 \in Sizes /\ None \in Option(Sizes)
  BY TransportAssumption DEF Sizes, Option

\* The two parts are the type invariant of EndpointCall.
LEMMA TypeParts == NumType /\ DataType => TypeOK
<1> SUFFICES ASSUME NumType, DataType PROVE TypeOK
  OBVIOUS
<1>1. now \in 0..MaxInstant /\ gate \in 0..now
  BY TransportAssumption DEF NumType
<1>2. /\ timeout_ms \in Option(Nat) /\ limit \in Option(Nat)
      /\ expires_at \in Option(Nat) /\ deadline \in Option(Nat)
  BY DEF NumType, Option, None
<1>3. sends \in Nat /\ attempt \in Nat /\ wake \in Nat
  BY DEF NumType
<1>4. QED  BY <1>1, <1>2, <1>3, Zenon DEF DataType, TypeOK

\* as_millis, with a clock of half milliseconds.
LEMMA Half ==
    ASSUME NEW n \in Nat
    PROVE  /\ n \div 2 \in Nat /\ 2 * (n \div 2) <= n
           /\ n \div 2 # 0 => n # 0
  OBVIOUS

\* What is left of the call's time is a duration (saturating_duration_since).
LEMMA RemainingFacts ==
    ASSUME NumType, deadline # None
    PROVE  /\ remaining \in Nat
           /\ remaining_ms \in Nat
           /\ remaining # 0 => now + remaining = deadline
           /\ remaining_ms # 0 => now + 2 * remaining_ms <= deadline
<1>1. /\ remaining \in Nat
      /\ remaining # 0 => now + remaining = deadline
      /\ deadline \in Nat /\ now \in Nat
  BY DEF remaining, NumType, None
<1>2. remaining_ms = remaining \div 2
  BY DEF remaining_ms
<1>3. /\ remaining_ms \in Nat /\ 2 * remaining_ms <= remaining
      /\ remaining_ms # 0 => remaining # 0
  BY <1>1, <1>2, Half, SMTT(30)
<1> HIDE DEF remaining, remaining_ms
<1>4. QED  BY <1>1, <1>3

-----------------------------------------------------------------------------
(* The steps.                                                              *)

\* Every step keeps the numbers in their ranges.
LEMMA NumStep == NumType /\ DataType /\ [Next]_vars => NumType'
<1> SUFFICES ASSUME NumType, DataType, [Next]_vars PROVE NumType'
  OBVIOUS
<1> USE DEF NumType
<1>1. CASE Call
  <2> DEFINE t == Or(endpoint.timeout_ms, endpoint.default_timeout_ms)
            m == Or(endpoint.response_max_bytes, endpoint.default_response_max_bytes)
  <2>1. t \in Int /\ t >= -1 /\ m \in Int /\ m >= -1
    BY EndpointFields, OrOption DEF DataType
  <2>2. \/ UNCHANGED <<now, timeout_ms, limit, gate, expires_at, sends, deadline, attempt,
                       wake>>
        \/ /\ UNCHANGED <<now, timeout_ms, gate, expires_at, sends, wake>>
           /\ attempt' = 1 /\ limit' = m
           /\ deadline' = IF t # None /\ now + 2 * t <= ClockMax THEN now + 2 * t ELSE None
    BY <1>1 DEF Call, Finish
  <2> HIDE DEF t, m
  <2>3. QED  BY <2>1, <2>2 DEF None
<1>2. CASE StartAttempt
  <2>1. remaining_ms \in Int /\ remaining_ms >= -1
    BY RemainingFacts DEF remaining_ms, None
  <2>2. \/ UNCHANGED <<now, timeout_ms, limit, gate, expires_at, sends, deadline, attempt,
                       wake>>
        \/ /\ UNCHANGED <<now, limit, deadline, attempt, wake>>
           /\ timeout_ms' = remaining_ms /\ gate' = now /\ expires_at' = None
           /\ sends' = sends \/ sends' = sends + 1
    BY <1>2 DEF StartAttempt, Finish, callVars
  <2>3. QED  BY <2>1, <2>2 DEF None
<1>3. CASE AttemptDone
  <2>1. CASE Backoff
    <3>1. PICK delay \in RetryDelays :
              wake' = 0 \/ wake' = now + IF deadline # None /\ remaining < delay
                                         THEN remaining ELSE delay
      BY <2>1 DEF Backoff
    <3>2. delay \in Nat /\ (deadline # None => remaining \in Nat)
      BY CallAssumption, RemainingFacts
    <3>3. wake' \in Nat
      BY <3>1, <3>2
    <3>4. /\ UNCHANGED <<now, limit, sends, deadline>> /\ attempt' = attempt + 1
          /\ timeout_ms' = None /\ gate' = 0 /\ expires_at' = None
      BY <2>1 DEF Backoff, DropAnswer
    <3>5. QED  BY <3>3, <3>4 DEF None
  <2>2. CASE UNCHANGED <<now, timeout_ms, limit, gate, expires_at, sends, deadline, attempt,
                         wake>>
    BY <2>2
  <2>3. QED  BY <1>3, <2>1, <2>2 DEF AttemptDone, Finish, callVars
<1>4. CASE Wake
  BY <1>4 DEF Wake, Finish, callVars
<1>5. CASE Respond
  BY <1>5, ZenonT(30) DEF Respond, Finish, callVars
<1>6. CASE Tick /\ UNCHANGED callVars
  BY <1>6, TransportAssumption DEF Tick, callVars
<1>7. CASE FreshTransport /\ UNCHANGED callVars
  <2>1. /\ UNCHANGED <<now, timeout_ms, limit, gate, sends, deadline, attempt, wake>>
        /\ \/ UNCHANGED expires_at
           \/ expires_at' = IF timeout_ms = None THEN None ELSE now + 2 * timeout_ms
    BY <1>7, Zenon DEF FreshTransport, Fail, callVars
  <2>2. QED  BY <2>1 DEF None
<1>8. CASE SendRequest /\ UNCHANGED callVars
  BY <1>8 DEF SendRequest, Fail, callVars
<1>9. CASE TimeoutFires /\ UNCHANGED callVars
  BY <1>9 DEF TimeoutFires, Fail, callVars
<1>10. CASE (\E code \in Statuses, length \in Option(Sizes) : HeadersArrive(code, length)) /\ UNCHANGED callVars
  BY <1>10 DEF HeadersArrive, Fail, callVars
<1>11. CASE (\E length \in Sizes : BodyArrives(length)) /\ UNCHANGED callVars
  BY <1>11 DEF BodyArrives, Fail, callVars
<1>12. CASE (\E e \in MhcErrors : MhcFails(e)) /\ UNCHANGED callVars
  BY <1>12 DEF MhcFails, Fail, callVars
<1>13. CASE CustomAnswers /\ UNCHANGED callVars
  BY <1>13 DEF CustomAnswers, Fail, callVars
<1>14. CASE UNCHANGED vars
  BY <1>14 DEF vars, transportVars, callVars
<1>15. QED
  BY <1>1, <1>2, <1>3, <1>4, <1>5, <1>6, <1>7,
     <1>8, <1>9, <1>10, <1>11, <1>12, <1>13, <1>14
     DEF Next, CallStep, TransportStep, Answers

\* Every step keeps the other types.
LEMMA DataStep == DataType /\ [Next]_vars => DataType'
<1> SUFFICES ASSUME DataType, [Next]_vars PROVE DataType'
  OBVIOUS
<1> USE DEF DataType
<1>1. CASE Call
  <2>1. \A js \in JsBodies : parse_body(js) \in BodyTypes \cup {"Absent"}
    BY DEF parse_body, BodyTypes
  <2>2. QED  BY <1>1, <2>1, Zenon DEF Call, Finish, Results, Phases
<1>2. CASE StartAttempt
  BY <1>2, Zenon DEF StartAttempt, Finish, Results, Phases, callVars
<1>3. CASE AttemptDone
  <2>1. CASE Backoff
    <3>1. /\ UNCHANGED <<client, endpoint, request_body, result>>
          /\ pc' \in {"loop", "sleep"}
          /\ class' = "none" /\ cause' = "none" /\ status' = 0
          /\ content_length' = None /\ body' = 0
      BY <2>1 DEF Backoff, DropAnswer
    <3>2. QED  BY <3>1, EmptyAnswer, Zenon DEF Phases
  <2>2. CASE Finish(into_io_error(class))
    <3>1. into_io_error(class) \in Results
      BY DEF into_io_error, Results
    <3>2. QED  BY <2>2, <3>1, Zenon DEF Finish, Phases
  <2>3. CASE pc' = "respond" /\ UNCHANGED <<client, class, cause, status, content_length,
                                            body, endpoint, request_body, result>>
    BY <2>3, Zenon DEF Phases
  <2>4. QED  BY <1>3, <2>1, <2>2, <2>3, Zenon DEF AttemptDone, callVars
<1>4. CASE Wake
  BY <1>4, ZenonT(30) DEF Wake, Finish, Results, Phases, callVars
<1>5. CASE Respond
  BY <1>5, ZenonT(30) DEF Respond, Finish, Results, Phases, callVars
<1>6. CASE Tick /\ UNCHANGED callVars
  BY <1>6, ZenonT(30) DEF Tick, Fail, callVars, Phases, ErrorClasses
<1>7. CASE FreshTransport /\ UNCHANGED callVars
  <2>1. /\ UNCHANGED <<client, status, content_length, body, endpoint, request_body, result>>
        /\ \/ pc' = "request" /\ UNCHANGED <<class, cause>>
           \/ pc' = "result" /\ class' = "Other" /\ cause' = "fresh_transport"
           \/ pc' = "result" /\ class' = "InvalidRequest" /\ cause' = "clock overflow"
    BY <1>7, Zenon DEF FreshTransport, Fail, callVars
  <2>2. QED  BY <2>1, Zenon DEF Phases, ErrorClasses
<1>8. CASE SendRequest /\ UNCHANGED callVars
  BY <1>8, Zenon DEF SendRequest, Fail, callVars, Phases, ErrorClasses
<1>9. CASE TimeoutFires /\ UNCHANGED callVars
  BY <1>9, Zenon DEF TimeoutFires, Fail, callVars, Phases, ErrorClasses
<1>10. CASE (\E code \in Statuses, length \in Option(Sizes) : HeadersArrive(code, length)) /\ UNCHANGED callVars
  BY <1>10, Zenon DEF HeadersArrive, Fail, callVars, Phases, ErrorClasses
<1>11. CASE (\E length \in Sizes : BodyArrives(length)) /\ UNCHANGED callVars
  BY <1>11, Zenon DEF BodyArrives, Fail, callVars, Phases, ErrorClasses
<1>12. CASE (\E e \in MhcErrors : MhcFails(e)) /\ UNCHANGED callVars
  <2>1. PICK e \in MhcErrors : Fail(classify_mhc_error(e), e)
    BY <1>12, Zenon DEF MhcFails
  <2>2. classify_mhc_error(e) \in ErrorClasses
    BY DEF classify_mhc_error, ErrorClasses
  <2>3. QED  BY <1>12, <2>1, <2>2, Zenon DEF Fail, callVars, Phases
<1>13. CASE CustomAnswers /\ UNCHANGED callVars
  BY <1>13, Zenon DEF CustomAnswers, Fail, callVars, Phases, ErrorClasses
<1>14. CASE UNCHANGED vars
  BY <1>14, Zenon DEF vars, transportVars, callVars
<1>15. QED
  BY <1>1, <1>2, <1>3, <1>4, <1>5, <1>6, <1>7,
     <1>8, <1>9, <1>10, <1>11, <1>12, <1>13, <1>14
     DEF Next, CallStep, TransportStep, Answers

\* Every step keeps the count of attempts and requests.
LEMMA CountStep == NumType /\ DataType /\ CountInv /\ [Next]_vars => CountInv'
<1> SUFFICES ASSUME NumType, DataType, CountInv, [Next]_vars PROVE CountInv'
  OBVIOUS
<1> USE DEF CountInv, Unsent
<1>0. /\ endpoint.max_attempts \in Nat /\ endpoint.max_attempts > 0
      /\ sends \in Nat /\ attempt \in Nat
  BY EndpointFields DEF NumType, DataType
<1>1. CASE Call
  <2>1. pc = "start" /\ UNCHANGED <<sends, endpoint>>
    BY <1>1 DEF Call, Finish
  <2>2. \/ pc' = "done" /\ attempt' = attempt
        \/ pc' = "loop" /\ attempt' = 1 /\ result' = result
    BY <1>1 DEF Call, Finish
  <2>3. QED  BY <1>0, <2>1, <2>2
<1>2. CASE StartAttempt
  <2>1. pc = "loop" /\ UNCHANGED <<endpoint, attempt>>
    BY <1>2 DEF StartAttempt, Finish, callVars
  <2>2. \/ pc' = "done" /\ sends' = sends
        \/ pc' = "transport" /\ sends' = sends /\ result' = result
        \/ pc' = "custom" /\ sends' \in {sends, sends + 1} /\ result' = result
    BY <1>2 DEF StartAttempt, Finish, callVars
  <2>3. QED  BY <1>0, <2>1, <2>2
<1>3. CASE AttemptDone
  <2>1. CASE Retries /\ Backoff
    <3>1. attempt' = attempt + 1 /\ pc' \in {"loop", "sleep"} /\ attempt < endpoint.max_attempts
      BY <2>1 DEF Retries, Backoff
    <3>2. UNCHANGED <<sends, endpoint, result>> /\ pc = "result"
      BY <1>3, <2>1 DEF AttemptDone, Backoff
    <3>3. QED  BY <1>0, <3>1, <3>2
  <2>2. CASE ~Retries /\ class # "Ok" /\ Finish(into_io_error(class))
    BY <1>3, <2>2 DEF Finish, AttemptDone
  <2>3. CASE pc' = "respond" /\ UNCHANGED <<sends, endpoint, attempt, result>>
    BY <1>3, <2>3 DEF AttemptDone
  <2>4. QED  BY <1>3, <2>1, <2>2, <2>3, Zenon DEF AttemptDone, callVars
<1>4. CASE Wake
  BY <1>0, <1>4 DEF Wake, Finish, callVars
<1>5. CASE Respond
  BY <1>0, <1>5, ZenonT(30) DEF Respond, Finish, callVars
<1>6. CASE Tick /\ UNCHANGED callVars
  BY <1>0, <1>6 DEF Tick, Fail, callVars
<1>7. CASE FreshTransport /\ UNCHANGED callVars
  BY <1>0, <1>7 DEF FreshTransport, Fail, callVars
<1>8. CASE SendRequest /\ UNCHANGED callVars
  BY <1>0, <1>8 DEF SendRequest, Fail, callVars
<1>9. CASE TimeoutFires /\ UNCHANGED callVars
  BY <1>0, <1>9 DEF TimeoutFires, Fail, callVars
<1>10. CASE (\E code \in Statuses, length \in Option(Sizes) : HeadersArrive(code, length)) /\ UNCHANGED callVars
  BY <1>0, <1>10 DEF HeadersArrive, Fail, callVars
<1>11. CASE (\E length \in Sizes : BodyArrives(length)) /\ UNCHANGED callVars
  BY <1>0, <1>11 DEF BodyArrives, Fail, callVars
<1>12. CASE (\E e \in MhcErrors : MhcFails(e)) /\ UNCHANGED callVars
  BY <1>0, <1>12 DEF MhcFails, Fail, callVars
<1>13. CASE CustomAnswers /\ UNCHANGED callVars
  BY <1>0, <1>13 DEF CustomAnswers, Fail, callVars
<1>14. CASE UNCHANGED vars
  BY <1>0, <1>14, SMTT(30) DEF vars, transportVars, callVars
<1>15. QED
  BY <1>1, <1>2, <1>3, <1>4, <1>5, <1>6, <1>7,
     <1>8, <1>9, <1>10, <1>11, <1>12, <1>13, <1>14
     DEF Next, CallStep, TransportStep, Answers

\* Every step keeps the waits within the budget: the only new deadlines are
\* those of a retry sleep and of the transport.
LEMMA BudgetStep == NumType /\ BudgetInv /\ [Next]_vars => BudgetInv'
<1> SUFFICES ASSUME NumType, BudgetInv, [Next]_vars PROVE BudgetInv'
  OBVIOUS
<1> USE DEF BudgetInv, Attempting
<1>1. CASE Call
  BY <1>1 DEF Call, Finish
<1>2. CASE StartAttempt
  <2>1. CASE deadline # None /\ pc' = "transport"
    <3>1. timeout_ms' = remaining_ms /\ gate' = now /\ remaining_ms # 0
      BY <1>2, <2>1 DEF StartAttempt, Finish
    <3>2. now + 2 * remaining_ms <= deadline
      BY <2>1, <3>1, RemainingFacts
    <3>3. remaining_ms # None
      BY <2>1, RemainingFacts DEF None
    <3>4. UNCHANGED <<now, deadline>>
      BY <1>2 DEF StartAttempt, Finish, callVars
    <3>5. QED  BY <2>1, <3>1, <3>2, <3>3, <3>4, TransportAssumption DEF NumType
  <2>2. CASE ~(deadline # None /\ pc' = "transport")
    BY <1>2, <2>2 DEF StartAttempt, Finish, callVars
  <2>3. QED  BY <2>1, <2>2
<1>3. CASE AttemptDone
  <2>1. CASE Retries /\ Backoff
    <3>1. CASE deadline # None /\ pc' = "sleep"
      <4>1. PICK delay \in RetryDelays :
                LET bounded == IF deadline # None /\ remaining < delay
                               THEN remaining ELSE delay
                IN bounded # 0 /\ wake' = now + bounded
        BY <2>1, <3>1 DEF Backoff
      <4>2. delay \in Nat /\ remaining \in Nat
        BY <3>1, CallAssumption, RemainingFacts
      <4>3. remaining # 0 /\ wake' <= now + remaining
        BY <3>1, <4>1, <4>2 DEF NumType
      <4>4. wake' <= deadline
        BY <3>1, <4>3, RemainingFacts DEF NumType
      <4>5. QED  BY <2>1, <3>1, <4>4 DEF Backoff
    <3>2. CASE ~(deadline # None /\ pc' = "sleep")
      BY <2>1, <3>2 DEF Backoff
    <3>3. QED  BY <3>1, <3>2
  <2>2. CASE ~Retries
    BY <1>3, <2>2 DEF AttemptDone, Finish, callVars
  <2>3. QED  BY <1>3, <2>1, <2>2 DEF AttemptDone
<1>4. CASE Wake
  BY <1>4 DEF Wake, Finish
<1>5. CASE Respond
  BY <1>5, Zenon DEF Respond, Finish
<1>6. CASE Tick /\ UNCHANGED callVars
  BY <1>6, TransportAssumption DEF Tick, callVars, NumType
<1>7. CASE FreshTransport /\ UNCHANGED callVars
  <2>1. CASE deadline # None /\ pc' = "request"
    <3>1. pc = "transport" /\ expires_at' = now + 2 * timeout_ms /\ UNCHANGED deadline
      BY <1>7, <2>1 DEF FreshTransport, Fail, callVars
    <3>2. timeout_ms \in Nat /\ gate \in Nat /\ deadline \in Nat /\ now \in Nat
      BY <2>1, <3>1 DEF NumType, None
    <3>3. now + 2 * timeout_ms <= deadline + MaxSetup
      BY <2>1, <3>1, <3>2, TransportAssumption
    <3>4. expires_at' # None
      BY <3>1, <3>2 DEF None
    <3>5. QED  BY <2>1, <3>1, <3>3, <3>4
  <2>2. CASE ~(deadline # None /\ pc' = "request")
    BY <1>7, <2>2 DEF FreshTransport, Fail, callVars
  <2>3. QED  BY <2>1, <2>2
<1>8. CASE SendRequest /\ UNCHANGED callVars
  BY <1>8 DEF SendRequest, Fail, callVars
<1>9. CASE TimeoutFires /\ UNCHANGED callVars
  BY <1>9 DEF TimeoutFires, Fail, callVars
<1>10. CASE (\E code \in Statuses, length \in Option(Sizes) : HeadersArrive(code, length)) /\ UNCHANGED callVars
  BY <1>10 DEF HeadersArrive, Fail, callVars
<1>11. CASE (\E length \in Sizes : BodyArrives(length)) /\ UNCHANGED callVars
  BY <1>11 DEF BodyArrives, Fail, callVars
<1>12. CASE (\E e \in MhcErrors : MhcFails(e)) /\ UNCHANGED callVars
  BY <1>12 DEF MhcFails, Fail, callVars
<1>13. CASE CustomAnswers /\ UNCHANGED callVars
  BY <1>13 DEF CustomAnswers, Fail, callVars
<1>14. CASE UNCHANGED vars
  BY <1>14, SMTT(30) DEF vars, transportVars, callVars
<1>15. QED
  BY <1>1, <1>2, <1>3, <1>4, <1>5, <1>6, <1>7,
     <1>8, <1>9, <1>10, <1>11, <1>12, <1>13, <1>14
     DEF Next, CallStep, TransportStep, Answers

\* Every step keeps what a result says of its cause.
LEMMA AnswerStep == CountInv /\ AnswerInv /\ [Next]_vars => AnswerInv'
<1> SUFFICES ASSUME CountInv, AnswerInv, [Next]_vars PROVE AnswerInv'
  OBVIOUS
<1> USE DEF AnswerInv, TooLong
<1>1. CASE Call
  <2>1. result = "none" /\ class = "none"
    BY <1>1 DEF Call, CountInv
  <2>2. QED  BY <1>1, <2>1, Zenon DEF Call, Finish
<1>2. CASE StartAttempt
  BY <1>2 DEF StartAttempt, Finish, callVars
<1>3. CASE AttemptDone
  <2>1. CASE Retries /\ Backoff
    <3>1. /\ class' = "none" /\ pc' \in {"loop", "sleep"} /\ UNCHANGED <<limit, result>>
          /\ content_length' = None /\ body' = 0
      BY <2>1 DEF Backoff, DropAnswer
    <3>2. result = "none"
      BY <1>3 DEF AttemptDone, CountInv
    <3>3. QED  BY <3>1, <3>2
  <2>2. CASE ~Retries /\ class # "Ok" /\ Finish(into_io_error(class))
    <3>1. into_io_error(class) = "InvalidData" => class = "BodyTooLarge"
      BY DEF into_io_error
    <3>2. into_io_error(class) # "ok"
      BY DEF into_io_error
    <3>3. QED  BY <1>3, <2>2, <3>1, <3>2 DEF Finish
  <2>3. CASE ~Retries /\ class = "Ok" /\ pc' = "respond"
    BY <1>3, <2>3 DEF AttemptDone, Finish, Backoff, callVars
  <2>4. QED  BY <1>3, <2>1, <2>2, <2>3 DEF AttemptDone
<1>4. CASE Wake
  BY <1>4 DEF Wake, Finish, callVars
<1>5. CASE Respond
  <2>1. UNCHANGED <<limit, content_length, body, class, cause>> /\ pc' = "done" /\ class # "none"
    BY <1>5, Zenon DEF Respond, Finish
  <2>2. result' = "ok" => ~TooLong
    BY <1>5 DEF Respond, Finish, Exceeds
  <2>3. result' = "InvalidData" => TooLong
    BY <1>5 DEF Respond, Finish, Exceeds
  <2>4. QED  BY <2>1, <2>2, <2>3
<1>6. CASE Tick /\ UNCHANGED callVars
  BY <1>6 DEF Tick, Fail, callVars, CountInv
<1>7. CASE FreshTransport /\ UNCHANGED callVars
  BY <1>7 DEF FreshTransport, Fail, callVars, CountInv
<1>8. CASE SendRequest /\ UNCHANGED callVars
  BY <1>8 DEF SendRequest, Fail, callVars, CountInv
<1>9. CASE TimeoutFires /\ UNCHANGED callVars
  BY <1>9 DEF TimeoutFires, Fail, callVars, CountInv
<1>10. CASE (\E code \in Statuses, length \in Option(Sizes) : HeadersArrive(code, length)) /\ UNCHANGED callVars
  BY <1>10 DEF HeadersArrive, Fail, callVars, CountInv, Exceeds
<1>11. CASE (\E length \in Sizes : BodyArrives(length)) /\ UNCHANGED callVars
  BY <1>11 DEF BodyArrives, Fail, callVars, CountInv, Exceeds
<1>12. CASE (\E e \in MhcErrors : MhcFails(e)) /\ UNCHANGED callVars
  <2>1. PICK e \in MhcErrors : pc \in {"headers", "body"} /\ Fail(classify_mhc_error(e), e)
    BY <1>12 DEF MhcFails
  <2>2. /\ classify_mhc_error(e) # "none"
        /\ classify_mhc_error(e) = "Network" =>
              e \in {"Unreachable", "Tls", "Cancelled", "Dns", "QuicHandshake"}
        /\ classify_mhc_error(e) = "Timeout" => e = "Timeout"
        /\ classify_mhc_error(e) = "BodyTooLarge" => e = "BodyTooLarge"
    BY DEF classify_mhc_error, MhcErrors
  <2>3. QED  BY <1>12, <2>1, <2>2 DEF Fail, callVars, CountInv
<1>13. CASE CustomAnswers /\ UNCHANGED callVars
  BY <1>13 DEF CustomAnswers, Fail, callVars, CountInv, ErrorClasses
<1>14. CASE UNCHANGED vars
  BY <1>14 DEF vars, transportVars, callVars
<1>15. QED
  BY <1>1, <1>2, <1>3, <1>4, <1>5, <1>6, <1>7, ZenonT(30),
     <1>8, <1>9, <1>10, <1>11, <1>12, <1>13, <1>14
     DEF Next, CallStep, TransportStep, Answers

\* Every step keeps the body that was chosen for the request.
LEMMA BodyStep == BodyInv /\ [Next]_vars => BodyInv'
<1> SUFFICES ASSUME BodyInv, [Next]_vars PROVE BodyInv'
  OBVIOUS
<1> DEFINE Phase == {"transport", "request", "headers", "body", "custom"}
<1>1. CASE StartAttempt
  BY <1>1 DEF StartAttempt, Finish, callVars, BodyInv, build_body
<1>2. CASE Call \/ AttemptDone \/ Wake \/ Respond
  <2>1. pc' \notin Phase
    BY <1>2, ZenonT(30) DEF Call, AttemptDone, Backoff, Wake, Respond, Finish
  <2>2. QED  BY <2>1, SMTT(30) DEF BodyInv
<1>3. CASE (Tick \/ TransportStep \/ Answers) /\ UNCHANGED callVars
  <2>1. pc' \in Phase => pc \in Phase
    BY <1>3, ZenonT(30) DEF Tick, TransportStep, FreshTransport, SendRequest, TimeoutFires, Answers,
                HeadersArrive, BodyArrives, MhcFails, CustomAnswers, Fail
  <2>2. QED  BY <1>3, <2>1 DEF BodyInv, build_body, callVars
<1>4. CASE UNCHANGED vars
  BY <1>4 DEF vars, transportVars, BodyInv, build_body
<1>5. QED  BY <1>1, <1>2, <1>3, <1>4 DEF Next, CallStep

-----------------------------------------------------------------------------
(* The results.                                                            *)

\* A fresh pool of endpoints, with no call made, satisfies the invariant.
LEMMA InitIInv == Init => IInv
<1> SUFFICES ASSUME Init PROVE IInv
  OBVIOUS
<1> USE DEF Init, TransportInit
<1>1. NumType
  BY TransportAssumption DEF NumType, None
<1>2. DataType /\ CountInv
  <2>2. DataType
    BY EmptyAnswer, Zenon DEF DataType, Phases, Results
  <2>3. QED  BY <2>2, EndpointFields DEF DataType, CountInv, Unsent
<1>3. BudgetInv /\ AnswerInv /\ BodyInv
  BY DEF BudgetInv, AnswerInv, BodyInv, Attempting
<1>4. QED  BY <1>1, <1>2, <1>3 DEF IInv

\* Every step of a call keeps the invariant.
LEMMA NextIInv == IInv /\ [Next]_vars => IInv'
  BY NumStep, DataStep, CountStep, BudgetStep, AnswerStep, BodyStep DEF IInv

\* The inductive invariant holds in every state of every call.
LEMMA AlwaysIInv == Spec => []IInv
  BY InitIInv, NextIInv, PTL DEF Spec

\* Every variable keeps its type: no duration that execute_endpoint computes by
\* subtraction goes below zero, whatever the clock does.
THEOREM EndpointTypes == Spec => []TypeOK
<1>1. IInv => TypeOK
  BY TypeParts DEF IInv
<1>2. QED  BY AlwaysIInv, <1>1, PTL

\* The one deadline of execute_endpoint bounds every retry sleep, and every
\* attempt up to its own set-up time, for any timeout and any retry policy.
THEOREM CallWaitsWithinBudget == Spec => []WaitsWithinBudget
<1>1. IInv => WaitsWithinBudget
  BY DEF IInv, BudgetInv, WaitsWithinBudget
<1>2. QED  BY AlwaysIInv, <1>1, PTL

\* execute_endpoint sends at most max_attempts requests and never reaches the
\* error after its loop.
THEOREM CallAttemptsBounded == Spec => []AttemptsBounded
<1>1. ASSUME IInv PROVE AttemptsBounded
  <2>1. endpoint.max_attempts \in Nat /\ sends \in Nat /\ attempt \in Nat
    BY <1>1, EndpointFields DEF IInv, NumType, DataType
  <2>2. QED  BY <1>1, <2>1 DEF IInv, CountInv, AttemptsBounded
<1>2. QED  BY AlwaysIInv, <1>1, PTL

\* A response is refused for its size exactly when it exceeds the limit, or
\* when the client says so itself.
THEOREM CallLimitIsExact == Spec => []LimitIsExact
<1>1. IInv => LimitIsExact
  BY DEF IInv, AnswerInv, TooLong, LimitIsExact
<1>2. QED  BY AlwaysIInv, <1>1, PTL

\* The default Content-Type is that of the body build_request chose.
THEOREM CallContentTypeMatches == Spec => []ContentTypeMatchesBody
<1>1. IInv => ContentTypeMatchesBody
  BY EndpointFields, Zenon DEF IInv, BodyInv, DataType, ContentTypeMatchesBody, build_body,
                        default_content_type, BodyTypes
<1>2. QED  BY AlwaysIInv, <1>1, PTL

\* Retries follow transient errors and listed statuses only.
THEOREM CallOnlyTransientRetried == Spec => OnlyTransientRetried
<1> DEFINE Transient ==
        attempt' > attempt /\ attempt > 0 =>
          \/ class = "Ok" /\ status \in endpoint.retry_on_status
          \/ /\ endpoint.retry_on_io_errors
             /\ cause \in {"Unreachable", "Tls", "Cancelled", "Dns",
                           "QuicHandshake", "Network"}
          \/ endpoint.retry_on_timeout /\ cause \in {"Timeout", "deadline"}
<1>1. IInv /\ [Next]_vars => [Transient]_vars
  <2> SUFFICES ASSUME IInv, [Next]_vars, attempt' > attempt, attempt > 0 PROVE Transient
    OBVIOUS
  <2>0. attempt \in Nat /\ attempt' # attempt
    BY DEF IInv, NumType
  <2>1. CASE AttemptDone
    <3>1. Retries
      BY <2>0, <2>1 DEF AttemptDone, Finish, callVars
    <3>2. QED  BY <3>1 DEF Retries, is_retryable_per, IInv, AnswerInv
  <2>2. CASE Call
    <3>1. attempt = 0
      BY <2>2, ZenonT(30) DEF Call, IInv, CountInv
    <3>2. QED  BY <3>1
  <2>3. CASE StartAttempt \/ Wake \/ Respond
    BY <2>0, <2>3 DEF StartAttempt, Wake, Respond, Finish, callVars
  <2>4. CASE UNCHANGED callVars \/ UNCHANGED vars
    BY <2>0, <2>4 DEF callVars, vars
  <2>5. QED  BY <2>1, <2>2, <2>3, <2>4 DEF Next, CallStep
<1>2. QED  BY AlwaysIInv, <1>1, PTL DEF Spec, OnlyTransientRetried
=============================================================================
