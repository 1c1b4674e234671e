---------------------------- MODULE EndpointCall ----------------------------
(***************************************************************************)
(* One call of the endpoint builtin (src/internal/runtime/builtins/          *)
(* endpoint.rs), from the arguments of the script to the value its promise  *)
(* settles with: option parsing (builtins/mod.rs), execute_endpoint and its  *)
(* retry loop (src/internal/http/endpoint/execute.rs), and one attempt after *)
(* another on EndpointTransport.  Calls share no mutable state, so one call  *)
(* is enough.                                                                *)
(*                                                                          *)
(* pc: "start", "loop" (the head of the retry loop), then of an attempt      *)
(* "transport", "request", "headers", "body" or "custom", then "result",     *)
(* "sleep", "respond" and "done".                                            *)
(***************************************************************************)
EXTENDS EndpointTransport

CONSTANTS
    Endpoints,   \* the configured endpoints, see EndpointType
    Clients,     \* the HTTP clients the pool may be configured with
    RetryDelays  \* the delays a retry policy computes, in half milliseconds

BodyTypes == {"Json", "Utf8", "Bytes"}

EndpointType ==
    [timeout_ms : Option(Nat), default_timeout_ms : Option(Nat),
     response_max_bytes : Option(Nat), default_response_max_bytes : Option(Nat),
     supports_body : BOOLEAN, request_body_type : BodyTypes,
     response_body_type : BodyTypes, allow_non_2xx_status : BOOLEAN,
     max_attempts : Nat \ {0}, retry_on_status : SUBSET Statuses,
     retry_on_io_errors : BOOLEAN, retry_on_timeout : BOOLEAN]

ASSUME CallAssumption ==
    /\ Endpoints \subseteq EndpointType
    /\ Clients \subseteq {"default", "custom"}
    /\ RetryDelays \subseteq Nat

VARIABLES
    endpoint,      \* the endpoint the call names
    request_body,  \* EndpointCallOptions.body, by its kind
    deadline,      \* of the whole call
    attempt,       \* the loop variable
    wake,          \* when the retry sleep ends
    result         \* "none", "ok", or how the call failed

vars == <<transportVars, endpoint, request_body, deadline, attempt, wake,
          result>>

callVars == <<endpoint, request_body, deadline, attempt, wake, result>>

Init ==
    /\ TransportInit
    /\ client \in Clients /\ pc = "start" /\ limit = None
    /\ endpoint \in Endpoints /\ request_body = "Absent"
    /\ deadline = None /\ attempt = 0 /\ wake = 0 /\ result = "none"

\* The call's promise settles.
Finish(how) ==
    /\ pc' = "done" /\ result' = how
    /\ UNCHANGED <<now, client, timeout_ms, limit, gate, expires_at, sends,
                   class, cause, status, content_length, body, endpoint,
                   request_body, deadline, attempt, wake>>

-----------------------------------------------------------------------------
(* The arguments of the script and the request built from them.              *)

\* options.body as the script may write it, and the kind it is parsed to.
JsBodies == {"undefined", "null", "string", "buffer", "value"}

parse_body(js) ==
    CASE js = "undefined" -> "Absent"
      [] js = "string" -> "Utf8"
      [] js = "buffer" -> "Bytes"
      [] OTHER -> "Json"

Or(a, b) == IF a # None THEN a ELSE b

\* Mutant: an endpoint of type bytes sends whatever it is given.
build_bodyMutAnyBytes ==
    IF request_body = "Absent" THEN "Absent"
    ELSE IF ~endpoint.supports_body THEN "invalid"
    ELSE IF endpoint.request_body_type = "Bytes" THEN request_body
    ELSE IF \/ request_body = endpoint.request_body_type
            \/ endpoint.request_body_type = "Json" /\ request_body = "Utf8"
         THEN endpoint.request_body_type
    ELSE "invalid"

\* The body build_request gives the request, "invalid" when it refuses.
build_body ==
    IF request_body = "Absent" THEN "Absent"
    ELSE IF ~endpoint.supports_body THEN "invalid"
    ELSE IF \/ request_body = endpoint.request_body_type
            \/ endpoint.request_body_type = "Json" /\ request_body = "Utf8"
         THEN endpoint.request_body_type
    ELSE "invalid"

default_content_type ==
    IF endpoint.supports_body /\ request_body # "Absent"
    THEN CASE endpoint.request_body_type = "Json" -> "application/json"
           [] endpoint.request_body_type = "Utf8" -> "text/plain"
           [] OTHER -> "application/octet-stream"
    ELSE "none"

\* The script calls endpoint(name, options): the arguments, the state and the
\* endpoint's name are checked, then the URL and the headers are built and the
\* deadline of the whole call is set.  A timeout beyond the clock is none.
Call ==
    /\ pc = "start"
    /\ \/ \E why \in {"endpoint is not a string", "bad options",
                      "Invalid state", "Endpoint not found", "bad url",
                      "bad headers"} : Finish(why)
       \/ \E js \in JsBodies :
            LET t == Or(endpoint.timeout_ms, endpoint.default_timeout_ms)
            IN  /\ pc' = "loop" /\ attempt' = 1
                /\ request_body' = parse_body(js)
                /\ limit' = Or(endpoint.response_max_bytes,
                               endpoint.default_response_max_bytes)
                /\ deadline' = IF t # None /\ now + 2 * t <= ClockMax
                               THEN now + 2 * t ELSE None
                /\ UNCHANGED <<now, client, timeout_ms, gate, expires_at,
                               sends, class, cause, status, content_length,
                               body, endpoint, wake, result>>

-----------------------------------------------------------------------------
(* The retry loop.                                                           *)

remaining ==
    IF deadline = None THEN None
    ELSE IF deadline < now THEN 0 ELSE deadline - now

\* as_millis truncates.
remaining_ms == IF deadline = None THEN None ELSE remaining \div 2

\* The head of the loop up to client.execute.
StartAttempt ==
    /\ pc = "loop" /\ attempt <= endpoint.max_attempts
    /\ \/ remaining_ms = 0 /\ Finish("timed out across attempts")
       \/ /\ remaining_ms # 0 /\ build_body = "invalid"
          /\ Finish("InvalidInput")
       \/ /\ remaining_ms # 0 /\ build_body # "invalid"
          /\ timeout_ms' = remaining_ms /\ gate' = now /\ expires_at' = None
          /\ pc' = IF client = "default" THEN "transport" ELSE "custom"
          /\ sends' = IF client = "default" THEN sends ELSE sends + 1
          /\ UNCHANGED <<now, client, limit, class, cause, status,
                         content_length, body, callVars>>

is_retryable_per(c) ==
    \/ c = "Network" /\ endpoint.retry_on_io_errors
    \/ c = "Timeout" /\ endpoint.retry_on_timeout

into_io_error(c) ==
    CASE c = "Network" -> "Network"
      [] c = "Timeout" -> "TimedOut"
      [] c = "BodyTooLarge" -> "InvalidData"
      [] c = "InvalidRequest" -> "InvalidInput"
      [] OTHER -> "Other"

\* The locals of the finished attempt go out of scope.
DropAnswer ==
    /\ timeout_ms' = None /\ gate' = 0 /\ expires_at' = None
    /\ class' = "none" /\ cause' = "none" /\ status' = 0
    /\ content_length' = None /\ body' = 0

\* Mutant: the sleep is not cut to the remaining time.
BackoffMutUnbounded ==
    \E delay \in RetryDelays :
        /\ attempt' = attempt + 1
        /\ pc' = IF delay = 0 THEN "loop" ELSE "sleep"
        /\ wake' = now + delay
        /\ DropAnswer
        /\ UNCHANGED <<now, client, limit, sends, endpoint, request_body,
                       deadline, result>>

\* The policy's delay, cut to what is left of the call's time, then continue.
Backoff ==
    \E delay \in RetryDelays :
        LET bounded == IF deadline # None /\ remaining < delay
                       THEN remaining ELSE delay
        IN  /\ attempt' = attempt + 1
            /\ IF bounded = 0 THEN pc' = "loop" /\ wake' = 0
               ELSE pc' = "sleep" /\ wake' = now + bounded
            /\ DropAnswer
            /\ UNCHANGED <<now, client, limit, sends, endpoint, request_body,
                           deadline, result>>

\* Mutant: the last attempt is retried as well.
RetriesMutLast ==
    \/ class = "Ok" /\ status \in endpoint.retry_on_status
    \/ class # "Ok" /\ is_retryable_per(class)

Retries ==
    /\ attempt < endpoint.max_attempts
    /\ \/ class = "Ok" /\ status \in endpoint.retry_on_status
       \/ class # "Ok" /\ is_retryable_per(class)

\* client.execute has returned.
AttemptDone ==
    /\ pc = "result"
    /\ \/ Retries /\ Backoff
       \/ ~Retries /\ class # "Ok" /\ Finish(into_io_error(class))
       \/ /\ ~Retries /\ class = "Ok"
          /\ pc' = "respond"
          /\ UNCHANGED <<now, client, timeout_ms, limit, gate, expires_at,
                         sends, class, cause, status, content_length, body,
                         callVars>>

Wake ==
    /\ pc = "sleep" /\ wake <= now
    /\ pc' = "loop" /\ wake' = 0
    /\ UNCHANGED <<now, client, timeout_ms, limit, gate, expires_at, sends,
                   class, cause, status, content_length, body, endpoint,
                   request_body, deadline, attempt, result>>

\* The response: its status, its size and its decoding.
Respond ==
    /\ pc = "respond"
    /\ LET refused == ~endpoint.allow_non_2xx_status /\ status \notin 200..299
           tooLarge == Exceeds(content_length, limit) \/ Exceeds(body, limit)
       IN  \/ refused /\ Finish("HTTP status")
           \/ ~refused /\ tooLarge /\ Finish("InvalidData")
           \/ /\ ~refused /\ ~tooLarge /\ body > 0
              /\ endpoint.response_body_type # "Bytes"
              /\ Finish("undecodable")
           \/ ~refused /\ ~tooLarge /\ Finish("ok")

\* The script's own thread runs these without waiting for anyone.
CallStep ==
    \/ Call
    \/ StartAttempt
    \/ AttemptDone
    \/ Wake
    \/ Respond

Next ==
    \/ CallStep
    \/ (Tick \/ TransportStep \/ Answers) /\ UNCHANGED callVars

Spec == Init /\ [][Next]_vars

\* The worker polls its futures and its timers fire: the runtime it blocks on
\* drives both.  Nothing is assumed of the network or of a plugged-in client.
FairSpec ==
    /\ Spec
    /\ WF_vars(CallStep)
    /\ WF_vars(TransportStep /\ UNCHANGED callVars)
    /\ WF_vars(Tick /\ UNCHANGED callVars)

-----------------------------------------------------------------------------
(* Properties.                                                               *)

Phases == {"start", "loop", "transport", "request", "headers", "body",
           "custom", "result", "sleep", "respond", "done"}

Results == {"none", "ok", "endpoint is not a string", "bad options",
            "Invalid state", "Endpoint not found", "bad url", "bad headers",
            "timed out across attempts", "InvalidInput",
            "Network", "TimedOut", "InvalidData", "Other", "HTTP status",
            "undecodable"}

\* The type of every variable: the instants and durations the code computes by
\* subtraction (execute.rs:94-104) never go below zero.
TypeOK ==
    /\ now \in 0..MaxInstant /\ client \in Clients /\ pc \in Phases
    /\ timeout_ms \in Option(Nat) /\ limit \in Option(Nat)
    /\ gate \in 0..now /\ expires_at \in Option(Nat) /\ sends \in Nat
    /\ class \in ErrorClasses \cup {"none", "Ok"}
    /\ cause \in MhcErrors \cup ErrorClasses \cup
           {"none", "fresh_transport", "clock overflow", "deadline",
            "limit"}
    /\ status \in Statuses \cup {0} /\ content_length \in Option(Sizes)
    /\ body \in Sizes
    /\ endpoint \in Endpoints /\ request_body \in BodyTypes \cup {"Absent"}
    /\ deadline \in Option(Nat) /\ attempt \in Nat
    /\ wake \in Nat /\ result \in Results

Attempting == pc \in {"request", "headers", "body"}

\* One budget covers the whole call (execute.rs:79-88): a retry sleep ends by
\* the deadline of the call, and the deadline of an attempt exceeds it by no
\* more than the set-up time of that one attempt, however many attempts came
\* before it.
WaitsWithinBudget ==
    deadline # None =>
        /\ pc = "sleep" => wake <= deadline
        /\ Attempting => /\ expires_at # None
                         /\ expires_at <= deadline + MaxSetup

\* The retry loop hands the network at most one request per attempt, at most
\* max_attempts in all, and goes round only while an attempt is left: the for
\* loop ends in a response or in an error of an attempt, so the error after it,
\* "attempts exhausted without terminal response" (execute.rs:237), has no
\* action.
AttemptsBounded ==
    /\ sends <= endpoint.max_attempts
    /\ pc = "loop" => attempt <= endpoint.max_attempts

\* What the limit on the response means, whatever the client and whichever of
\* the three checks decides (transport.rs:405-419, execute.rs:254-266): a body
\* that reaches the script is no longer than the limit and was not announced as
\* longer; a call is refused for its size only when the announced length or the
\* body exceeds the limit, or the client says so itself.  A body of exactly the
\* limit passes.
LimitIsExact ==
    LET tooLong == limit # None /\ (content_length > limit \/ body > limit)
    IN  /\ result = "ok" => ~tooLong
        /\ result = "InvalidData" => tooLong \/ cause = "BodyTooLarge"

\* A retry follows only a status the policy lists, or a network error or a
\* timeout with its switch on.  The errors of the library that mean a local
\* condition, and the ones it may add later, are never retried
\* (transport.rs:307-338, execute.rs:193-219).
OnlyTransientRetried ==
    [][attempt' > attempt /\ attempt > 0 =>
          \/ class = "Ok" /\ status \in endpoint.retry_on_status
          \/ /\ endpoint.retry_on_io_errors
             /\ cause \in {"Unreachable", "Tls", "Cancelled", "Dns",
                           "QuicHandshake", "Network"}
          \/ endpoint.retry_on_timeout /\ cause \in {"Timeout", "deadline"}]_vars

\* The Content-Type that execute_endpoint sets by default (execute.rs:67-76)
\* and the body build_request picks (105-150) are decided apart; whenever a
\* request is under way they agree.
ContentTypeMatchesBody ==
    pc \in {"transport", "request", "headers", "body", "custom"} =>
        build_body = CASE default_content_type = "application/json" -> "Json"
                       [] default_content_type = "text/plain" -> "Utf8"
                       [] default_content_type = "application/octet-stream" ->
                              "Bytes"
                       [] OTHER -> "Absent"

\* A call with a timeout settles even if the server never answers, as long as
\* the client is the default one, which honours request.timeout_ms.
CallSettles ==
    (client = "default" /\ pc = "loop" /\ deadline # None) ~> (pc = "done")
=============================================================================
