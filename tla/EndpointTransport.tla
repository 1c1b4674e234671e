------------------------- MODULE EndpointTransport -------------------------
(***************************************************************************)
(* One attempt of an endpoint call (src/internal/http/transport.rs):        *)
(* EndpointHttpClient::execute, as the default client runs it on top of the *)
(* mechanics_http_client crate, and as any client plugged in by the         *)
(* embedder may answer it.                                                  *)
(*                                                                          *)
(* The clock counts half milliseconds, so that the truncation of a          *)
(* remaining duration to whole milliseconds is visible.  Durations that the *)
(* code holds in milliseconds are plain numbers of milliseconds.  None (-1) *)
(* is the absent timeout, limit or content length.                          *)
(***************************************************************************)
EXTENDS Integers

CONSTANTS
    MaxInstant,  \* bound: the clock stops here
    ClockMax,    \* the last instant Instant can represent
    MaxSetup,    \* bound: half milliseconds spent in fresh_transport
    MaxSize,     \* bound: the largest body length and content length
    Statuses     \* the HTTP status codes a server answers with

ASSUME TransportAssumption ==
    /\ MaxInstant \in Nat /\ ClockMax \in Nat /\ MaxSetup \in Nat
    /\ MaxSize \in Nat /\ MaxInstant < ClockMax
    /\ Statuses \subseteq Nat

VARIABLES
    now,             \* Instant::now(), in half milliseconds
    client,          \* "default", or "custom" for a plugged-in client
    pc,              \* where the call is, see EndpointCall
    timeout_ms,      \* request.timeout_ms
    limit,           \* request.response_max_bytes
    gate,            \* when timeout_ms was computed (history)
    expires_at,      \* EndpointRequestDeadline
    sends,           \* requests handed to the network (history)
    class,           \* what the attempt ended with: Ok or an error variant
    cause,           \* the library's error behind class (history)
    status,          \* EndpointHttpResponse.status
    content_length,  \* EndpointHttpResponse.content_length
    body             \* EndpointHttpResponse.body, by its length

transportVars == <<now, client, pc, timeout_ms, limit, gate, expires_at, sends,
                   class, cause, status, content_length, body>>

None == -1

Option(S) == S \cup {None}

Sizes == 0..MaxSize

\* EndpointTransportError.
ErrorClasses == {"Network", "Timeout", "BodyTooLarge", "InvalidRequest",
                 "Decode", "Other"}

\* mechanics_http_client::Error.  It is non_exhaustive: "Unknown" stands for a
\* variant of a later version.
MhcErrors == {"Timeout", "Unreachable", "Tls", "Cancelled", "Dns",
              "QuicHandshake", "BodyTooLarge", "InvalidUrl", "InvalidHeader",
              "SerializeJson", "Decode", "Internal", "Unknown"}

\* Mutant: the wildcard arm takes an unknown error for a network error.
classify_mhc_errorMutWildcard(e) ==
    CASE e = "Timeout" -> "Timeout"
      [] e = "BodyTooLarge" -> "BodyTooLarge"
      [] e \in {"InvalidUrl", "InvalidHeader", "SerializeJson"} ->
             "InvalidRequest"
      [] e = "Decode" -> "Decode"
      [] e = "Internal" -> "Other"
      [] OTHER -> "Network"

classify_mhc_error(e) ==
    CASE e = "Timeout" -> "Timeout"
      [] e \in {"Unreachable", "Tls", "Cancelled", "Dns", "QuicHandshake"} ->
             "Network"
      [] e = "BodyTooLarge" -> "BodyTooLarge"
      [] e \in {"InvalidUrl", "InvalidHeader", "SerializeJson"} ->
             "InvalidRequest"
      [] e = "Decode" -> "Decode"
      [] OTHER -> "Other"

TransportInit ==
    /\ now = 0 /\ timeout_ms = None /\ gate = 0 /\ expires_at = None
    /\ sends = 0 /\ class = "none" /\ cause = "none" /\ status = 0
    /\ content_length = None /\ body = 0

\* Time passes during the call, except that building the transport takes at
\* most MaxSetup.
Tick ==
    /\ now < MaxInstant /\ pc \notin {"start", "done"}
    /\ pc = "transport" => now < gate + MaxSetup
    /\ now' = now + 1
    /\ UNCHANGED <<client, pc, timeout_ms, limit, gate, expires_at, sends,
                   class, cause, status, content_length, body>>

\* The attempt ends with an error of the given class.
Fail(c, why) ==
    /\ pc' = "result" /\ class' = c /\ cause' = why
    /\ UNCHANGED <<now, client, timeout_ms, limit, gate, expires_at, sends,
                   status, content_length, body>>

\* Mutant: a length equal to the limit is refused.
ExceedsMutAtLimit(n, max) == max # None /\ n >= max

Exceeds(n, max) == max # None /\ n > max

Expired == expires_at # None /\ expires_at <= now

\* fresh_transport and EndpointRequestDeadline::new.
FreshTransport ==
    /\ pc = "transport"
    /\ \/ Fail("Other", "fresh_transport")
       \/ /\ timeout_ms # None /\ now + 2 * timeout_ms > ClockMax
          /\ Fail("InvalidRequest", "clock overflow")
       \/ /\ timeout_ms = None \/ now + 2 * timeout_ms <= ClockMax
          /\ expires_at' = IF timeout_ms = None THEN None
                           ELSE now + 2 * timeout_ms
          /\ pc' = "request"
          /\ UNCHANGED <<now, client, timeout_ms, limit, gate, sends, class,
                         cause, status, content_length, body>>

\* The request is built, the remaining time becomes its timeout, and it is
\* sent, unless the deadline is over.
SendRequest ==
    /\ pc = "request"
    /\ \/ Expired /\ Fail("Timeout", "deadline")
       \/ /\ ~Expired
          /\ pc' = "headers" /\ sends' = sends + 1
          /\ UNCHANGED <<now, client, timeout_ms, limit, gate, expires_at,
                         class, cause, status, content_length, body>>

\* send() answers: the announced length is checked against the limit, then
\* the deadline before the body is read.
HeadersArrive(code, length) ==
    /\ pc = "headers"
    /\ \/ /\ Exceeds(length, limit)
          /\ pc' = "result" /\ class' = "BodyTooLarge" /\ cause' = "limit"
          /\ content_length' = length
          /\ UNCHANGED <<now, client, timeout_ms, limit, gate, expires_at,
                         sends, status, body>>
       \/ ~Exceeds(length, limit) /\ Expired /\ Fail("Timeout", "deadline")
       \/ /\ ~Exceeds(length, limit) /\ ~Expired
          /\ pc' = "body" /\ status' = code /\ content_length' = length
          /\ UNCHANGED <<now, client, timeout_ms, limit, gate, expires_at,
                         sends, class, cause, body>>

\* bytes_with_cap or bytes.
BodyArrives(length) ==
    /\ pc = "body"
    /\ pc' = "result" /\ body' = length
    /\ IF Exceeds(length, limit)
       THEN class' = "BodyTooLarge" /\ cause' = "limit"
       ELSE class' = "Ok" /\ cause' = "none"
    /\ UNCHANGED <<now, client, timeout_ms, limit, gate, expires_at, sends,
                   status, content_length>>

\* The library reports an error, of send() or of reading the body.
MhcFails(e) == pc \in {"headers", "body"} /\ Fail(classify_mhc_error(e), e)

\* Mutant: the body is read without a timeout.
TimeoutFiresMutHeadersOnly ==
    pc = "headers" /\ Expired /\ Fail("Timeout", "deadline")

\* The timeout of the request, or the one around the body, fires.
TimeoutFires ==
    pc \in {"headers", "body"} /\ Expired /\ Fail("Timeout", "deadline")

\* A plugged-in client answers when and as it likes.
CustomAnswers ==
    /\ pc = "custom"
    /\ \/ \E c \in ErrorClasses : Fail(c, c)
       \/ /\ pc' = "result" /\ class' = "Ok" /\ cause' = "none"
          /\ status' \in Statuses
          /\ content_length' \in Option(Sizes)
          /\ body' \in Sizes
          /\ UNCHANGED <<now, client, timeout_ms, limit, gate, expires_at,
                         sends>>

\* What the worker's thread does by itself.
TransportStep == FreshTransport \/ SendRequest \/ TimeoutFires

\* What comes from the network or from embedder code.
Answers ==
    \/ \E code \in Statuses, length \in Option(Sizes) :
           HeadersArrive(code, length)
    \/ \E length \in Sizes : BodyArrives(length)
    \/ \E e \in MhcErrors : MhcFails(e)
    \/ CustomAnswers
=============================================================================
