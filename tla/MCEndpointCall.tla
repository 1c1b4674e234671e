--------------------------- MODULE MCEndpointCall ---------------------------
(* Small instances of EndpointCall for TLC.                                  *)
EXTENDS EndpointCall

MCStatuses == {200, 404, 429}

Base ==
    [timeout_ms |-> 2, default_timeout_ms |-> None, response_max_bytes |-> 1,
     default_response_max_bytes |-> None, supports_body |-> TRUE,
     request_body_type |-> "Json", response_body_type |-> "Json",
     allow_non_2xx_status |-> FALSE, max_attempts |-> 3,
     retry_on_status |-> {429}, retry_on_io_errors |-> TRUE,
     retry_on_timeout |-> TRUE]

\* The timeouts: none, inherited, too short to start, beyond the clock.
TimeoutEndpoints ==
    {Base, [Base EXCEPT !.timeout_ms = None],
     [Base EXCEPT !.timeout_ms = None, !.default_timeout_ms = 2],
     [Base EXCEPT !.timeout_ms = 1, !.default_timeout_ms = 3],
     [Base EXCEPT !.timeout_ms = 100]}

\* The rest of the configuration, with two attempts, a few fields at a time.
Other == [Base EXCEPT !.max_attempts = 2]

OtherEndpoints ==
    {[Other EXCEPT !.response_max_bytes = None, !.request_body_type = "Utf8"],
     [Other EXCEPT !.response_max_bytes = 0, !.default_response_max_bytes = 2],
     [Other EXCEPT !.response_max_bytes = None,
                   !.default_response_max_bytes = 1],
     [Other EXCEPT !.supports_body = FALSE, !.retry_on_io_errors = FALSE],
     [Other EXCEPT !.request_body_type = "Bytes",
                   !.response_body_type = "Bytes"],
     [Other EXCEPT !.allow_non_2xx_status = TRUE],
     [Other EXCEPT !.max_attempts = 1],
     [Other EXCEPT !.retry_on_timeout = FALSE, !.retry_on_status = {}]}

MCEndpoints == TimeoutEndpoints \cup OtherEndpoints
=============================================================================
