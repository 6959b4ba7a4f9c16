---------------------------- MODULE RetryPolicy ----------------------------
(***************************************************************************)
(* How the REST adapter (pkg/adapter/adapter.go) sorts the outcome of one  *)
(* HTTP exchange.  A status code is a natural number; NoReply stands for   *)
(* an exchange that ended without one.                                     *)
(***************************************************************************)
EXTENDS Naturals

NoReply == 0

\* The codes doWithRetry tries again: 5xx, Request Timeout, Too Early,
\* Conflict and Gone.
IsRetryableStatusCode(code) == code >= 500 \/ code \in {408, 425, 409, 410}

\* What the closure given to backoff.Retry makes of a reply: nil, an error
\* that is tried again, or backoff.Permanent.
IsSuccess(code)   == code # NoReply /\ code < 300
IsPermanent(code) == code >= 300 /\ ~IsRetryableStatusCode(code)
=============================================================================
