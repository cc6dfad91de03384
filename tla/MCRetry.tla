------------------------------- MODULE MCRetry -------------------------------
(***************************************************************************)
(* The policies retry_with_backoff is checked with.                        *)
(***************************************************************************)
EXTENDS Retry

\* 0 to 4 retries; a first backoff of nothing, below, at and above the limit.
MCPolicies ==
  [max_retries : 0 .. 4, initial_backoff : {0, 1, 3, 10}, max_backoff : {3, 7}]

=============================================================================
