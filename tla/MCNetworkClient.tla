-------------------------- MODULE MCNetworkClient --------------------------
(* Instances of NetworkClient small enough for TLC. *)
EXTENDS NetworkClient, TLC

\* What RetryInterceptor's default policy answers for these errors.
DefaultRetryable == {"transient", "timeout"}

\* A user policy that retries whatever went wrong.
RetryAnything == Errors
=============================================================================
