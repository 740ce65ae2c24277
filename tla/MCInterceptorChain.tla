------------------------- MODULE MCInterceptorChain -------------------------
(* Chains small enough for TLC. *)
EXTENDS InterceptorChain

\* The README's order with a retry inside a retry.
NestedRetries == <<"log", "retry", "cache", "mend", "sign", "retry">>

\* The outer one as the default policy, the inner one with a policy of the program's
\* that goes on when the client is gone.
DefaultAndStubborn ==
    [l \in DOMAIN NestedRetries |->
        CASE l = 2 -> {"failed"} [] l = 6 -> {"failed", "gone"} [] OTHER -> {}]
=============================================================================
