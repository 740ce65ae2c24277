------------------------ MODULE MCRequestConversion ------------------------
(* The redirects of the clients that TLC builds. *)
EXTENDS RequestConversion

\* The builder's default, no hop, and more hops than none.
Builders == {[policy |-> "manual", max |-> 3], [policy |-> "follow", max |-> 0],
             [policy |-> "follow", max |-> 2]}
=============================================================================
