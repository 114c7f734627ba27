------------------------------ MODULE MCEngine ------------------------------
(* Two calls whose prompts share their first tokens. *)
EXTENDS Engine, TLC

CONSTANTS c1, c2, r1, r2

TwoRequestIds == (c1 :> r1) @@ (c2 :> r2)

ServingPrompts == (c1 :> [salt |-> 0, tokens |-> <<1, 2>>])
               @@ (c2 :> [salt |-> 0, tokens |-> <<1, 2, 3>>])
TwoTokens == (c1 :> 2) @@ (c2 :> 2)

(* A pool of one block of two tokens: c1 needs it all the time, c2 needs a  *)
(* second one after its prefill, which only its Deadline can resolve.       *)
LivePrompts == (c1 :> [salt |-> 0, tokens |-> <<1>>]) @@ (c2 :> [salt |-> 0, tokens |-> <<2, 2>>])

=============================================================================
