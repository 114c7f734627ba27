--------------------------- MODULE MCReplication ---------------------------
(* Two executors with blocks of one token.  The prompt has two full blocks,  *)
(* of which the first can be matched and replicated.                         *)
EXTENDS Replication, TLC

CONSTANTS e1, e2

MCNumBlocks == (e1 :> 1) @@ (e2 :> 2)
MCBlockSize == (e1 :> 1) @@ (e2 :> 1)
MCPrompts == {[salt |-> 0, tokens |-> <<1, 1>>]}
MCCompatibility == (e1 :> "qwen") @@ (e2 :> "qwen")

(* Nothing is claimed of a state once a batch has strayed, nor of any later  *)
(* one: safety runs go no further.                                           *)
NotStrayed == ~strayed

=============================================================================
