-------------------------- MODULE MCBlockRegistry --------------------------
(***************************************************************************)
(* Two executors with two blocks of two tokens each, two requests and a    *)
(* transfer.  The prompt has two full blocks and one token more: a prefix  *)
(* of one or two blocks can be shared and transferred, a chunk may end     *)
(* within a block, and there is never room for a whole prompt of each of   *)
(* the two requests.                                                       *)
(***************************************************************************)
EXTENDS BlockLoops

CONSTANTS e1, e2

MCNumBlocks == (e1 :> 2) @@ (e2 :> 2)
MCBlockSize == (e1 :> 2) @@ (e2 :> 2)
MCPrompts == {[salt |-> 0, tokens |-> <<1, 1, 1, 1, 1>>]}

Symmetry == Permutations(Requests) \cup Permutations(Works)

=============================================================================
