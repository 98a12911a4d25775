------------------------------ MODULE MCBakery ------------------------------
(***************************************************************************)
(* CluckBakery for TLC.  The configurations give the leaders as model      *)
(* values and the clients as numbers: ticket keys are ordered by client.   *)
(***************************************************************************)
EXTENDS CluckBakery

\* A client on a computer that does not lead reaches whichever leader its daemon picks.
Anywhere == [c \in Client |-> Leader]

\* No handler looks at which leader a leader is: with invariants only, leaders may be permuted.
LeaderSymmetry == Permutations(Leader)
=============================================================================
