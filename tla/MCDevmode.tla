----------------------------- MODULE MCDevmode ------------------------------
(* The devmode engine on a chain of three blocks.  The free id 4 is greater *)
(* than the head's and less than that of the block below it, the free id 1  *)
(* is less than all: forks win and lose, at the height of the head and      *)
(* after walks of one and of two turns.                                     *)
EXTENDS Devmode

StartChain == <<3, 5, 2>>

WaitTimes == [min |-> 1, max |-> 3]
=============================================================================
