------------------------------ MODULE MCBuddy ------------------------------
(***************************************************************************)
(* A small instance of Buddy: nine frames of which the first is reserved,  *)
(* as Limine does, three orders, bitmap words of two frames.  The last     *)
(* frame's buddy is beyond phys_limit, frame 1 can never merge, frames 4-7 *)
(* merge up to the largest order, and a request for 5 pages fits in no     *)
(* list.                                                                   *)
(***************************************************************************)
EXTENDS BuddyRefines, TLC

MCPow2 == [k \in 0 .. MM_MAX_ORDER |-> 2 ^ k]
MCUsable == 1 .. NrPages - 1
CallerSymmetry == Permutations(Callers)
=============================================================================
