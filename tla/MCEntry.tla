------------------------------ MODULE MCEntry -------------------------------
(***************************************************************************)
(* Ways into the kernel.  System calls: three tasks, of which one exists   *)
(* at first, two instruction pointers and two stack pointers to tell       *)
(* apart.  Interrupts: a keyboard, a timer, and tasks that make system     *)
(* calls, block, start and end.  The two share no variable: part says      *)
(* which one a behaviour is about.                                         *)
(***************************************************************************)
EXTENDS SyscallEntry, Isr

VARIABLE part

AnyRip == CHOOSE i \in Rips : TRUE
AnyRsp == CHOOSE s \in Rsps : TRUE

MCInit ==
  /\ Init /\ IsrInit
  /\ \/ part = "calls" /\ ~obf
     \/ part = "interrupts" /\ \A t \in Tasks : rip[t] = AnyRip /\ rsp[t] = AnyRsp

MCNext ==
  \/ part = "calls" /\ Next /\ UNCHANGED <<isrVars, part>>
  \/ part = "interrupts" /\ IsrNext /\ UNCHANGED <<vars, part>>

MCSpec == MCInit /\ [][MCNext]_<<vars, isrVars, part>>
=============================================================================
