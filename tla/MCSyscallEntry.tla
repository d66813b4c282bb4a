-------------------------- MODULE MCSyscallEntry ---------------------------
(***************************************************************************)
(* Instances of SyscallEntry: three tasks, of which one exists at first,   *)
(* two instruction pointers and two stack pointers to tell apart.          *)
(***************************************************************************)
EXTENDS SyscallEntry
=============================================================================
