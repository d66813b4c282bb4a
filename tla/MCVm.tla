-------------------------------- MODULE MCVm --------------------------------
(***************************************************************************)
(* Address spaces.  Those of a parent and a child: the pages 4 to 8, in    *)
(* halves, areas of one and three pages (four are refused) and empty ones, *)
(* anywhere and at addresses below the space, at a page, in the middle of  *)
(* one, and where the end wraps.  The kernel's areas, where the unit of    *)
(* addresses is a page: the pages 8 to 17 under two PML4 entries, areas of *)
(* two and five pages, and tasks that come, go and are interrupted         *)
(* anywhere.  The two share no variable: part says which one a behaviour   *)
(* is about.                                                               *)
(***************************************************************************)
EXTENDS KernelVm

VARIABLE part

MCInit == part \in {"tasks", "kernel"} /\ Init /\ KvmInit

MCNext ==
  \/ part = "tasks" /\ Next /\ UNCHANGED <<kvmVars, part>>
  \/ part = "kernel" /\ KvmNext /\ UNCHANGED <<vars, part>>

MCSpec == MCInit /\ [][MCNext]_<<vars, kvmVars, part>>
=============================================================================
