------------------------------- MODULE MCFat --------------------------------
(***************************************************************************)
(* The FAT32 driver's two layers on volumes of their own.  Files: two with *)
(* a cluster each, the first full and the second half full, and two        *)
(* handles, with the power on throughout (MCFatFile has the failures).     *)
(* Directories: two names with one fragment and one with two in the root,  *)
(* and a level below it, with power failures.                              *)
(***************************************************************************)
EXTENDS FatFile, FatDir

CONSTANTS full_file, half_file, brief, other, long

VARIABLE part

MCStartClust == [f \in Files |-> IF f = full_file THEN 3 ELSE 4]
MCSize0 == [f \in Files |-> IF f = full_file THEN ClustSize ELSE 1]
MCLfns == [n \in DirNames |-> IF n = long THEN 2 ELSE 1]
MCShort == [n \in DirNames |-> IF n = long THEN "LONG" ELSE IF n = brief THEN "BRIEF" ELSE "OTHER"]
MCPaths == {<<brief>>, <<other>>, <<long>>, <<long, long>>}

HandleSymmetry == Permutations(Handles)

MCInit ==
  /\ Init /\ DirInit
  /\ \/ part = "files" /\ safe = {}
     \/ part = "directories"

MCNext ==
  \/ part = "files" /\ Next /\ UNCHANGED <<dirVars, part>>
  \/ part = "directories" /\ DirNext /\ UNCHANGED <<vars, part>>

MCSpec == MCInit /\ [][MCNext]_<<vars, dirVars, part>>
=============================================================================
