------------------------------- MODULE MCSlab -------------------------------
(* Pages of six bytes, a header of two; objects of two bytes in slabs of     *)
(* one page and of four in slabs of two, which leave two bytes over.         *)
EXTENDS Slab

MCObjSize == <<2, 4>>
MCCachePages == <<1, 2>>
=============================================================================
