------------------------------ MODULE MCMemoryMap -------------------------------
(***************************************************************************)
(* MemoryMap for TLC: 8 entries in a page, 2 directories (128 pages mapped *)
(* of the 4096 that four levels can address, the regions in those of the   *)
(* first, as in the code), the last page of stamps not full, and each slot *)
(* set or refused, in each role.                                           *)
(***************************************************************************)
EXTENDS MemoryMap

MCRole == 0..(NUMBEROFROLE - 1)

MCCmdLists ==
  {<<[cmd |-> "EXIT", addr |-> "NULL", value |-> NoValue, repeat |-> 1]>>}
================================================================================
