-------------------------------- MODULE MCDedup ---------------------------------
(***************************************************************************)
(* Dedup on three shared pages of two units each; the counter of the fill  *)
(* wraps at 16 and getrandom fails at most once.                           *)
(***************************************************************************)
EXTENDS Dedup

MCRole == VMs

MCCmdLists ==
  {<<[cmd |-> "EXIT", addr |-> "NULL", value |-> NoValue, repeat |-> 1]>>}
================================================================================
