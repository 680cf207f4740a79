--------------------------------- MODULE MCVmm ---------------------------------
(***************************************************************************)
(* Vmm on small instances: three VMs, two shared pages, lists of two or    *)
(* three commands that differ in how long they run and how they end.       *)
(***************************************************************************)
EXTENDS Vmm

CONSTANT v1

Cmd(cmd, addr, value, repeat) ==
  [cmd |-> cmd, addr |-> addr, value |-> value, repeat |-> repeat]

ExitCmd == Cmd("EXIT", "NULL", NoValue, 1)

MCRole == VMs

MCValue == {v1}

MCCmdLists ==
  { <<Cmd("PRINT", "NULL", NoValue, 1), Cmd("MEASURE", "NULL", NoValue, 1), ExitCmd>>,
    <<Cmd("WRITE", "SHARED", v1, 1), ExitCmd>>,
    <<Cmd("READ", "BEYOND", NoValue, 1), ExitCmd>> }
================================================================================
