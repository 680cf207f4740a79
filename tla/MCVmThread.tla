------------------------------ MODULE MCVmThread -------------------------------
(***************************************************************************)
(* VmThread on small instances: every list of at most MaxBody commands of  *)
(* Body, closed by EXIT, for each of the three roles.                      *)
(***************************************************************************)
EXTENDS VmThread

CONSTANTS v1, MaxBody

Cmd(cmd, addr, value, repeat) ==
  [cmd |-> cmd, addr |-> addr, value |-> value, repeat |-> repeat]

Exit == Cmd("EXIT", "NULL", NoValue, 1)

(* repeat 0, 1 and 2; own, shared, unmapped targets; every primitive.      *)
Body ==
  { Cmd("MEASURE", "NULL", NoValue, 1),
    Cmd("MEASURE", "NULL", NoValue, 2),
    Cmd("READ", "OWN", NoValue, 1),
    Cmd("READ", "SHARED", NoValue, 2),
    Cmd("READ", "BEYOND", NoValue, 1),
    Cmd("WRITE", "OWN", v1, 2),
    Cmd("WRITE", "SHARED", v1, 1),
    Cmd("WRITE", "OWN", v1, 0),
    Cmd("WAIT", "NULL", NoValue, 1),
    Cmd("PRINT", "NULL", NoValue, 1),
    Cmd("UNKNOWN", "NULL", NoValue, 1) }

MCRole == {VICTIM, ATTACKER, DEFENDER}

MCValue == {v1}

MCCmdLists ==
  { Append(l, Exit) : l \in UNION { [1..n -> Body] : n \in 0..MaxBody } }
================================================================================
