---------------------------- MODULE MCSaveMeasures -----------------------------
(***************************************************************************)
(* SaveMeasures on small command lists: those that tools/experiments.py    *)
(* can generate (repeat is 1, no PRINT), and two kinds that a command file *)
(* may hold beside them.                                                   *)
(***************************************************************************)
EXTENDS SaveMeasures

CONSTANT v1

Cmd(cmd_, addr, value, repeat) ==
  [cmd |-> cmd_, addr |-> addr, value |-> value, repeat |-> repeat]

Exit    == Cmd("EXIT", "NULL", NoValue, 1)
Wait    == Cmd("WAIT", "NULL", NoValue, 1)
Measure == Cmd("MEASURE", "NULL", NoValue, 1)
Read    == Cmd("READ", "OWN", NoValue, 1)
Write   == Cmd("WRITE", "SHARED", v1, 1)
Fault   == Cmd("READ", "BEYOND", NoValue, 1)

MCRole == {VICTIM, ATTACKER, DEFENDER}

MCValue == {v1}

Generated ==
  { <<Exit>>,
    <<Measure, Exit>>,
    <<Wait, Read, Exit>>,
    <<Measure, Read, Exit>>,
    <<Read, Measure, Exit>>,
    <<Read, Write, Measure, Exit>>,
    <<Measure, Fault, Measure, Exit>> }

PrintCmd   == Cmd("PRINT", "NULL", NoValue, 1)
UnknownCmd == Cmd("UNKNOWN", "NULL", NoValue, 1)

WithPrint ==
  { <<Exit>>, <<Measure, PrintCmd, Read, Exit>>, <<Read, UnknownCmd, Exit>> }

GeneratedOrPrint == Generated \cup WithPrint

WithRepeat ==
  { <<Exit>>, <<Cmd("MEASURE", "NULL", NoValue, 2), Measure, Exit>> }
================================================================================
