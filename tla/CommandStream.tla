----------------------------- MODULE CommandStream -----------------------------
(***************************************************************************)
(* What the VMM promises of one VM: it asks for the commands of its list   *)
(* in their order, each one only when the one before has left all of its   *)
(* stamps, and it reports success only for a list served to its end.       *)
(*                                                                         *)
(* The interplay of the VMM thread and its guest is abstracted away;       *)
(* VmThread has it and implements this specification.                      *)
(***************************************************************************)
EXTENDS ScaCommands

VARIABLES
  list,     (* the command list of the VM                          *)
  pos,      (* how many of its commands have been asked for        *)
  taken,    (* how many stamps the current command has left so far *)
  log,      (* the stamps of the VM, in order                      *)
  status    (* "running", or the outcome that is reported          *)

vars == <<list, pos, taken, log, status>>

TypeOK ==
  /\ list \in CmdLists
  /\ pos \in 0..Len(list)
  /\ taken \in Nat
  /\ log \in Seq(Stamp)
  /\ status \in {"running", "ok", "failed"}

(* The stamps the current command owes. *)
Due == IF pos = 0 THEN 0 ELSE Width(list[pos])

Complete == pos = Len(list) /\ taken = Due

(* The current command accesses an address that its guest cannot translate. *)
OutOfReach ==
  /\ pos > 0
  /\ list[pos].cmd \in {"READ", "WRITE"}
  /\ ~Mapped(list[pos].addr)

Init ==
  /\ list \in CmdLists
  /\ pos = 0
  /\ taken = 0
  /\ log = <<>>
  /\ status = "running"

Fetch ==
  /\ status = "running"
  /\ pos < Len(list)
  /\ taken = Due
  /\ pos' = pos + 1
  /\ taken' = 0
  /\ UNCHANGED <<list, log, status>>

Take ==
  /\ status = "running"
  /\ taken < Due
  /\ log' = Append(log, StampOf(list[pos], taken))
  /\ taken' = taken + 1
  /\ UNCHANGED <<list, pos, status>>

Succeed ==
  /\ status = "running"
  /\ Complete
  /\ status' = "ok"
  /\ UNCHANGED <<list, pos, taken, log>>

(* The registers cannot be read back, or the guest crashed. *)
Fail ==
  /\ status = "running"
  /\ Complete \/ OutOfReach
  /\ status' = "failed"
  /\ UNCHANGED <<list, pos, taken, log>>

Next == Fetch \/ Take \/ Succeed \/ Fail

Spec == Init /\ [][Next]_vars
================================================================================
