----------------------------- MODULE MCCommandFile -----------------------------
(***************************************************************************)
(* CommandFile with one or two iterations and a measures region that all   *)
(* experiments fit but Exp1 with two iterations.                           *)
(***************************************************************************)
EXTENDS CommandFile

CONSTANTS v1, v2

MCRole == VMs

MCValue == {v1, v2}

MCIterations == {1, 2}

(* Every list that an experiment can give a VM. *)
MCCmdLists ==
  UNION { {lists[r] : lists \in Experiments(n), r \in VMs} : n \in Iterations }
================================================================================
