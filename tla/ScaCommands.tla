------------------------------ MODULE ScaCommands ------------------------------
(***************************************************************************)
(* The vocabulary shared by the VMM and its guests (common/common.h): the  *)
(* VM roles, the primitives a VMM can ask of a guest, the command records  *)
(* of a test bench, and the timestamps ("stamps") each command leaves in   *)
(* the measures region of the guest that serves it.                        *)
(*                                                                         *)
(* The field wait (a delay in microseconds before the answer) only takes   *)
(* time and is left out.  An address is the region it lies in.             *)
(***************************************************************************)
EXTENDS Integers, Sequences

Seqs == INSTANCE SequencesExt

CONSTANTS
  Role,      (* the VMs of the bench: a subset of the values of enum ROLE  *)
  Value,     (* the values a WRITE can store                               *)
  NoValue,   (* what a stamp records when the command stores nothing       *)
  CmdLists   (* the command lists a VM may be given                        *)

VICTIM        == 0
ATTACKER      == 1
DEFENDER      == 2
NUMBEROFROLE  == 3

(* SCA_PRIMITIVE; "UNKNOWN" stands for every byte outside the enumeration. *)
Primitive == {"WAIT", "MEASURE", "READ", "WRITE", "PRINT", "EXIT", "UNKNOWN"}

(***************************************************************************)
(* Where the target of a command lies.  OWN: the own-pages region (slot 4).*)
(* SHARED: the shared-pages region (slot 5).  BEYOND: above the 4 GiB that *)
(* the guest page tables map.  NULL: no target (MEASURE, WAIT, ...).       *)
(***************************************************************************)
Target == {"NULL", "OWN", "SHARED", "BEYOND"}

(* command_s *)
Command ==
  [cmd : Primitive, addr : Target, value : Value \cup {NoValue}, repeat : Nat]

(* The page tables of a guest translate the address. *)
Mapped(addr) == addr # "BEYOND"

(***************************************************************************)
(* A memory slot stands behind the address: vm_init gives slot 5 to every  *)
(* VM but the defender, whose accesses to the shared region exit to the    *)
(* VMM as MMIO.                                                            *)
(***************************************************************************)
Backed(r, addr) == Mapped(addr) /\ ~(r = DEFENDER /\ addr = "SHARED")

(* How many stamps the guest takes for a command (wait_action). *)
Width(c) ==
  CASE c.cmd = "MEASURE"           -> c.repeat
    [] c.cmd \in {"READ", "WRITE"} -> 2 * c.repeat
    [] OTHER                       -> 0

(* A stamp: the primitive served, the target and value the guest used, and *)
(* the rank of the stamp among those of its command.                       *)
Stamp ==
  [op : Primitive, addr : Target, value : Value \cup {NoValue}, n : Nat]

(* The n-th stamp (from 0) that serving command c ought to leave. *)
StampOf(c, n) ==
  [op    |-> c.cmd,
   addr  |-> IF c.cmd = "MEASURE" THEN "NULL" ELSE c.addr,
   value |-> IF c.cmd = "WRITE" THEN c.value ELSE NoValue,
   n     |-> n]

(* The stamps that serving one command, the first n commands of a list, or *)
(* the whole list ought to leave.                                          *)
StampsOf(c) == [k \in 1..Width(c) |-> StampOf(c, k - 1)]

StampsOfFirst(l, n) == Seqs!FlattenSeq([k \in 1..n |-> StampsOf(l[k])])

Expected(l) == StampsOfFirst(l, Len(l))

(* The stamps there are when p commands of the list have been asked for    *)
(* and the last of them has left t stamps.                                 *)
StampsUpTo(l, p, t) ==
  IF p = 0 THEN <<>> ELSE StampsOfFirst(l, p - 1) \o [k \in 1..t |-> StampOf(l[p], k - 1)]

(***************************************************************************)
(* What tools/experiments.py generates: every list ends with the EXIT      *)
(* command, and EXIT occurs nowhere else.                                  *)
(***************************************************************************)
ExitTerminated(l) ==
  /\ Len(l) > 0
  /\ \A i \in 1..Len(l) : (l[i].cmd = "EXIT") <=> (i = Len(l))

ASSUME RoleAssumption == Role \subseteq 0..(NUMBEROFROLE - 1)

ASSUME NoValueAssumption == NoValue \notin Value

ASSUME CmdListsAssumption ==
  \A l \in CmdLists : l \in Seq(Command) /\ ExitTerminated(l)
================================================================================
