----------------------------- MODULE SaveMeasures ------------------------------
(***************************************************************************)
(* save_measures: once every guest has stopped, the VMM walks the command  *)
(* list of each VM and its measures region side by side, and writes one    *)
(* record per command.  The two pointers _cmd and _m advance separately,   *)
(* and what a record says is right only as long as they stay in step.      *)
(*                                                                         *)
(* The region was zeroed before the guest ran: a stamp that was never      *)
(* taken reads as Zero.                                                    *)
(***************************************************************************)
EXTENDS ScaCommands

CONSTANT Zero

VARIABLES
  cmds,      (* the command list of each VM                        *)
  measures,  (* what each guest left in its measures region        *)
  pc,        (* "open", "vm", "command" or "done"                  *)
  v, i,      (* the two loop counters                              *)
  cmd, m,    (* _cmd and _m, as offsets                            *)
  file,      (* the records in the output file                     *)
  result     (* the value returned                                 *)

inputs == <<cmds, measures>>

vars == <<inputs, pc, v, i, cmd, m, file, result>>

VMs == 0..(NUMBEROFROLE - 1)

(* timestamp_s, with as many of its five timestamps as the command uses. *)
Record == [id : Nat, cmd : Primitive, vm_id : VMs, ts : Seq(Stamp \cup {Zero})]

TypeOK ==
  /\ cmds \in [VMs -> CmdLists]
  /\ measures \in [VMs -> Seq(Stamp)]
  /\ pc \in {"open", "vm", "command", "done"}
  /\ v \in 0..NUMBEROFROLE
  /\ i \in Nat /\ cmd \in Nat /\ m \in Nat
  /\ file \in Seq(Record)
  /\ result \in {-1, 0}

(* The stamps of a guest that crashed in the access of command k. *)
CrashedAt(l, k) ==
  Append(StampsOfFirst(l, k - 1), StampOf(l[k], 0))

(* What a guest can have left: all of its stamps, or those up to the first *)
(* access that it cannot translate.                                        *)
Left(l) ==
  LET faults == {k \in 1..Len(l) : /\ l[k].cmd \in {"READ", "WRITE"}
                                   /\ ~Mapped(l[k].addr)
                                   /\ l[k].repeat > 0}
  IN  IF faults = {} THEN Expected(l)
      ELSE CrashedAt(l, CHOOSE k \in faults : \A j \in faults : k <= j)

Init ==
  /\ cmds \in [VMs -> CmdLists]
  /\ measures = [r \in VMs |-> Left(cmds[r])]
  /\ pc = "open"
  /\ v = 0 /\ i = 0 /\ cmd = 0 /\ m = 0
  /\ file = <<>>
  /\ result = 0

Finish(code) == pc' = "done" /\ result' = code

OpenFile ==
  /\ pc = "open"
  /\ pc' = "vm"
  /\ UNCHANGED <<inputs, v, i, cmd, m, file, result>>

(* The mutant: the last command of each VM is left out. *)
MoreButLast == i + 1 < Len(cmds[v])

(* The condition of the loop over the commands of a VM. *)
More == i < Len(cmds[v])

InLoop == pc = "command" /\ More

Cur == cmds[v][cmd + 1]

(* The mutant: a failure is reported as in save_commands. *)
FailurePositive == 1

Failure == -1

(* fopen or fwrite fails: the records written so far stay. *)
IOFails ==
  /\ pc = "open" \/ (InLoop /\ Cur.cmd \notin {"PRINT", "UNKNOWN"})
  /\ Finish(Failure)
  /\ UNCHANGED <<inputs, v, i, cmd, m, file>>

(* The mutant: _m is set once, before the loop over the VMs. *)
StampKept == m

FirstStamp == 0

StartVm ==
  /\ pc = "vm"
  /\ v < NUMBEROFROLE
  /\ i' = 0 /\ cmd' = 0 /\ m' = FirstStamp
  /\ pc' = "command"
  /\ UNCHANGED <<inputs, v, file, result>>

(* *(_m++), n of them *)
StampAt(k) == IF k <= Len(measures[v]) THEN measures[v][k] ELSE Zero

WriteRecord(n) ==
  /\ file' = Append(file, [id |-> i, cmd |-> Cur.cmd, vm_id |-> v,
                           ts |-> [k \in 1..n |-> StampAt(m + k)]])
  /\ m' = m + n
  /\ cmd' = cmd + 1
  /\ i' = i + 1
  /\ UNCHANGED <<inputs, pc, v, result>>

SaveUntimed == InLoop /\ Cur.cmd \in {"WAIT", "EXIT"} /\ WriteRecord(0)

SaveMeasure == InLoop /\ Cur.cmd = "MEASURE" /\ WriteRecord(1)

SaveAccess == InLoop /\ Cur.cmd \in {"READ", "WRITE"} /\ WriteRecord(2)

(* The mutant: default jumps over the increment of i. *)
IndexKept == i

IndexAfterSkip == i + 1

(* default: continue, which moves i and not _cmd. *)
SkipCommand ==
  /\ InLoop
  /\ Cur.cmd \in {"PRINT", "UNKNOWN"}
  /\ i' = IndexAfterSkip
  /\ UNCHANGED <<inputs, pc, v, cmd, m, file, result>>

(* The mutant: the loop over the VMs does not move on. *)
SameVm == v

NextVm == v + 1

EndVm ==
  /\ pc = "command"
  /\ ~More
  /\ v' = NextVm
  /\ pc' = "vm"
  /\ UNCHANGED <<inputs, i, cmd, m, file, result>>

Return ==
  /\ pc = "vm"
  /\ v = NUMBEROFROLE
  /\ Finish(0)
  /\ UNCHANGED <<inputs, v, i, cmd, m, file>>

Terminated == pc = "done" /\ UNCHANGED vars

Step == OpenFile \/ IOFails \/ StartVm \/ SaveUntimed \/ SaveMeasure \/ SaveAccess
          \/ SkipCommand \/ EndVm \/ Return

Next == Step \/ Terminated

Spec == Init /\ [][Next]_vars /\ WF_vars(Step)

--------------------------------------------------------------------------------
(* Properties.                                                             *)

(* The stamp that command k of VM r left as its n-th, if it was reached.   *)
Took(r, k, n) ==
  LET place == Len(StampsOfFirst(cmds[r], k - 1)) + n
  IN  IF n <= Width(cmds[r][k]) /\ place <= Len(measures[r])
      THEN measures[r][place] ELSE Zero

(***************************************************************************)
(* A record says of command id of VM vm_id ("cmd idx", common.h:103) what  *)
(* that command left: its kind, and its own stamps and not those of a      *)
(* neighbour, also when a guest crashed and its last stamps are missing.   *)
(***************************************************************************)
RecordsAreTrue ==
  \A k \in 1..Len(file) :
    LET rec == file[k] IN
    /\ rec.cmd = cmds[rec.vm_id][rec.id + 1].cmd
    /\ \A n \in 1..Len(rec.ts) : rec.ts[n] = Took(rec.vm_id, rec.id + 1, n)

(* The commands that leave a record (every one but the default case).      *)
Recorded(r) == {k \in 1..Len(cmds[r]) : cmds[r][k].cmd \notin {"PRINT", "UNKNOWN"}}

HasRecord(r, k) == \E j \in 1..Len(file) : file[j].vm_id = r /\ file[j].id = k - 1

(* Each command up to the first that leaves no record has its own.         *)
Kept(r) ==
  \A k \in Recorded(r) : (\A j \in 1..(k - 1) : j \in Recorded(r)) => HasRecord(r, k)

(***************************************************************************)
(* When save_measures returns 0, every command has its record, in the file *)
(* of one run, up to the first command of its VM that leaves none.         *)
(***************************************************************************)
NoneDroppedBefore == pc = "done" /\ result = 0 => \A r \in VMs : Kept(r)

(* The same of all commands that save_measures knows how to record: none   *)
(* is dropped in silence because of another one.                           *)
NoneDropped ==
  pc = "done" /\ result = 0 =>
    \A r \in VMs : \A k \in Recorded(r) : HasRecord(r, k)

(* No command is recorded twice, and the records of a VM keep the order of *)
(* its list: the reader of the file rebuilds the timeline from the order.  *)
OrderKept ==
  \A j, k \in 1..Len(file) : j < k =>
    \/ file[j].vm_id < file[k].vm_id
    \/ file[j].vm_id = file[k].vm_id /\ file[j].id < file[k].id

(* The walk ends, a list with unknown commands included. *)
SaveReturns == <>(pc = "done")

--------------------------------------------------------------------------------
(* The inductive invariant.                                                *)

(* The commands of the experiments: none but WAIT has a repeat of its own. *)
RepeatOnce ==
  \A l \in CmdLists : \A k \in 1..Len(l) :
    l[k].cmd \in {"MEASURE", "READ", "WRITE"} => l[k].repeat = 1

(* The two pointers are in step, until the walk meets a command it cannot  *)
(* record and stays there for the rest of the list.                        *)
WalkInv ==
  /\ pc = "command" =>
       /\ v \in VMs /\ i <= Len(cmds[v])
       /\ cmd = i \/ (cmd < i /\ Cur.cmd \in {"PRINT", "UNKNOWN"})
       /\ RepeatOnce => m = Len(StampsOfFirst(cmds[v], cmd))
  /\ pc = "done" /\ result = 0 => v = NUMBEROFROLE
  /\ result = -1 => pc = "done"

(* The records so far are of earlier VMs, or of earlier commands.          *)
FileInv ==
  /\ pc = "open" => file = <<>>
  /\ \A k \in 1..Len(file) :
       /\ pc = "vm" => file[k].vm_id < v
       /\ pc = "command" => file[k].vm_id < v \/ (file[k].vm_id = v /\ file[k].id < i)

KeptInv ==
  /\ \A r \in VMs : r < v => Kept(r)
  /\ pc = "command" => \A k \in 1..cmd : HasRecord(v, k)

IInv == TypeOK /\ WalkInv /\ FileInv /\ KeptInv /\ OrderKept /\ (RepeatOnce => RecordsAreTrue)
================================================================================
