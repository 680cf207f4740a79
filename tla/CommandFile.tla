------------------------------ MODULE CommandFile ------------------------------
(***************************************************************************)
(* How a VM comes by its command list: tools/gen_measures.py builds the    *)
(* lists of an experiment (tools/experiments.py), checks that the stamps   *)
(* fit the measures region and writes three headers and all commands to a  *)
(* file; load_commands of the VMM reads the headers, allocates what they   *)
(* say and deals the commands out.  The writer may die half-way: what it   *)
(* has written by then is what the VMM finds.                              *)
(*                                                                         *)
(* A random address is the region it is drawn from; a random value to be   *)
(* written is any member of Value.  The experiments have a command per     *)
(* iteration, 1000 or 100000 of them in the code, one of Iterations here.  *)
(***************************************************************************)
EXTENDS FiniteSets, ScaCommands

Sets == INSTANCE FiniteSetsExt

CONSTANTS
  Iterations,   (* nb_mes *)
  Samples,      (* VM_MEM_MEASURES_SIZE / 8: the stamps a guest has room for *)
  Repeat        (* the repeat of a command, 1 unless an experiment gives one *)

VMs == 0..(NUMBEROFROLE - 1)

--------------------------------------------------------------------------------
(* The experiments.                                                        *)

Cmd(cmd, addr, value, repeat) ==
  [cmd |-> cmd, addr |-> addr, value |-> value, repeat |-> repeat]

CmdMeasure      == Cmd("MEASURE", "NULL", NoValue, Repeat)
CmdRead(addr)   == Cmd("READ", addr, NoValue, Repeat)
CmdWrite(addr, value) == Cmd("WRITE", addr, value, Repeat)
CmdExit         == Cmd("EXIT", "NULL", NoValue, 1)

Times(n, c) == [k \in 1..n |-> c]

Writes(addr, values) == [k \in DOMAIN values |-> CmdWrite(addr, values[k])]

Preamble(addr) == <<CmdMeasure, CmdRead(addr)>>

(* The attacker does what body says, the others only their preamble. *)
AttackerAlone(addr, body) ==
  [r \in VMs |-> Preamble(addr) \o (IF r = ATTACKER THEN body ELSE <<>>) \o <<CmdExit>>]

Exp0(n, addr) == AttackerAlone(addr, Times(n, CmdRead(addr)))

Exp1(n, addr) ==
  [Exp0(n, addr) EXCEPT
     ![VICTIM] = Times(15, CmdMeasure) \o Times(n + 1, CmdRead(addr)) \o <<CmdExit>>]

Exp2(addr, values) == AttackerAlone(addr, Writes(addr, values))

Exp3(addr0, values0, addr1, values1) ==
  AttackerAlone(addr0, Writes(addr0, values0) \o Writes(addr1, values1))

Exp4(n, addr) ==
  [r \in VMs |-> Preamble(addr) \o Times(n, CmdMeasure) \o <<CmdExit>>]

(* What main of gen_measures can make of n iterations. *)
Experiments(n) ==
  {Exp0(n, "OWN"), Exp1(n, "OWN"), Exp1(n, "SHARED"), Exp4(n, "SHARED")}
    \cup {Exp2("SHARED", w) : w \in [1..n -> Value]}
    \cup {Exp3("SHARED", w0, "OWN", w1) : w0, w1 \in [1..n -> Value]}

ASSUME SizesAssumption == Iterations \subseteq Nat /\ Samples \in Nat /\ Repeat \in Nat

(* The guests are given what the experiments make, and nothing else. *)
ASSUME GeneratedAssumption ==
  \A n \in Iterations : \A lists \in Experiments(n) : \A r \in VMs : lists[r] \in CmdLists

(* How many commands of a list are of one of the kinds. *)
Count(l, kinds) == Cardinality({k \in DOMAIN l : l[k].cmd \in kinds})

(* The mutant: the second stamp of a READ is forgotten. *)
MaxNbOfMeasuresOneRead(lists) ==
  Sets!Max({Count(lists[r], {"MEASURE", "READ"}) + 2 * Count(lists[r], {"WRITE"}) : r \in VMs})

(* max_nb_of_measures *)
MaxNbOfMeasures(lists) ==
  Sets!Max({Count(lists[r], {"MEASURE"}) + 2 * Count(lists[r], {"READ", "WRITE"}) : r \in VMs})

Header(r, n) == [role |-> r, nb_measures |-> n]

(* The mutant: the three headers are copies of the first. *)
HeadersOfFirst(lists) == [k \in 1..NUMBEROFROLE |-> Header(k - 1, Len(lists[VICTIM]))]

(* The records of write_cmd: headers, then commands, in the order of roles. *)
Headers(lists) == [k \in 1..NUMBEROFROLE |-> Header(k - 1, Len(lists[k - 1]))]

Commands(lists) ==
  Seqs!FlattenSeq([k \in 1..NUMBEROFROLE |->
    [j \in DOMAIN lists[k - 1] |-> [vm_role |-> k - 1, cmd |-> lists[k - 1][j]]]])

Records(lists) == Headers(lists) \o Commands(lists)

--------------------------------------------------------------------------------
VARIABLES
  pc,      (* where the writer, then the VMM, is                *)
  data,    (* the lists of the experiment, one for each VM      *)
  out,     (* the records that are still to be written          *)
  file,    (* the records in the file                           *)
  i,       (* the records of the file that the VMM has read     *)
  room,    (* the number of commands malloc was asked to hold   *)
  cmds,    (* vm->cmds, its length is vm->nb_cmd                *)
  result   (* the value load_commands returns                   *)

vars == <<pc, data, out, file, i, room, cmds, result>>

HeaderRecord  == [role : VMs, nb_measures : Nat]
CommandRecord == [vm_role : VMs, cmd : Command]

TypeOK ==
  /\ pc \in {"check", "write", "open", "headers", "append", "done", "exited"}
  /\ data \in [VMs -> Seq(Command)]
  /\ out \in Seq(HeaderRecord \cup CommandRecord)
  /\ file \in Seq(HeaderRecord \cup CommandRecord)
  /\ i \in 0..Len(file)
  /\ room \in [VMs -> Nat]
  /\ cmds \in [VMs -> Seq(Command)]
  /\ result \in {-1, 0}

Init ==
  /\ pc = "check"
  /\ \E n \in Iterations : data \in Experiments(n)
  /\ out = <<>> /\ file = <<>>
  /\ i = 0
  /\ room = [r \in VMs |-> 0]
  /\ cmds = [r \in VMs |-> <<>>]
  /\ result = 0

(* The assertion of gen_measures holds, and the file is opened. *)
StartWriting ==
  /\ pc = "check"
  /\ MaxNbOfMeasures(data) < Samples
  /\ out' = Records(data)
  /\ pc' = "write"
  /\ UNCHANGED <<data, file, i, room, cmds, result>>

(* "Too many measures increase VMs memory": no file is written. *)
RefuseToWrite ==
  /\ pc = "check"
  /\ MaxNbOfMeasures(data) >= Samples
  /\ pc' = "open"
  /\ UNCHANGED <<data, out, file, i, room, cmds, result>>

WriteRecord ==
  /\ pc = "write"
  /\ out # <<>>
  /\ file' = Append(file, Head(out))
  /\ out' = Tail(out)
  /\ UNCHANGED <<pc, data, i, room, cmds, result>>

(* The writer closes the file, or dies before: the disk is full, or it is  *)
(* interrupted.  Then the VMM is started.                                  *)
WriterEnds ==
  /\ pc = "write"
  /\ pc' = "open"
  /\ UNCHANGED <<data, out, file, i, room, cmds, result>>

(* The mutant: the failure is EXIT_FAILURE, which main does not recognise. *)
FailurePositive == 1

Failure == -1

(* fopen fails, or fread returns less than the headers. *)
LoadFails ==
  /\ pc = "open"
  /\ Len(file) < NUMBEROFROLE
  /\ result' = Failure
  /\ pc' = "done"
  /\ UNCHANGED <<data, out, file, i, room, cmds>>

ReadHeaders ==
  /\ pc = "open"
  /\ Len(file) >= NUMBEROFROLE
  /\ pc' = "headers"
  /\ UNCHANGED <<data, out, file, i, room, cmds, result>>

(* One round of the loop over the headers. *)
Allocate ==
  /\ pc = "headers"
  /\ i < NUMBEROFROLE
  /\ room' = [room EXCEPT ![file[i + 1].role] = file[i + 1].nb_measures]
  /\ cmds' = [cmds EXCEPT ![file[i + 1].role] = <<>>]
  /\ i' = i + 1
  /\ UNCHANGED <<pc, data, out, file, result>>

(* malloc returns NULL: exit(EXIT_FAILURE). *)
AllocateFails ==
  /\ pc = "headers"
  /\ i < NUMBEROFROLE
  /\ pc' = "exited"
  /\ UNCHANGED <<data, out, file, i, room, cmds, result>>

HeadersEnd ==
  /\ pc = "headers"
  /\ i = NUMBEROFROLE
  /\ pc' = "append"
  /\ UNCHANGED <<data, out, file, i, room, cmds, result>>

(* The mutant: a case without continue falls into the next one. *)
ReceivesFallingThrough(r, role) == r >= role

Receives(r, role) == r = role

(* One round of the loop over the commands; room is not looked at. *)
AppendCommand ==
  /\ pc = "append"
  /\ i < Len(file)
  /\ cmds' = [r \in VMs |-> IF Receives(r, file[i + 1].vm_role)
                            THEN Append(cmds[r], file[i + 1].cmd) ELSE cmds[r]]
  /\ i' = i + 1
  /\ UNCHANGED <<pc, data, out, file, room, result>>

(* fread finds no further command. *)
EndOfFile ==
  /\ pc = "append"
  /\ i = Len(file)
  /\ pc' = "done"
  /\ UNCHANGED <<data, out, file, i, room, cmds, result>>

Terminated == pc \in {"done", "exited"} /\ UNCHANGED vars

Next ==
  \/ StartWriting \/ RefuseToWrite \/ WriteRecord \/ WriterEnds
  \/ LoadFails \/ ReadHeaders \/ Allocate \/ AllocateFails \/ HeadersEnd
  \/ AppendCommand \/ EndOfFile \/ Terminated

Spec == Init /\ [][Next]_vars

--------------------------------------------------------------------------------
(* Properties.                                                             *)

Loaded == pc = "done" /\ result = 0

(* load_commands appends without looking at what it has allocated: a VM    *)
(* never gets more commands than its header announced, in no prefix of the *)
(* file that a dying writer leaves.                                        *)
WithinAllocation == \A r \in VMs : Len(cmds[r]) <= room[r]

(***************************************************************************)
(* What a VM gets is a prefix of what the experiment meant for it, and all *)
(* of it when the file is whole: a list of the kind that the guests are    *)
(* made for, closed by EXIT.                                               *)
(***************************************************************************)
LoadedIsGenerated ==
  /\ \A r \in VMs : Seqs!IsPrefix(cmds[r], data[r])
  /\ Loaded /\ out = <<>> => \A r \in VMs : cmds[r] = data[r] /\ cmds[r] \in CmdLists

(* "return the number of timestamps needed by data experiment"             *)
(* (experiments.py:281), which gen_measures compares with the size of the  *)
(* measures region: the stamps of a loaded list fit the region.            *)
MeasuresFit == Loaded => \A r \in VMs : Len(Expected(cmds[r])) <= Samples

(* ":param nb: number of commands" (gen_measures.py:83): a VM has got as   *)
(* many commands as the header of the file says.                           *)
LoadedIsWhole == Loaded => \A r \in VMs : Len(cmds[r]) = room[r]

--------------------------------------------------------------------------------
(* The inductive invariant.                                                *)

Fits(lists) == MaxNbOfMeasures(lists) < Samples

(* What is in the file and what is still to be written make up the lists   *)
(* of one experiment that passed the assertion, or there is no file.       *)
WriterInv ==
  /\ \E n \in Iterations : data \in Experiments(n)
  /\ file \o out # <<>> => file \o out = Records(data) /\ Fits(data)
  /\ pc = "check" => file \o out = <<>>

(* Where load_commands is in the file. *)
ReaderInv ==
  /\ i <= Len(file)
  /\ pc \in {"check", "write", "open"} => i = 0
  /\ pc = "headers" => i <= NUMBEROFROLE /\ NUMBEROFROLE <= Len(file)
  /\ pc = "append" => NUMBEROFROLE <= i
  /\ result = -1 => pc = "done"
  /\ Loaded => NUMBEROFROLE <= i /\ i = Len(file)

(* How many commands there are for the roles before r. *)
Before(lists, r) ==
  CASE r = VICTIM   -> 0
    [] r = ATTACKER -> Len(lists[VICTIM])
    [] OTHER        -> Len(lists[VICTIM]) + Len(lists[ATTACKER])

(* How many of the commands that have been read are for VM r: they stand   *)
(* behind the headers and the commands of the roles before it.             *)
Dealt(r) ==
  LET read == i - NUMBEROFROLE - Before(data, r)
  IN  IF read <= 0 THEN 0 ELSE IF read <= Len(data[r]) THEN read ELSE Len(data[r])

DealtInv ==
  /\ room = [r \in VMs |-> IF r < i THEN Len(data[r]) ELSE 0]
  /\ cmds = [r \in VMs |-> [k \in 1..Dealt(r) |-> data[r][k]]]

IInv == TypeOK /\ WriterInv /\ ReaderInv /\ DealtInv
================================================================================
