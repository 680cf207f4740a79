------------------------------- MODULE VmThread --------------------------------
(***************************************************************************)
(* One VM of the bench, from the moment its thread leaves the barrier: the *)
(* VMM thread (run_vm, handle_pmio, handle_mmio) and the bare-metal guest  *)
(* it runs (wait_action, exit_halt).  The two alternate through KVM_RUN    *)
(* and share the kvm_run page, the MMIO page that carries the parameters   *)
(* of a command, and the measures region.  The thread of one VM shares     *)
(* nothing with the thread of another after the barrier, so one VM, of any *)
(* role, is the whole component.                                           *)
(*                                                                         *)
(* KVM itself is external.  It completes the guest instruction that caused *)
(* an I/O or MMIO exit at the next KVM_RUN; it leaves the guest when a     *)
(* signal reaches the thread (KVM_RUN returns -1, exit_reason is           *)
(* KVM_EXIT_INTR), at most MaxInterrupts times in a behaviour; and it may  *)
(* find that it cannot run the guest (a failed entry, an instruction it    *)
(* cannot fetch or emulate), which every later KVM_RUN finds again.        *)
(***************************************************************************)
EXTENDS ScaCommands

CONSTANT MaxInterrupts

ASSUME MaxInterruptsAssumption == MaxInterrupts \in Nat

KVM_EXIT_INTR == 10
KVM_EXIT_INTERNAL_ERROR == 17

VARIABLES
  (* the inputs of the thread, set by main and never written again *)
  role,          (* vm->vm_role *)
  cmds,          (* vm->cmds    *)
  (* run_vm *)
  pc,            (* where the thread is: before KVM_RUN, inside it, ...  *)
  ret,           (* its exit status                                      *)
  next,          (* how far the pointer cmd has moved into cmds          *)
  nb_timestamp,  (* the stamps that the commands answered so far require *)
  (* the kvm_run page *)
  exit_reason,
  data,          (* the byte at io.data_offset *)
  (* guest memory *)
  mmio,          (* the parameters of a command          *)
  measures,      (* the stamps, in the order of writing  *)
  retcode,       (* 42 stands at VM_EXIT_RETURN_CODE_ADDR *)
  (* the vcpu *)
  gpc,           (* where the guest is in wait_action or exit_halt        *)
  al,            (* the command byte that the last inb returned           *)
  i,             (* the loop counter of wait_action                       *)
  loaded,        (* addr and value of wait_action                         *)
  (* the environment *)
  interrupts     (* how many signals have interrupted KVM_RUN *)

inputs == <<role, cmds>>
thread == <<ret, next, nb_timestamp>>
memory == <<mmio, measures, retcode>>
locals == <<al, i, loaded>>

vars == <<inputs, pc, thread, exit_reason, data, memory, gpc, locals, interrupts>>

ExitReason == {"UNKNOWN", "IO_IN", "IO_OUT", "MMIO", "HLT", "SHUTDOWN", "INTR",
               "INTERNAL_ERROR"}

Parameters == [addr : Target, value : Value \cup {NoValue}]

TypeOK ==
  /\ role \in Role
  /\ cmds \in CmdLists
  /\ pc \in {"kvm_run", "guest", "exit", "check", "done"}
  /\ ret \in {-1, 0, 1, KVM_EXIT_INTR, KVM_EXIT_INTERNAL_ERROR}
  /\ next \in 0..Len(cmds)
  /\ nb_timestamp \in Nat
  /\ exit_reason \in ExitReason
  /\ data \in Primitive
  /\ mmio \in [addr : Target, value : Value \cup {NoValue}, repeat : Nat]
  /\ measures \in Seq(Stamp)
  /\ retcode \in BOOLEAN
  /\ gpc \in {"inb", "in", "switch", "loop", "access", "mmio", "post",
              "puts", "out", "hlt", "halted", "dead", "stuck"}
  /\ al \in Primitive
  /\ i \in Nat
  /\ loaded \in Parameters
  /\ interrupts \in 0..MaxInterrupts

Init ==
  /\ role \in Role
  /\ cmds \in CmdLists
  /\ pc = "kvm_run"
  /\ ret = 1
  /\ next = 0
  /\ nb_timestamp = 0
  /\ exit_reason = "UNKNOWN"
  /\ data = "UNKNOWN"
  /\ mmio = [addr |-> "NULL", value |-> NoValue, repeat |-> 0]
  /\ measures = <<>>
  /\ retcode = FALSE
  /\ gpc = "inb"
  /\ al = "UNKNOWN"
  /\ i = 0
  /\ loaded = [addr |-> "NULL", value |-> NoValue]
  /\ interrupts = 0

--------------------------------------------------------------------------------
(* KVM_RUN.                                                                *)

(* The thread enters the guest; KVM first completes the instruction that   *)
(* caused the exit before: inb receives the byte of the kvm_run page.      *)
KvmRun ==
  /\ pc = "kvm_run"
  /\ pc' = "guest"
  /\ gpc' = CASE gpc = "in"   -> "switch"
              [] gpc = "mmio" -> "post"
              [] gpc = "out"  -> "inb"
              [] OTHER        -> gpc
  /\ al' = IF gpc = "in" THEN data ELSE al
  /\ UNCHANGED <<inputs, thread, exit_reason, data, memory, i, loaded, interrupts>>

(* A signal makes KVM_RUN return -1 between two instructions of the guest. *)
Interrupt ==
  /\ pc = "guest"
  /\ interrupts < MaxInterrupts
  /\ interrupts' = interrupts + 1
  /\ exit_reason' = "INTR"
  /\ pc' = "exit"
  /\ ret' = -1
  /\ UNCHANGED <<inputs, next, nb_timestamp, data, memory, gpc, locals>>

--------------------------------------------------------------------------------
(* The guest.                                                              *)

GuestAt(loc) == pc = "guest" /\ gpc = loc

(* The guest stops at loc and KVM_RUN returns for the given reason. *)
ExitGuest(reason, loc) ==
  /\ exit_reason' = reason
  /\ pc' = "exit"
  /\ gpc' = loc

(* inb(PMIO_READ_CMD) *)
GuestAsk ==
  /\ GuestAt("inb")
  /\ ExitGuest("IO_IN", "in")
  /\ UNCHANGED <<inputs, thread, data, memory, locals, interrupts>>

(* The mutant: EXIT goes on with the loop instead of returning. *)
BranchWithoutReturn ==
  CASE al \in {"READ", "WRITE", "MEASURE"} -> "loop"
    [] al \in {"PRINT", "WAIT", "EXIT"}    -> "inb"
    [] al = "UNKNOWN"                      -> "puts"

(* The switch on the command byte. *)
Branch ==
  CASE al \in {"READ", "WRITE", "MEASURE"} -> "loop"
    [] al \in {"PRINT", "WAIT"}            -> "inb"
    [] al = "EXIT"                         -> "hlt"
    [] al = "UNKNOWN"                      -> "puts"

(* The mutant: i is one variable of wait_action that is never set back. *)
LoopKeepsIndex == i

LoopStart == 0

GuestSwitch ==
  /\ GuestAt("switch")
  /\ gpc' = Branch
  /\ i' = LoopStart
  /\ UNCHANGED <<inputs, pc, thread, exit_reason, data, memory, al, loaded, interrupts>>

(* The mutant: one round too many. *)
LoopAgainInclusive == i <= mmio.repeat

(* The loop condition; repeat is read again in each round. *)
LoopAgain == i < mmio.repeat

GuestLoopEnd ==
  /\ GuestAt("loop")
  /\ ~LoopAgain
  /\ gpc' = "inb"
  /\ UNCHANGED <<inputs, pc, thread, exit_reason, data, memory, locals, interrupts>>

(* rdtsc into the measures region: what the guest is doing, and with what. *)
WriteStamp(addr, value, n) ==
  measures' = Append(measures, [op |-> al, addr |-> addr, value |-> value, n |-> n])

GuestMeasure ==
  /\ GuestAt("loop")
  /\ LoopAgain
  /\ al = "MEASURE"
  /\ WriteStamp("NULL", NoValue, i)
  /\ i' = i + 1
  /\ UNCHANGED <<inputs, pc, thread, exit_reason, data, mmio, retcode, gpc, al,
                 loaded, interrupts>>

Stored(value) == IF al = "WRITE" THEN value ELSE NoValue

(* The mutant: the stamp goes with the target of the round before. *)
ParametersLoaded == loaded

(* addr and value, from the MMIO page. *)
ParametersRead == [addr |-> mmio.addr, value |-> Stored(mmio.value)]

(* READ and WRITE load their parameters in each round of the loop, and     *)
(* stamp before the access ...                                             *)
GuestStampBefore ==
  /\ GuestAt("loop")
  /\ LoopAgain
  /\ al \in {"READ", "WRITE"}
  /\ loaded' = [addr |-> mmio.addr, value |-> Stored(mmio.value)]
  /\ WriteStamp(ParametersRead.addr, ParametersRead.value, 2 * i)
  /\ gpc' = "access"
  /\ UNCHANGED <<inputs, pc, thread, exit_reason, data, mmio, retcode, al, i, interrupts>>

GuestAccess ==
  /\ GuestAt("access")
  /\ Backed(role, loaded.addr)
  /\ gpc' = "post"
  /\ UNCHANGED <<inputs, pc, thread, exit_reason, data, memory, locals, interrupts>>

(* No memory slot stands behind the address: KVM hands the access over. *)
GuestAccessUnbacked ==
  /\ GuestAt("access")
  /\ Mapped(loaded.addr)
  /\ ~Backed(role, loaded.addr)
  /\ ExitGuest("MMIO", "mmio")
  /\ UNCHANGED <<inputs, thread, data, memory, locals, interrupts>>

(* A page fault without a handler ends in a triple fault. *)
GuestFault ==
  /\ GuestAt("access")
  /\ ~Mapped(loaded.addr)
  /\ ExitGuest("SHUTDOWN", "dead")
  /\ UNCHANGED <<inputs, thread, data, memory, locals, interrupts>>

(* ... and after it. *)
GuestStampAfter ==
  /\ GuestAt("post")
  /\ WriteStamp(loaded.addr, loaded.value, 2 * i + 1)
  /\ i' = i + 1
  /\ gpc' = "loop"
  /\ UNCHANGED <<inputs, pc, thread, exit_reason, data, mmio, retcode, al, loaded, interrupts>>

(* slow_vmm_printf: one exit stands for the exits of its characters. *)
GuestPuts ==
  /\ GuestAt("puts")
  /\ ExitGuest("IO_OUT", "out")
  /\ UNCHANGED <<inputs, thread, data, memory, locals, interrupts>>

(* exit_halt *)
GuestHalt ==
  /\ GuestAt("hlt")
  /\ retcode' = TRUE
  /\ ExitGuest("HLT", "halted")
  /\ UNCHANGED <<inputs, thread, data, mmio, measures, locals, interrupts>>

(* KVM can no longer run the guest ... *)
GuestBreaks ==
  /\ pc = "guest"
  /\ gpc' = "stuck"
  /\ UNCHANGED <<inputs, pc, thread, exit_reason, data, memory, locals, interrupts>>

(* ... and says so at every KVM_RUN. *)
GuestStuck ==
  /\ GuestAt("stuck")
  /\ ExitGuest("INTERNAL_ERROR", "stuck")
  /\ UNCHANGED <<inputs, thread, data, memory, locals, interrupts>>

--------------------------------------------------------------------------------
(* The exits, handled by the thread.                                       *)

Exited(reason) == pc = "exit" /\ exit_reason = reason

Asked == cmds[next + 1]

(* The mutant: repeat is forgotten. *)
ChargeOnce(c) == CASE c.cmd = "MEASURE" -> 1
                   [] c.cmd \in {"READ", "WRITE"} -> 2
                   [] OTHER -> 0

(* What an answered command adds to nb_timestamp. *)
Charge(c) == Width(c)

(* The mutant: the MMIO page keeps the repeat of the command before. *)
ParametersKeepRepeat(c) == [addr |-> c.addr, value |-> c.value, repeat |-> mmio.repeat]

(* What handle_pmio leaves in the MMIO page. *)
ParametersOf(c) == [addr |-> c.addr, value |-> c.value, repeat |-> c.repeat]

(* handle_pmio, PMIO_READ_CMD, every command but PRINT. *)
HandleCommand ==
  /\ Exited("IO_IN")
  /\ Asked.cmd # "PRINT"
  /\ mmio' = ParametersOf(Asked)
  /\ data' = Asked.cmd
  /\ nb_timestamp' = nb_timestamp + Charge(Asked)
  /\ next' = next + 1
  /\ pc' = "kvm_run"
  /\ UNCHANGED <<inputs, ret, exit_reason, measures, retcode, gpc, locals, interrupts>>

(* The mutant: handle_pmio returns 0 after PRINT, and cmd does not move. *)
PrintMovesNothing == 0

PrintMoves == 1

(* PRINT is served by the VMM, which dumps the first nb_timestamp stamps. *)
HandlePrint ==
  /\ Exited("IO_IN")
  /\ Asked.cmd = "PRINT"
  /\ data' = Asked.cmd
  /\ next' = next + PrintMoves
  /\ pc' = "kvm_run"
  /\ UNCHANGED <<inputs, ret, nb_timestamp, exit_reason, memory, gpc, locals, interrupts>>

(* The console output of handle_pmio; handle_mmio, which only prints. *)
HandleOutput ==
  /\ Exited("IO_OUT") \/ Exited("MMIO")
  /\ pc' = "kvm_run"
  /\ UNCHANGED <<inputs, thread, exit_reason, data, memory, gpc, locals, interrupts>>

HandleStop ==
  /\ Exited("HLT") \/ Exited("SHUTDOWN")
  /\ ret' = 0
  /\ pc' = "check"
  /\ UNCHANGED <<inputs, next, nb_timestamp, exit_reason, data, memory, gpc, locals, interrupts>>

(* The mutant: ret is an errno (EINTR) instead of the exit reason. *)
ErrnoStatus == 4

ReasonStatus == IF exit_reason = "INTR" THEN KVM_EXIT_INTR ELSE KVM_EXIT_INTERNAL_ERROR

(* The default of the switch: the thread goes on. *)
HandleOther ==
  /\ Exited("INTR") \/ Exited("INTERNAL_ERROR")
  /\ ret' = ReasonStatus
  /\ pc' = "kvm_run"
  /\ UNCHANGED <<inputs, next, nb_timestamp, exit_reason, data, memory, gpc, locals, interrupts>>

(* The mutant: the check of the memory word is dropped. *)
CheckedRegisters(regs_read, rax_is_42) == IF regs_read /\ rax_is_42 THEN ret ELSE -1

CheckedStatus(regs_read, rax_is_42) ==
  IF regs_read /\ rax_is_42 /\ retcode THEN ret ELSE -1

(***************************************************************************)
(* The end of run_vm.  KVM_GET_REGS may fail; rax is 42 when the guest     *)
(* halted, and whatever a crash left there otherwise.                      *)
(***************************************************************************)
Check ==
  /\ pc = "check"
  /\ \E regs_read, rax_is_42 \in BOOLEAN :
       /\ gpc = "halted" => rax_is_42
       /\ ret' = CheckedStatus(regs_read, rax_is_42)
  /\ pc' = "done"
  /\ UNCHANGED <<inputs, next, nb_timestamp, exit_reason, data, memory, gpc, locals, interrupts>>

--------------------------------------------------------------------------------
Guest ==
  \/ GuestAsk \/ GuestSwitch \/ GuestLoopEnd \/ GuestMeasure
  \/ GuestStampBefore \/ GuestAccess \/ GuestAccessUnbacked \/ GuestFault
  \/ GuestStampAfter \/ GuestPuts \/ GuestHalt
  \/ GuestStuck

Vmm ==
  \/ KvmRun \/ HandleCommand \/ HandlePrint \/ HandleOutput \/ HandleStop
  \/ HandleOther \/ Check

Terminated == pc = "done" /\ UNCHANGED vars

Next == Guest \/ Vmm \/ Interrupt \/ GuestBreaks \/ Terminated

(* The host schedules the thread: it, or its guest inside KVM_RUN, goes on. *)
Fairness == WF_vars(Guest \/ Vmm)

Spec == Init /\ [][Next]_vars

FairSpec == Spec /\ Fairness

--------------------------------------------------------------------------------
(* Properties.                                                             *)

(***************************************************************************)
(* The guest has the parameters of command next in the MMIO page for as    *)
(* long as it serves it, across exits, interrupts and re-entries: the VMM  *)
(* never overwrites them under it, and al is that command.                 *)
(***************************************************************************)
ParametersStable ==
  gpc \in {"loop", "access", "mmio", "post"} =>
    /\ al = cmds[next].cmd
    /\ mmio = [addr   |-> cmds[next].addr,
               value  |-> cmds[next].value,
               repeat |-> cmds[next].repeat]

(***************************************************************************)
(* nb_timestamp is charged when a command is answered and the stamps come  *)
(* later; when the guest asks again the two agree, so that PRINT dumps     *)
(* every stamp that was written and nothing else (handle_pmio, the loop    *)
(* over *nb_timestamp).                                                    *)
(***************************************************************************)
StampsAccounted == Exited("IO_IN") => nb_timestamp = Len(measures)

(***************************************************************************)
(* handle_pmio reads *cmd without looking at nb_cmd: whenever the guest    *)
(* asks for a command, the list has one left.                              *)
(***************************************************************************)
CommandInBounds == Exited("IO_IN") => next < Len(cmds)

(***************************************************************************)
(* At every moment the measures region holds a prefix of the stamps the    *)
(* list calls for, and all of them when the guest has halted: none is      *)
(* lost, repeated, misplaced or taken with the parameters of another       *)
(* command.                                                                *)
(***************************************************************************)
MeasuresAsExpected ==
  /\ Seqs!IsPrefix(measures, Expected(cmds))
  /\ gpc = "halted" => measures = Expected(cmds)

(***************************************************************************)
(* The status that run_vm reports tells the truth: 0 only for a guest that *)
(* halted after the last command of its list, with every charged stamp     *)
(* written; any other end is -1, and the -1 or the exit reason that an     *)
(* interrupted KVM_RUN left in ret on the way never gets out.              *)
(***************************************************************************)
ExitStatusTruthful ==
  pc = "done" =>
    /\ ret \in {-1, 0}
    /\ ret = 0 => gpc = "halted" /\ next = Len(cmds) /\ nb_timestamp = Len(measures)

(***************************************************************************)
(* The thread comes to its end, whatever the guest does with its list, and *)
(* the joins of main return - unless KVM can no longer run the guest: then *)
(* run_vm, whose switch enters the guest again after every exit it does    *)
(* not know, never ends.                                                   *)
(***************************************************************************)
Termination == <>(pc = "done") \/ <>[](gpc = "stuck")

--------------------------------------------------------------------------------
(* The inductive invariant.                                                *)

(* Where the thread stands fixes where its guest may be, and conversely. *)
ControlInv ==
  /\ pc = "kvm_run" => gpc \notin {"halted", "dead"}
  /\ pc = "guest" => gpc \in {"inb", "switch", "loop", "access", "post", "puts", "hlt", "stuck"}
  /\ pc = "exit" =>
       /\ exit_reason # "UNKNOWN"
       /\ exit_reason = "IO_IN"    <=> gpc = "in"
       /\ exit_reason = "IO_OUT"   <=> gpc = "out"
       /\ exit_reason = "MMIO"     <=> gpc = "mmio"
       /\ exit_reason = "HLT"      <=> gpc = "halted"
       /\ exit_reason = "SHUTDOWN" <=> gpc = "dead"
       /\ exit_reason = "INTERNAL_ERROR" => gpc = "stuck"
  /\ pc \in {"check", "done"} => gpc \in {"halted", "dead"}
  /\ pc = "check" => ret = 0
  /\ pc = "done" => ret \in {-1, 0} /\ (ret = 0 => retcode)
  /\ retcode <=> gpc = "halted"

Cur == cmds[next]

(* The stamps that have been charged and are not yet written. *)
Owed == nb_timestamp - Len(measures)

Settled == Owed = 0

ParametersOfCur ==
  mmio = [addr |-> Cur.addr, value |-> Cur.value, repeat |-> Cur.repeat]

(* The current command was handed to the guest, which has not begun it. *)
Delivered ==
  /\ next > 0
  /\ Cur.cmd # "PRINT" => ParametersOfCur
  /\ Owed = Width(Cur)

(* The guest is about to begin round i of the current command. *)
InLoop ==
  /\ next > 0
  /\ ParametersOfCur
  /\ al = Cur.cmd
  /\ al \in {"MEASURE", "READ", "WRITE"}
  /\ i <= Cur.repeat
  /\ Owed = IF al = "MEASURE" THEN Cur.repeat - i ELSE 2 * (Cur.repeat - i)

(* The guest is between the two stamps of round i. *)
InAccess ==
  /\ next > 0
  /\ ParametersOfCur
  /\ al = Cur.cmd
  /\ al \in {"READ", "WRITE"}
  /\ loaded = [addr |-> Cur.addr, value |-> Stored(Cur.value)]
  /\ i < Cur.repeat
  /\ Owed = 2 * (Cur.repeat - i) - 1

(* The guest is done with the current command and will ask for another. *)
Idle == Settled /\ (next > 0 => Cur.cmd # "EXIT")

Leaving == Settled /\ next > 0 /\ Cur.cmd = "EXIT"

ServiceInv ==
  /\ gpc = "in" /\ pc = "kvm_run" => Delivered /\ data = Cur.cmd
  /\ gpc = "in" /\ pc # "kvm_run" => Idle
  /\ gpc \in {"inb", "puts", "out"} => Idle
  /\ gpc = "switch" => Delivered /\ al = Cur.cmd
  /\ gpc = "loop" => InLoop
  /\ gpc = "access" => InAccess
  /\ gpc \in {"mmio", "post"} => InAccess /\ Mapped(Cur.addr)
  /\ gpc \in {"hlt", "halted"} => Leaving
  /\ gpc = "dead" => InAccess /\ ~Mapped(Cur.addr)

IInv == TypeOK /\ ControlInv /\ ServiceInv

--------------------------------------------------------------------------------
(* The thread and its guest implement the command stream.                  *)

Taken == IF next = 0 THEN 0 ELSE Width(Cur) - Owed

(* The measures region holds the stamps of the commands that were served   *)
(* and the first ones of the current command.                              *)
StampsInv ==
  /\ Taken \in Nat
  /\ next > 0 => Taken <= Width(Cur)
  /\ measures = StampsUpTo(cmds, next, Taken)

(* Everything that is proved to hold in every step, together. *)
ThreadInv == IInv /\ StampsInv

Status == IF pc # "done" THEN "running" ELSE IF ret = 0 THEN "ok" ELSE "failed"

Stream == INSTANCE CommandStream WITH
  list <- cmds, pos <- next, taken <- Taken, log <- measures, status <- Status

(***************************************************************************)
(* run_vm, handle_pmio and wait_action together ask for the commands in    *)
(* their order, each when the one before is served, and take the stamps of *)
(* each with its own parameters.                                           *)
(***************************************************************************)
ImplementsStream == Stream!Spec
================================================================================
