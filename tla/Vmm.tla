---------------------------------- MODULE Vmm ----------------------------------
(***************************************************************************)
(* The life of one run of the bench: main opens the files of KSM, checks   *)
(* that KSM is on, fills the buffer of shared pages and loads the commands *)
(* - and does not test everything that may fail there -, creates the VMs   *)
(* and their threads, everybody meets at a barrier of NUMBEROFROLE + 1,    *)
(* which the time master joins only when KSM has merged the shared pages,  *)
(* the guests serve their lists, and main joins the threads, saves the     *)
(* measures, unmaps the VMs and exits.                                     *)
(*                                                                         *)
(* A VM thread is the command stream that VmThread implements, cut where   *)
(* KVM_RUN begins and ends: KVM holds the vcpu mutex in between, which the *)
(* time master needs for KVM_TRANSLATE.  Pages are counted, not modelled;  *)
(* save_measures is one step here and has a module of its own.             *)
(***************************************************************************)
EXTENDS FiniteSets, ScaCommands

CONSTANTS
  NbSharedPages,   (* NB_SHARED_PAGES                                       *)
  OtherPages       (* pages that KSM shares for other processes of the host *)

ASSUME NbSharedPagesAssumption == NbSharedPages \in Nat \ {0}
ASSUME OtherPagesAssumption == OtherPages \in Nat

VMs == 0..(NUMBEROFROLE - 1)

NotExited == -1

(* The exit codes of a process that SIGSEGV or SIGABRT has killed. *)
Segfault == 139

Abort == 134

(* The files of /sys/kernel/mm/ksm that ksm_init opens.  pages_sharing is  *)
(* never read, max_page_sharing only by a DEBUG build.                     *)
KsmFile == {"run", "pages_shared", "pages_sharing", "max_page_sharing", "pages_unshared"}

VARIABLES
  (* main *)
  mpc,        (* where main is *)
  v,          (* its loop counter *)
  saved,      (* what became of the output file: "no", "ok", "failed" *)
  file,       (* the measures in it, for each VM *)
  shown,      (* the exit status that main printed for each VM *)
  code,       (* the exit code of the process, NotExited while it runs *)
  ksm,        (* the files of KSM that are open *)
  distinct,   (* how many different pages the buffer of shared pages holds, *)
              (* 0 as long as there is no buffer *)
  (* the VMs and their threads *)
  cmds,       (* the command list of each VM *)
  tpc,        (* where its thread is *)
  pos, taken, log, status,   (* its command stream *)
  mapped,     (* its memory regions are mapped *)
  tm,         (* where the time master is *)
  (* KSM *)
  merged      (* the shared pages of the bench that KSM has merged *)

mainvars == <<mpc, v, saved, file, shown, code>>
stream   == <<pos, taken, log, status>>
inputs   == <<cmds, ksm, distinct>>
vars     == <<mainvars, inputs, tpc, stream, mapped, tm, merged>>

TypeOK ==
  /\ mpc \in {"ksm_init", "ksm_enabled", "vmm_init", "shared_pages", "load_commands",
              "create", "create_tm", "join", "join_tm", "save", "destroy", "close"}
  /\ v \in 0..NUMBEROFROLE
  /\ saved \in {"no", "ok", "failed"}
  /\ file \in [VMs -> Seq(Stamp)]
  /\ shown \in [VMs -> {"no", "ok", "failed", "garbage"}]
  /\ code \in {NotExited, 0, 1, Segfault, Abort}
  /\ ksm \subseteq KsmFile /\ distinct \in 0..NbSharedPages
  /\ cmds \in [VMs -> CmdLists]
  /\ tpc \in [VMs -> {"absent", "created", "barrier", "handler", "kvm", "stuck", "stopped"}]
  /\ pos \in [VMs -> Nat] /\ taken \in [VMs -> Nat]
  /\ log \in [VMs -> Seq(Stamp)]
  /\ status \in [VMs -> {"running", "ok", "failed"}]
  /\ mapped \in [VMs -> BOOLEAN]
  /\ tm \in {"absent", "ksm_wait", "barrier", "translate", "done"}
  /\ merged \in 0..NbSharedPages

Init ==
  /\ mpc = "ksm_init" /\ v = 0
  /\ ksm = {} /\ distinct = 0
  /\ saved = "no" /\ code = NotExited
  /\ file = [r \in VMs |-> <<>>]
  /\ shown = [r \in VMs |-> "no"]
  /\ cmds \in [VMs -> CmdLists]
  /\ tpc = [r \in VMs |-> "absent"]
  /\ pos = [r \in VMs |-> 0] /\ taken = [r \in VMs |-> 0]
  /\ log = [r \in VMs |-> <<>>]
  /\ status = [r \in VMs |-> "running"]
  /\ mapped = [r \in VMs |-> FALSE]
  /\ tm = "absent"
  /\ merged = 0

(* Nothing moves once the process has exited. *)
Alive == code = NotExited

--------------------------------------------------------------------------------
(* main                                                                    *)

MainAt(loc) == Alive /\ mpc = loc

(* ksm_init only reports the files it cannot open, and returns 0. *)
KsmInit ==
  /\ MainAt("ksm_init")
  /\ ksm' \in SUBSET KsmFile
  /\ mpc' = "ksm_enabled"
  /\ UNCHANGED <<v, saved, file, shown, code, cmds, distinct, tpc, stream, mapped, tm, merged>>

(* fgetc(ksm_run_fd), without a test for NULL. *)
KsmEnabled ==
  /\ MainAt("ksm_enabled")
  /\ IF "run" \in ksm
     THEN \/ mpc' = "vmm_init" /\ UNCHANGED code
          \/ code' = 1 /\ UNCHANGED mpc
     ELSE code' = Segfault /\ UNCHANGED mpc
  /\ UNCHANGED <<v, saved, file, shown, inputs, tpc, stream, mapped, tm, merged>>

(* vmm_init, load_commands: main exits when they fail. *)
Succeeds(loc, next) ==
  /\ MainAt(loc)
  /\ \/ mpc' = next /\ UNCHANGED code
     \/ code' = 1 /\ UNCHANGED mpc
  /\ UNCHANGED <<v, saved, file, shown, inputs, tpc, stream, mapped, tm, merged>>

VmmInit == Succeeds("vmm_init", "shared_pages")

LoadCommands == Succeeds("load_commands", "create")

(* A page that the fill has left to malloc is the same as the next one. *)
ShortFill == distinct \in 1..(NbSharedPages - 1)

(***************************************************************************)
(* init_shared_pages returns 1 when malloc fails, and main tests for < 0;  *)
(* it returns 0 when getrandom has failed or was cut short, which leaves   *)
(* equal pages at the end of the buffer (RandomFill has the loop itself).  *)
(***************************************************************************)
InitSharedPages ==
  /\ MainAt("shared_pages")
  /\ distinct' \in 0..NbSharedPages
  /\ mpc' = "load_commands"
  /\ UNCHANGED <<v, saved, file, shown, code, cmds, ksm, tpc, stream, mapped, tm, merged>>

(* The mutant: one VM too many. *)
MoreVmsInclusive == v <= NUMBEROFROLE

MoreVms == v < NUMBEROFROLE

(* memcpy finds the shared pages. *)
CanCopy == distinct > 0

(* vm_init, then pthread_create. *)
CreateVm ==
  /\ MainAt("create")
  /\ MoreVms
  /\ CanCopy
  /\ mapped' = [mapped EXCEPT ![v] = TRUE]
  /\ tpc' = [tpc EXCEPT ![v] = "created"]
  /\ v' = v + 1
  /\ UNCHANGED <<mpc, saved, file, shown, code, inputs, stream, tm, merged>>

CopyCrashes ==
  /\ MainAt("create")
  /\ MoreVms
  /\ ~CanCopy
  /\ code' = Segfault
  /\ UNCHANGED <<mpc, v, saved, file, shown, inputs, tpc, stream, mapped, tm, merged>>

(* A KVM call, an mmap or a pthread_create fails: exit(1). *)
CreateFails ==
  /\ (MainAt("create") /\ v < NUMBEROFROLE) \/ MainAt("create_tm")
  /\ code' = 1
  /\ UNCHANGED <<mpc, v, saved, file, shown, inputs, tpc, stream, mapped, tm, merged>>

(* An assertion at the end of vm_init fails, behind the copy. *)
AssertFails ==
  /\ MainAt("create")
  /\ v < NUMBEROFROLE
  /\ CanCopy
  /\ code' = Abort
  /\ UNCHANGED <<mpc, v, saved, file, shown, inputs, tpc, stream, mapped, tm, merged>>

AllCreated ==
  /\ MainAt("create")
  /\ v = NUMBEROFROLE
  /\ mpc' = "create_tm"
  /\ UNCHANGED <<v, saved, file, shown, code, inputs, tpc, stream, mapped, tm, merged>>

CreateTimeMaster ==
  /\ MainAt("create_tm")
  /\ tm' = "ksm_wait"
  /\ mpc' = "join"
  /\ v' = 0
  /\ UNCHANGED <<saved, file, shown, code, inputs, tpc, stream, mapped, merged>>

(***************************************************************************)
(* pthread_join hands out the address of run_vm's local ret, whose stack   *)
(* is gone: main prints the status, or whatever stands there by then, or   *)
(* dies of the access when the stack is unmapped (JoinCrashes).            *)
(***************************************************************************)
Joins ==
  /\ MainAt("join")
  /\ v < NUMBEROFROLE
  /\ tpc[v] = "stopped"

JoinVm ==
  /\ Joins
  /\ \E seen \in {status[v], "garbage"} : shown' = [shown EXCEPT ![v] = seen]
  /\ v' = v + 1
  /\ UNCHANGED <<mpc, saved, file, code, inputs, tpc, stream, mapped, tm, merged>>

JoinCrashes ==
  /\ Joins
  /\ code' = Segfault
  /\ UNCHANGED <<mpc, v, saved, file, shown, inputs, tpc, stream, mapped, tm, merged>>

(* The mutant: the last thread is not joined. *)
LastJoinedButOne == v = NUMBEROFROLE - 1

LastJoined == v = NUMBEROFROLE

AllJoined ==
  /\ MainAt("join")
  /\ LastJoined
  /\ mpc' = "join_tm"
  /\ UNCHANGED <<v, saved, file, shown, code, inputs, tpc, stream, mapped, tm, merged>>

(* The mutant: main does not wait for the time master. *)
TimeMasterDetached == TRUE

TimeMasterEnded == tm = "done"

JoinTimeMaster ==
  /\ MainAt("join_tm")
  /\ TimeMasterEnded
  /\ mpc' = "save"
  /\ UNCHANGED <<v, saved, file, shown, code, inputs, tpc, stream, mapped, tm, merged>>

(***************************************************************************)
(* save_measures, seen from outside (SaveMeasures has the walk): it takes  *)
(* one stamp for a MEASURE and two for an access, whatever the repeat, and *)
(* nothing any more from the first command on that it has no record for.   *)
(***************************************************************************)
NoRecord == {"PRINT", "UNKNOWN"}

Walked(l) == {k \in 1..Len(l) : \A j \in 1..k : l[j].cmd \notin NoRecord}

Once(l) == [k \in 1..Len(l) |-> [l[k] EXCEPT !.repeat = 1]]

Slots(l) == Len(StampsOfFirst(Once(l), Cardinality(Walked(l))))

Recorded(l, stamps) ==
  IF Slots(l) < Len(stamps) THEN SubSeq(stamps, 1, Slots(l)) ELSE stamps

(* main drops its result.  What a failed one has written is left out. *)
Save ==
  /\ MainAt("save")
  /\ \/ saved' = "ok" /\ file' = [r \in VMs |-> Recorded(cmds[r], log[r])]
     \/ saved' = "failed" /\ UNCHANGED file
  /\ mpc' = "destroy"
  /\ v' = 0
  /\ UNCHANGED <<shown, code, inputs, tpc, stream, mapped, tm, merged>>

DestroyVm ==
  /\ MainAt("destroy")
  /\ v < NUMBEROFROLE
  /\ mapped' = [mapped EXCEPT ![v] = FALSE]
  /\ merged' = IF v = DEFENDER THEN merged ELSE 0
  /\ v' = v + 1
  /\ UNCHANGED <<mpc, saved, file, shown, code, inputs, tpc, stream, tm>>

AllDestroyed ==
  /\ MainAt("destroy")
  /\ v = NUMBEROFROLE
  /\ mpc' = "close"
  /\ UNCHANGED <<v, saved, file, shown, code, inputs, tpc, stream, mapped, tm, merged>>

(* ksm_close, exit(0) *)
Exit ==
  /\ MainAt("close")
  /\ code' = 0
  /\ UNCHANGED <<mpc, v, saved, file, shown, inputs, tpc, stream, mapped, tm, merged>>

Main ==
  \/ KsmInit \/ KsmEnabled \/ VmmInit \/ InitSharedPages \/ LoadCommands
  \/ CreateVm \/ CopyCrashes \/ CreateFails \/ AssertFails \/ AllCreated \/ CreateTimeMaster
  \/ JoinVm \/ JoinCrashes \/ AllJoined \/ JoinTimeMaster
  \/ Save \/ DestroyVm \/ AllDestroyed \/ Exit

--------------------------------------------------------------------------------
(* The barrier                                                             *)

Arrived == Cardinality({r \in VMs : tpc[r] = "barrier"})
             + (IF tm = "barrier" THEN 1 ELSE 0)

(* The mutants: the time master is not counted, or main is counted too. *)
BarrierCountVMs == NUMBEROFROLE

BarrierCountMain == NUMBEROFROLE + 2

(* pthread_barrier_init *)
BarrierCount == NUMBEROFROLE + 1

(* The last to arrive releases everybody at once; who runs next is up to   *)
(* the scheduler, as each thread goes on in steps of its own.              *)
BarrierOpens ==
  /\ Alive
  /\ Arrived = BarrierCount
  /\ tpc' = [r \in VMs |-> "handler"]
  /\ tm' = "translate"
  /\ UNCHANGED <<mainvars, inputs, stream, mapped, merged>>

--------------------------------------------------------------------------------
(* A VM thread and its guest                                               *)

ThreadAt(r, loc) == Alive /\ tpc[r] = loc

Cur(r) == cmds[r][pos[r]]

Due(r) == IF pos[r] = 0 THEN 0 ELSE Width(Cur(r))

threadRest == <<mainvars, inputs, mapped, tm, merged>>

(* run_vm reaches the barrier. *)
Arrive(r) ==
  /\ ThreadAt(r, "created")
  /\ tpc' = [tpc EXCEPT ![r] = "barrier"]
  /\ UNCHANGED <<stream, threadRest>>

(* The thread answers the request of the guest and enters it again. *)
EnterGuest(r) ==
  /\ ThreadAt(r, "handler")
  /\ pos[r] < Len(cmds[r])
  /\ tpc' = [tpc EXCEPT ![r] = "kvm"]
  /\ pos' = [pos EXCEPT ![r] = @ + 1]
  /\ taken' = [taken EXCEPT ![r] = 0]
  /\ UNCHANGED <<log, status, threadRest>>

(* The guest has taken its first stamp and accesses what it cannot translate. *)
Faults(r) ==
  /\ Cur(r).cmd \in {"READ", "WRITE"}
  /\ ~Mapped(Cur(r).addr)
  /\ taken[r] = 1

(* The guest takes a stamp of the current command. *)
TakeStamp(r) ==
  /\ ThreadAt(r, "kvm")
  /\ taken[r] < Due(r)
  /\ ~Faults(r)
  /\ log' = [log EXCEPT ![r] = Append(@, StampOf(Cur(r), taken[r]))]
  /\ taken' = [taken EXCEPT ![r] = @ + 1]
  /\ UNCHANGED <<tpc, pos, status, threadRest>>

(* The mutant: the guest asks again in the middle of a command. *)
ServedSome(r) == taken[r] > 0

Served(r) == taken[r] = Due(r)

(* The guest is done with the command and asks for another, or halts. *)
LeaveGuest(r) ==
  /\ ThreadAt(r, "kvm")
  /\ Served(r)
  /\ tpc' = [tpc EXCEPT ![r] = "handler"]
  /\ UNCHANGED <<stream, threadRest>>

(* KVM_RUN returns KVM_EXIT_SHUTDOWN and the thread ends. *)
CrashGuest(r) ==
  /\ ThreadAt(r, "kvm")
  /\ Faults(r)
  /\ tpc' = [tpc EXCEPT ![r] = "stopped"]
  /\ status' = [status EXCEPT ![r] = "failed"]
  /\ UNCHANGED <<pos, taken, log, threadRest>>

(* KVM can no longer run the guest: run_vm enters it again and again. *)
GuestBreaks(r) ==
  /\ ThreadAt(r, "kvm")
  /\ tpc' = [tpc EXCEPT ![r] = "stuck"]
  /\ UNCHANGED <<stream, threadRest>>

(* Every KVM_RUN returns at once, for the same reason. *)
Spin(r) == ThreadAt(r, "stuck") /\ UNCHANGED vars

(* After the halt: the final check of run_vm and pthread_exit. *)
StopThread(r) ==
  /\ ThreadAt(r, "handler")
  /\ pos[r] = Len(cmds[r])
  /\ tpc' = [tpc EXCEPT ![r] = "stopped"]
  /\ \E s \in {"ok", "failed"} : status' = [status EXCEPT ![r] = s]
  /\ UNCHANGED <<pos, taken, log, threadRest>>

Thread(r) ==
  \/ Arrive(r) \/ EnterGuest(r) \/ TakeStamp(r) \/ LeaveGuest(r)
  \/ CrashGuest(r) \/ StopThread(r)

--------------------------------------------------------------------------------
(* The time master and KSM                                                 *)

(* pages_shared, of the whole host. *)
PagesShared == OtherPages + merged

KsmCountsOpen == {"pages_shared", "pages_unshared"} \subseteq ksm

(* The mutant: one page fewer will do. *)
OnePageFewer == PagesShared >= NbSharedPages - 1

EnoughShared == PagesShared >= NbSharedPages

(* ksm_wait reads a file that ksm_init could not open. *)
KsmWaitCrashes ==
  /\ Alive
  /\ tm = "ksm_wait"
  /\ ~KsmCountsOpen
  /\ code' = Segfault
  /\ UNCHANGED <<mpc, v, saved, file, shown, inputs, tpc, stream, mapped, tm, merged>>

(* ksm_wait returns, and the time master goes to the barrier. *)
KsmWaitReturns ==
  /\ Alive
  /\ tm = "ksm_wait"
  /\ KsmCountsOpen
  /\ EnoughShared
  /\ tm' = "barrier"
  /\ UNCHANGED <<mainvars, inputs, tpc, stream, mapped, merged>>

(* It sleeps and reads the counts again. *)
KsmWaitsOn ==
  /\ Alive
  /\ tm = "ksm_wait"
  /\ KsmCountsOpen
  /\ ~EnoughShared
  /\ UNCHANGED vars

(* translate_vm_addr(&vms[0], ...): KVM_TRANSLATE waits for the vcpu mutex, *)
(* and a failure ends the whole process.                                   *)
Translate ==
  /\ Alive
  /\ tm = "translate"
  /\ tpc[VICTIM] # "kvm"
  /\ \/ tm' = "done" /\ UNCHANGED code
     \/ code' = 1 /\ UNCHANGED tm
  /\ UNCHANGED <<mpc, v, saved, file, shown, inputs, tpc, stream, mapped, merged>>

(* The pages that stand twice in the mergeable regions: all of them when   *)
(* both are there, in one alone the equal pages of a short fill.           *)
MergeablePages ==
  IF mapped[VICTIM] /\ mapped[ATTACKER] THEN distinct
  ELSE IF (mapped[VICTIM] \/ mapped[ATTACKER]) /\ ShortFill THEN 1 ELSE 0

(* ksmd merges one of them.  The copies that guests cause by writing come  *)
(* after the barrier: left out.                                            *)
KsmMerges ==
  /\ Alive
  /\ merged < MergeablePages
  /\ merged' = merged + 1
  /\ UNCHANGED <<mainvars, inputs, tpc, stream, mapped, tm>>

--------------------------------------------------------------------------------
Exited == ~Alive /\ UNCHANGED vars

Next ==
  \/ Main \/ BarrierOpens \/ KsmMerges \/ Exited
  \/ KsmWaitCrashes \/ KsmWaitReturns \/ KsmWaitsOn \/ Translate
  \/ \E r \in VMs : Thread(r) \/ GuestBreaks(r) \/ Spin(r)

(***************************************************************************)
(* The host schedules main, every thread and ksmd (main has checked that   *)
(* KSM runs), and the last arrival at the barrier releases all.            *)
(***************************************************************************)
Fairness ==
  /\ WF_vars(Main) /\ WF_vars(BarrierOpens)
  /\ WF_vars(KsmWaitCrashes \/ KsmWaitReturns) /\ WF_vars(Translate) /\ WF_vars(KsmMerges)
  /\ \A r \in VMs : WF_vars(Thread(r))

Spec == Init /\ [][Next]_vars /\ Fairness

--------------------------------------------------------------------------------
(* Properties.                                                             *)

(***************************************************************************)
(* No guest serves a command before all pages of the bench are merged:     *)
(* what it then measures is the cost of a merged page (ksm_wait before the *)
(* barrier in time_master).                                                *)
(***************************************************************************)
DedupBeforeRun ==
  [][\A r \in VMs : tpc[r] # "handler" /\ tpc'[r] = "handler" /\ pos[r] = 0
        => merged = NbSharedPages]_vars

(***************************************************************************)
(* A region stays mapped for as long as a thread or the time master can    *)
(* still touch the VM, whatever the order in which they end.               *)
(***************************************************************************)
RegionsOutliveUsers ==
  /\ \A r \in VMs : tpc[r] \in {"created", "barrier", "handler", "kvm", "stuck"} => mapped[r]
  /\ tm \in {"ksm_wait", "barrier", "translate"} => mapped[VICTIM]

(* save_measures has a record for every stamp of such a list: what the     *)
(* experiments generate (none but WAIT has a repeat of its own).           *)
Recordable(l) ==
  \A k \in 1..Len(l) :
    /\ l[k].cmd \notin NoRecord
    /\ l[k].cmd \in {"MEASURE", "READ", "WRITE"} => l[k].repeat = 1

(***************************************************************************)
(* What is saved is final, and whole for the lists of the experiments: no  *)
(* guest takes another stamp after the file is written, a VM whose list is *)
(* without PRINT, unknown commands and repeats has every stamp it took in  *)
(* it, one that reported success all stamps of its list, and a process     *)
(* that exits with 0 has at least tried to save.                           *)
(***************************************************************************)
SavedIsFinal ==
  /\ code = 0 => saved # "no"
  /\ saved = "ok" =>
       \A r \in VMs :
         /\ status[r] # "running"
         /\ file[r] = Recorded(cmds[r], log[r])
         /\ Recordable(cmds[r]) =>
              /\ file[r] = log[r]
              /\ status[r] = "ok" => file[r] = Expected(cmds[r])

GuestsRan == \E r \in VMs : tpc[r] \in {"handler", "kvm", "stuck", "stopped"}

(***************************************************************************)
(* What fails at the start without a test in main gets no guest running: a *)
(* file that ksm_enabled or ksm_wait reads (the other two may be missing), *)
(* the allocation of the buffer, and, on a host that shares nothing else,  *)
(* a fill that was cut short.  And once guests have run, their stamps are  *)
(* lost to a signal in one place only, the join that reads a dead stack.   *)
(***************************************************************************)
FailedStartRunsNoGuest ==
  /\ GuestsRan \/ code = 0 =>
       /\ {"run", "pages_shared", "pages_unshared"} \subseteq ksm
       /\ distinct > 0
       /\ OtherPages = 0 => distinct = NbSharedPages
  /\ GuestsRan /\ code \in {Segfault, Abort} => mpc = "join" /\ tpc[v] = "stopped"

VictimStream == INSTANCE CommandStream WITH
  list <- cmds[VICTIM], pos <- pos[VICTIM], taken <- taken[VICTIM],
  log <- log[VICTIM], status <- status[VICTIM]

AttackerStream == INSTANCE CommandStream WITH
  list <- cmds[ATTACKER], pos <- pos[ATTACKER], taken <- taken[ATTACKER],
  log <- log[ATTACKER], status <- status[ATTACKER]

DefenderStream == INSTANCE CommandStream WITH
  list <- cmds[DEFENDER], pos <- pos[DEFENDER], taken <- taken[DEFENDER],
  log <- log[DEFENDER], status <- status[DEFENDER]

(***************************************************************************)
(* Each VM keeps the promise of its command stream through the whole run:  *)
(* creation, barrier, joins and destruction of the VMs do not disturb it.  *)
(***************************************************************************)
StreamsKept == VictimStream!Spec /\ AttackerStream!Spec /\ DefenderStream!Spec

(* KVM can no longer run the guest of v: main joins its thread for ever,   *)
(* and everybody else has ended.                                           *)
StuckInJoin ==
  /\ mpc = "join" /\ v < NUMBEROFROLE /\ tpc[v] = "stuck"
  /\ tm = "done"
  /\ \A r \in VMs : tpc[r] \in {"stuck", "stopped"}

(* The buffer holds fewer pages than ksm_wait asks for.                    *)
StuckInKsmWait ==
  /\ mpc = "join" /\ tm = "ksm_wait" /\ ShortFill
  /\ \A r \in VMs : tpc[r] = "barrier"

(***************************************************************************)
(* The process ends, or it hangs in one of two ways: after a short fill    *)
(* everybody waits for the time master, which waits for KSM; or KVM can no *)
(* longer run a guest, and then it keeps only main waiting - the other     *)
(* guests end, the time master gets the vcpu mutex.  Nobody else waits for *)
(* ever, at the barrier, in ksm_wait, for the mutex or in a join.          *)
(***************************************************************************)
ProcessEnds == <>(code # NotExited) \/ <>[]StuckInJoin \/ <>[]StuckInKsmWait

(* "%s : exit %d" (vmm.c:245): main prints the status of the thread.       *)
ShownIsStatus == \A r \in VMs : shown[r] \in {"no", status[r]}

--------------------------------------------------------------------------------
(* The inductive invariant.                                                *)

(* A thread that is before the barrier, or beyond it. *)
Waits(r) == tpc[r] \in {"absent", "created", "barrier"}

Ran(r) == tpc[r] \in {"handler", "kvm", "stuck", "stopped"}

(* What main has done so far: its place fixes which VMs exist, which       *)
(* threads have ended, and whether anything was saved.                     *)
MainInv ==
  /\ mpc \in {"ksm_init", "ksm_enabled", "vmm_init", "shared_pages", "load_commands"} =>
       v = 0 /\ merged = 0 /\ \A r \in VMs : tpc[r] = "absent" /\ ~mapped[r]
  /\ mpc = "create" => \A r \in VMs : (tpc[r] # "absent" <=> r < v) /\ (r < v => mapped[r])
  /\ mpc \in {"create_tm", "join", "join_tm", "save"} =>
       \A r \in VMs : tpc[r] # "absent" /\ mapped[r]
  /\ mpc = "join" => \A r \in VMs : r < v => tpc[r] = "stopped"
  /\ mpc \in {"join_tm", "save", "destroy", "close"} => \A r \in VMs : tpc[r] = "stopped"
  /\ tm # "absent" <=> mpc \in {"join", "join_tm", "save", "destroy", "close"}
  /\ mpc \in {"save", "destroy", "close"} => tm = "done"
  /\ saved # "no" <=> mpc \in {"destroy", "close"}
  /\ code = 0 => mpc = "close"

(* The barrier opens for all threads at once, and only behind the wait for *)
(* KSM.                                                                    *)
BarrierInv ==
  /\ tm \in {"absent", "ksm_wait", "barrier"} => \A r \in VMs : Waits(r)
  /\ tm \in {"translate", "done"} => \A r \in VMs : Ran(r)
  /\ tm \in {"barrier", "translate", "done"} =>
       KsmCountsOpen /\ (OtherPages = 0 => distinct = NbSharedPages)
  /\ tm = "barrier" => PagesShared >= NbSharedPages

(* How far a failure that nobody tests for can get. *)
UntestedInv ==
  /\ mpc \notin {"ksm_init", "ksm_enabled"} => "run" \in ksm
  /\ (\E r \in VMs : tpc[r] # "absent") => distinct > 0
  /\ merged <= distinct

(* Where a signal can end the process once guests have run.                *)
CrashInv ==
  GuestsRan /\ code \in {Segfault, Abort} => mpc = "join" /\ tpc[v] = "stopped"

(* Where a thread stands fixes how far its command stream is, and the log  *)
(* holds the stamps up to there.                                           *)
StreamOf(r) ==
  /\ pos[r] \in 0..Len(cmds[r])
  /\ taken[r] \in 0..Due(r)
  /\ log[r] = StampsUpTo(cmds[r], pos[r], taken[r])
  /\ Waits(r) => pos[r] = 0
  /\ tpc[r] = "handler" => taken[r] = Due(r)
  /\ tpc[r] = "kvm" => pos[r] > 0
  /\ status[r] # "running" <=> tpc[r] = "stopped"
  /\ status[r] = "ok" => pos[r] = Len(cmds[r]) /\ taken[r] = Due(r)

StreamInv == \A r \in VMs : StreamOf(r)

SavedInv == saved = "ok" => file = [r \in VMs |-> Recorded(cmds[r], log[r])]

IInv == TypeOK /\ MainInv /\ BarrierInv /\ UntestedInv /\ CrashInv /\ StreamInv /\ SavedInv
================================================================================
