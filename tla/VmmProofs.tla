------------------------------- MODULE VmmProofs -------------------------------
(***************************************************************************)
(* Proofs about Vmm, for every set of exit-terminated command lists and    *)
(* every number of shared pages.                                           *)
(***************************************************************************)
EXTENDS FiniteSetTheorems, Vmm, StampFacts, TLAPS

(* The constants of the module, where a step needs their values. *)
LEMMA Numbers ==
  /\ NUMBEROFROLE = 3 /\ VMs = 0..2 /\ VICTIM \in VMs /\ ATTACKER \in VMs
  /\ NotExited = -1 /\ Segfault = 139 /\ Abort = 134
  BY DEF NUMBEROFROLE, VMs, VICTIM, ATTACKER, NotExited, Segfault, Abort

(* The command lists of the VMs, and the current command of a thread. *)
LEMMA CurFacts ==
  ASSUME TypeOK, NEW r \in VMs, pos[r] \in 0..Len(cmds[r])
  PROVE  /\ cmds[r] \in CmdLists /\ cmds[r] \in Seq(Command) /\ Len(cmds[r]) \in Nat \ {0}
         /\ pos[r] > 0 => Cur(r) \in Command
         /\ Due(r) \in Nat
         /\ Due(r) = IF pos[r] = 0 THEN 0 ELSE Width(cmds[r][pos[r]])
<1>1. cmds[r] \in CmdLists /\ cmds[r] \in Seq(Command) /\ Len(cmds[r]) \in Nat \ {0}
      /\ \A k \in 1..Len(cmds[r]) : cmds[r][k] \in Command
  BY ListFacts DEF TypeOK
<1>2. pos[r] > 0 => Cur(r) \in Command
  BY <1>1 DEF Cur
<1>3. Due(r) \in Nat
  <2>1. CASE pos[r] = 0
    BY <2>1 DEF Due
  <2>2. CASE pos[r] > 0
    BY <2>2, <1>2, WidthOf DEF Due
  <2> QED BY <2>1, <2>2
<1> QED BY <1>1, <1>2, <1>3 DEF Due, Cur

--------------------------------------------------------------------------------
(* What save_measures makes of the stamps of a guest.                      *)

(* It counts on a number of stamps that is at most one per command walked, *)
(* or two.                                                                 *)
LEMMA OnceFacts ==
  ASSUME NEW l \in CmdLists
  PROVE  /\ Once(l) \in Seq(Command) /\ Len(Once(l)) = Len(l)
         /\ Cardinality(Walked(l)) \in 0..Len(l)
         /\ Slots(l) \in Nat
<1>0. l \in Seq(Command) /\ Len(l) \in Nat /\ \A k \in 1..Len(l) : l[k] \in Command
  BY ListFacts
<1>1. Once(l) \in Seq(Command) /\ Len(Once(l)) = Len(l)
  <2>1. \A k \in 1..Len(l) : [l[k] EXCEPT !.repeat = 1] \in Command
    BY <1>0 DEF Command
  <2> QED BY <1>0, <2>1 DEF Once
<1>2. Cardinality(Walked(l)) \in 0..Len(l)
  <2>1. Walked(l) \subseteq 1..Len(l)
    BY DEF Walked
  <2>2. IsFiniteSet(1..Len(l)) /\ Cardinality(1..Len(l)) = Len(l)
    <3>1. 1 \in Int /\ Len(l) \in Int
      BY <1>0
    <3>2. IsFiniteSet(1..Len(l)) /\ Cardinality(1..Len(l)) = IF 1 > Len(l) THEN 0 ELSE Len(l) - 1 + 1
      BY <3>1, FS_Interval
    <3> QED BY <1>0, <3>2
  <2>3. IsFiniteSet(Walked(l)) /\ Cardinality(Walked(l)) <= Cardinality(1..Len(l))
    BY <2>1, <2>2, FS_Subset
  <2>4. Cardinality(Walked(l)) \in Nat
    BY <2>3, FS_CardinalityType
  <2> QED BY <1>0, <2>2, <2>3, <2>4
<1>3. StampsOfFirst(Once(l), Cardinality(Walked(l))) \in Seq(Stamp)
  BY <1>1, <1>2, StampsOfFirstType
<1> QED BY <1>1, <1>2, <1>3 DEF Slots

LEMMA RecordedType ==
  ASSUME NEW l \in CmdLists, NEW s \in Seq(Stamp)
  PROVE  Recorded(l, s) \in Seq(Stamp)
  BY OnceFacts DEF Recorded

(* It has room for all stamps of a list without PRINT, unknown commands    *)
(* and repeats.                                                            *)
LEMMA RecordedWhole ==
  ASSUME NEW l \in CmdLists, Recordable(l),
         NEW s \in Seq(Stamp), Len(s) <= Len(Expected(l))
  PROVE  Recorded(l, s) = s
<1>0. Len(l) \in Nat /\ \A k \in 1..Len(l) : l[k] \in Command
  BY ListFacts
<1>1. Cardinality(Walked(l)) = Len(l)
  <2>1. Walked(l) = 1..Len(l)
    BY <1>0 DEF Walked, Recordable
  <2>2. 1 \in Int /\ Len(l) \in Int
    BY <1>0
  <2>3. Cardinality(1..Len(l)) = IF 1 > Len(l) THEN 0 ELSE Len(l) - 1 + 1
    BY <2>2, FS_Interval
  <2> QED BY <1>0, <2>1, <2>3
<1>2. ASSUME NEW k \in 1..Len(l) PROVE StampsOf(Once(l)[k]) = StampsOf(l[k])
  <2>1. l[k] \in Command /\ Once(l)[k] = [l[k] EXCEPT !.repeat = 1]
    BY <1>0 DEF Once
  <2>2. CASE l[k].cmd \in {"MEASURE", "READ", "WRITE"}
    <3>1. l[k].repeat = 1
      BY <2>2 DEF Recordable
    <3>2. Once(l)[k] = l[k]
      BY <2>1, <3>1 DEF Command
    <3> QED BY <3>2
  <2>3. CASE l[k].cmd \notin {"MEASURE", "READ", "WRITE"}
    <3>1. Once(l)[k] \in Command /\ Once(l)[k].cmd = l[k].cmd
      BY <2>1 DEF Command
    <3>2. Width(l[k]) = 0 /\ Width(Once(l)[k]) = 0
      BY <2>1, <2>3, <3>1, WidthOf
    <3>3. \A c : Width(c) = 0 => StampsOf(c) = <<>>
      BY DEF StampsOf
    <3> QED BY <3>2, <3>3
  <2> QED BY <2>2, <2>3
<1>3. [k \in 1..Len(l) |-> StampsOf(Once(l)[k])] = [k \in 1..Len(l) |-> StampsOf(l[k])]
  BY <1>2
<1>4. Slots(l) = Len(Expected(l))
  BY <1>1, <1>3 DEF Slots, Expected, StampsOfFirst
<1>5. Slots(l) \in Nat
  BY OnceFacts
<1> QED BY <1>4, <1>5 DEF Recorded

--------------------------------------------------------------------------------
(* Steps of one component.                                                 *)

(* A step of main that creates, joins and unmaps no VM. *)
MainAlone ==
  \/ KsmInit \/ KsmEnabled \/ VmmInit \/ InitSharedPages \/ LoadCommands
  \/ CopyCrashes \/ CreateFails \/ AssertFails \/ AllCreated
  \/ JoinCrashes \/ AllJoined \/ JoinTimeMaster \/ AllDestroyed \/ Exit

Steps(r) == Thread(r) \/ GuestBreaks(r)

(* The steps there are. *)
LEMMA StepCases ==
  ASSUME [Next]_vars
  PROVE  \/ MainAlone \/ CreateVm \/ CreateTimeMaster \/ JoinVm \/ Save \/ DestroyVm
         \/ BarrierOpens \/ KsmWaitCrashes \/ KsmWaitReturns \/ Translate \/ KsmMerges
         \/ UNCHANGED vars
         \/ \E r \in VMs : Steps(r)
  BY DEF Next, Main, MainAlone, Exited, KsmWaitsOn, Spin, Steps

(* MainAlone leaves the VMs and their threads alone. *)
LEMMA MainAloneFrame ==
  ASSUME MainAlone
  PROVE  UNCHANGED <<cmds, tpc, pos, taken, log, status, mapped, tm, merged, saved, file, shown>>
  BY DEF MainAlone, KsmInit, KsmEnabled, VmmInit, InitSharedPages, LoadCommands, Succeeds,
         CopyCrashes, CreateFails, AssertFails, AllCreated, JoinCrashes, AllJoined, JoinTimeMaster, AllDestroyed, Exit,
         stream, inputs

(* So do the steps of one thread of everything but the thread. *)
LEMMA StepsFrame ==
  ASSUME NEW r \in VMs, Steps(r)
  PROVE  UNCHANGED <<mpc, v, saved, file, shown, code, cmds, ksm, distinct, mapped, tm, merged>>
  BY DEF Steps, Thread, Arrive, EnterGuest, TakeStamp, LeaveGuest, CrashGuest, StopThread,
         GuestBreaks, threadRest, mainvars, inputs

(* A thread moves its own place, and not back before the barrier. *)
LEMMA StepsMove ==
  ASSUME TypeOK, NEW r \in VMs, Steps(r)
  PROVE  /\ Alive
         /\ tpc[r] \in {"created", "handler", "kvm"}
         /\ tpc[r] = "created" => tpc'[r] = "barrier"
         /\ tpc[r] # "created" => tpc'[r] \in {"handler", "kvm", "stuck", "stopped"}
         /\ \A s \in VMs : s # r => tpc'[s] = tpc[s]
         /\ tpc' \in [VMs -> {"absent", "created", "barrier", "handler", "kvm", "stuck", "stopped"}]
  BY DEF Steps, Thread, Arrive, EnterGuest, TakeStamp, LeaveGuest, CrashGuest, StopThread,
         GuestBreaks, ThreadAt, TypeOK, stream

(* What the steps of a thread do to its command stream. *)
LEMMA StepsStream ==
  ASSUME IInv, NEW r \in VMs, Steps(r)
  PROVE  /\ \A s \in VMs : s # r => /\ pos'[s] = pos[s] /\ taken'[s] = taken[s]
                                     /\ log'[s] = log[s] /\ status'[s] = status[s]
         /\ pos' \in [VMs -> Nat] /\ taken' \in [VMs -> Nat] /\ log' \in [VMs -> Seq(Stamp)]
         /\ status' \in [VMs -> {"running", "ok", "failed"}]
<1>0. StreamOf(r) /\ pos[r] \in 0..Len(cmds[r])
  BY DEF IInv, StreamInv, StreamOf
<1>1. CASE TakeStamp(r)
  <2>1. pos[r] > 0 /\ taken[r] \in Nat
    BY <1>0, <1>1 DEF TakeStamp, ThreadAt, StreamOf, IInv, TypeOK
  <2>2. StampOf(Cur(r), taken[r]) \in Stamp
    BY <1>0, <2>1, CurFacts, StampOfType DEF IInv
  <2>3. log' \in [VMs -> Seq(Stamp)]
    BY <1>1, <2>2 DEF TakeStamp, IInv, TypeOK
  <2> QED BY <1>1, <2>3 DEF TakeStamp, IInv, TypeOK
<1>2. CASE EnterGuest(r)
  BY <1>2 DEF EnterGuest, IInv, TypeOK
<1>3. CASE Arrive(r) \/ LeaveGuest(r) \/ GuestBreaks(r)
  BY <1>3 DEF Arrive, LeaveGuest, GuestBreaks, stream, IInv, TypeOK
<1>4. CASE CrashGuest(r) \/ StopThread(r)
  BY <1>4 DEF CrashGuest, StopThread, IInv, TypeOK
<1> QED BY <1>1, <1>2, <1>3, <1>4 DEF Steps, Thread

(* All four are at the barrier when it opens, so the time master is.       *)
LEMMA AllArrived ==
  ASSUME Arrived = BarrierCount
  PROVE  tm = "barrier"
<1> DEFINE A == {r \in VMs : tpc[r] = "barrier"}
<1>1. IsFiniteSet(VMs) /\ Cardinality(VMs) = 3
  <2>1. 0 \in Int /\ 2 \in Int /\ VMs = 0..2
    BY Numbers
  <2>2. IsFiniteSet(0..2) /\ Cardinality(0..2) = IF 0 > 2 THEN 0 ELSE 2 - 0 + 1
    BY <2>1, FS_Interval
  <2> QED BY <2>1, <2>2
<1>2. Cardinality(A) \in Nat /\ Cardinality(A) <= 3
  <2>1. A \in SUBSET VMs
    OBVIOUS
  <2>2. Cardinality(A) <= Cardinality(VMs) /\ IsFiniteSet(A)
    BY <1>1, <2>1, FS_Subset
  <2> QED BY <1>1, <2>2, FS_CardinalityType
<1>3. BarrierCount = 4
  BY DEF BarrierCount, NUMBEROFROLE
<1> QED BY <1>2, <1>3 DEF Arrived

--------------------------------------------------------------------------------
(* The parts of the invariant, kept by every step.                         *)

LEMMA TypeStep == IInv /\ [Next]_vars => TypeOK'
<1> SUFFICES ASSUME IInv, [Next]_vars PROVE TypeOK'
  OBVIOUS
<1> USE Numbers DEF IInv
<1>1. CASE MainAlone
  <2>1. /\ mpc' \in {"ksm_init", "ksm_enabled", "vmm_init", "shared_pages", "load_commands",
                     "create", "create_tm", "join", "join_tm", "save", "destroy", "close"}
        /\ v' = v /\ code' \in {NotExited, 0, 1, Segfault, Abort}
        /\ ksm' \subseteq KsmFile /\ distinct' \in 0..NbSharedPages
    BY <1>1 DEF MainAlone, KsmInit, KsmEnabled, VmmInit, InitSharedPages, LoadCommands, Succeeds,
                CopyCrashes, CreateFails, AssertFails, AllCreated, JoinCrashes, AllJoined, JoinTimeMaster, AllDestroyed, Exit,
                Joins, MainAt, Alive, stream, inputs, TypeOK
  <2> QED BY <1>1, <2>1, MainAloneFrame DEF TypeOK
<1>2. CASE CreateVm
  BY <1>2 DEF CreateVm, MainAt, MoreVms, inputs, stream, TypeOK
<1>3. CASE CreateTimeMaster
  BY <1>3 DEF CreateTimeMaster, inputs, stream, TypeOK
<1>4. CASE JoinVm
  <2>1. UNCHANGED <<mpc, saved, file, code, cmds, ksm, distinct, tpc, stream, mapped, tm, merged>>
    BY <1>4 DEF JoinVm, inputs
  <2>2. v' \in 0..NUMBEROFROLE /\ v \in VMs
    BY <1>4 DEF JoinVm, Joins, TypeOK
  <2>3. shown' \in [VMs -> {"no", "ok", "failed", "garbage"}]
    <3>1. PICK seen \in {status[v], "garbage"} : shown' = [shown EXCEPT ![v] = seen]
      BY <1>4 DEF JoinVm
    <3>2. seen \in {"ok", "failed", "garbage"} \/ seen = "running"
      BY <2>2 DEF TypeOK
    <3>3. seen # "running"
      <4>1. tpc[v] = "stopped" /\ StreamOf(v)
        BY <1>4, <2>2 DEF JoinVm, Joins, StreamInv
      <4> QED BY <4>1 DEF StreamOf
    <3> QED BY <2>2, <3>1, <3>2, <3>3 DEF TypeOK
  <2> QED BY <2>1, <2>2, <2>3 DEF stream, TypeOK
<1>5. CASE Save
  <2>1. UNCHANGED <<shown, code, cmds, ksm, distinct, tpc, stream, mapped, tm, merged>>
    BY <1>5 DEF Save, inputs
  <2>2. mpc' = "destroy" /\ v' \in 0..NUMBEROFROLE /\ saved' \in {"no", "ok", "failed"}
    BY <1>5 DEF Save
  <2>3. file' \in [VMs -> Seq(Stamp)]
    <3>1. ASSUME NEW r \in VMs PROVE Recorded(cmds[r], log[r]) \in Seq(Stamp)
      BY RecordedType DEF TypeOK
    <3> QED BY <1>5, <3>1 DEF Save, TypeOK
  <2> QED BY <2>1, <2>2, <2>3 DEF stream, TypeOK
<1>6. CASE DestroyVm
  BY <1>6, NbSharedPagesAssumption DEF DestroyVm, inputs, stream, TypeOK
<1>7. CASE BarrierOpens \/ KsmWaitReturns
  <2>1. UNCHANGED <<mainvars, inputs, stream, mapped, merged>>
    BY <1>7 DEF BarrierOpens, KsmWaitReturns
  <2>2. /\ tpc' \in [VMs -> {"absent", "created", "barrier", "handler", "kvm", "stuck", "stopped"}]
        /\ tm' \in {"absent", "ksm_wait", "barrier", "translate", "done"}
    BY <1>7 DEF BarrierOpens, KsmWaitReturns, TypeOK
  <2> QED BY <2>1, <2>2 DEF mainvars, inputs, stream, TypeOK
<1>8. CASE KsmWaitCrashes \/ Translate
  <2>1. UNCHANGED <<mpc, v, saved, file, shown, inputs, tpc, stream, mapped, merged>>
    BY <1>8 DEF KsmWaitCrashes, Translate
  <2>2. /\ code' \in {NotExited, 0, 1, Segfault, Abort}
        /\ tm' \in {"absent", "ksm_wait", "barrier", "translate", "done"}
    BY <1>8 DEF KsmWaitCrashes, Translate, TypeOK
  <2> QED BY <2>1, <2>2 DEF inputs, stream, TypeOK
<1>9. CASE KsmMerges
  <2>1. MergeablePages \in 0..NbSharedPages
    BY NbSharedPagesAssumption DEF MergeablePages, ShortFill, TypeOK
  <2>2. merged' \in 0..NbSharedPages
    BY <1>9, <2>1, NbSharedPagesAssumption DEF KsmMerges, TypeOK
  <2> QED BY <1>9, <2>2 DEF KsmMerges, mainvars, inputs, stream, TypeOK
<1>10. CASE UNCHANGED vars
  BY <1>10 DEF vars, mainvars, inputs, stream, TypeOK
<1>11. CASE \E r \in VMs : Steps(r)
  <2>1. PICK r \in VMs : Steps(r)
    BY <1>11
  <2>2. UNCHANGED <<mpc, v, saved, file, shown, code, cmds, ksm, distinct, mapped, tm, merged>>
    BY <2>1, StepsFrame
  <2>3. tpc' \in [VMs -> {"absent", "created", "barrier", "handler", "kvm", "stuck", "stopped"}]
    BY <2>1, StepsMove
  <2>4. /\ pos' \in [VMs -> Nat] /\ taken' \in [VMs -> Nat] /\ log' \in [VMs -> Seq(Stamp)]
        /\ status' \in [VMs -> {"running", "ok", "failed"}]
    BY <2>1, StepsStream
  <2> QED BY <2>2, <2>3, <2>4 DEF TypeOK
<1> QED BY <1>1, <1>2, <1>3, <1>4, <1>5, <1>6, <1>7, <1>8, <1>9, <1>10, <1>11, StepCases

LEMMA MainStep == IInv /\ [Next]_vars => MainInv'
<1> SUFFICES ASSUME IInv, [Next]_vars PROVE MainInv'
  OBVIOUS
<1> USE Numbers DEF IInv
<1>1. CASE MainAlone
  <2>0. UNCHANGED <<tpc, mapped, tm, saved, merged>>
    BY <1>1, MainAloneFrame
  <2>1. CASE KsmInit \/ KsmEnabled \/ VmmInit \/ InitSharedPages
    BY <2>0, <2>1 DEF KsmInit, KsmEnabled, VmmInit, InitSharedPages, Succeeds, MainAt, MainInv
  <2>2. CASE LoadCommands
    BY <2>0, <2>2 DEF LoadCommands, Succeeds, MainAt, Alive, TypeOK, MainInv
  <2>3. CASE CopyCrashes \/ CreateFails \/ AssertFails \/ JoinCrashes \/ Exit
    BY <2>0, <2>3 DEF CopyCrashes, CreateFails, AssertFails, JoinCrashes, Joins, Exit, MainAt, MainInv
  <2>4. CASE AllCreated
    BY <2>0, <2>4 DEF AllCreated, MainAt, MainInv
  <2>5. CASE AllJoined
    BY <2>0, <2>5 DEF AllJoined, LastJoined, MainAt, MainInv
  <2>6. CASE JoinTimeMaster
    BY <2>0, <2>6 DEF JoinTimeMaster, TimeMasterEnded, MainAt, MainInv
  <2>7. CASE AllDestroyed
    BY <2>0, <2>7 DEF AllDestroyed, MainAt, MainInv
  <2> QED BY <1>1, <2>1, <2>2, <2>3, <2>4, <2>5, <2>6, <2>7 DEF MainAlone
<1>2. CASE CreateVm
  BY <1>2 DEF CreateVm, MainAt, MoreVms, TypeOK, MainInv
<1>3. CASE CreateTimeMaster
  BY <1>3 DEF CreateTimeMaster, MainAt, MainInv
<1>4. CASE JoinVm
  BY <1>4 DEF JoinVm, Joins, MainAt, TypeOK, MainInv
<1>5. CASE Save
  BY <1>5 DEF Save, MainAt, MainInv
<1>6. CASE DestroyVm
  BY <1>6 DEF DestroyVm, MainAt, MainInv
<1>7. CASE BarrierOpens
  <2>1. /\ UNCHANGED <<mpc, v, saved, code, mapped, merged>> /\ tm' = "translate"
        /\ \A r \in VMs : tpc'[r] = "handler"
    BY <1>7 DEF BarrierOpens, mainvars
  <2>2. tm = "barrier" /\ \A r \in VMs : tpc[r] # "stopped"
    BY <1>7, AllArrived DEF BarrierOpens, BarrierInv, Waits
  <2>3. mpc \in {"join", "join_tm"} /\ mpc # "join_tm"
    BY <2>2 DEF MainInv
  <2> QED BY <2>1, <2>2, <2>3 DEF MainInv
<1>8. CASE KsmWaitCrashes \/ KsmWaitReturns \/ Translate
  BY <1>8 DEF KsmWaitCrashes, KsmWaitReturns, Translate, mainvars, MainInv
<1>9. CASE KsmMerges
  <2>1. UNCHANGED <<mpc, v, saved, code, tpc, mapped, tm>>
    BY <1>9 DEF KsmMerges, mainvars
  <2>2. mapped[VICTIM] \/ mapped[ATTACKER]
    BY <1>9, NbSharedPagesAssumption DEF KsmMerges, MergeablePages, TypeOK
  <2> QED BY <2>1, <2>2 DEF MainInv
<1>10. CASE UNCHANGED vars
  BY <1>10 DEF vars, mainvars, MainInv
<1>11. CASE \E r \in VMs : Steps(r)
  <2>1. PICK r \in VMs : Steps(r)
    BY <1>11
  <2>2. UNCHANGED <<mpc, v, saved, code, mapped, tm, merged>>
    BY <2>1, StepsFrame
  <2>3. /\ \A s \in VMs : tpc[s] # "absent" <=> tpc'[s] # "absent"
        /\ \A s \in VMs : tpc[s] = "stopped" => tpc'[s] = "stopped"
    BY <2>1, StepsMove
  <2>4. tpc[r] # "absent"
    BY <2>1, StepsMove
  <2> QED BY <2>2, <2>3, <2>4 DEF MainInv, TypeOK
<1> QED BY <1>1, <1>2, <1>3, <1>4, <1>5, <1>6, <1>7, <1>8, <1>9, <1>10, <1>11, StepCases

LEMMA BarrierStep == IInv /\ [Next]_vars => BarrierInv'
<1> SUFFICES ASSUME IInv, [Next]_vars PROVE BarrierInv'
  OBVIOUS
<1> USE Numbers DEF IInv
<1>1. CASE MainAlone
  <2>1. CASE KsmInit \/ InitSharedPages
    <3>1. tm = "absent" /\ tm' = tm /\ tpc' = tpc
      BY <2>1 DEF KsmInit, InitSharedPages, MainAt, MainInv, TypeOK
    <3> QED BY <3>1 DEF BarrierInv, Waits
  <2>2. CASE ~(KsmInit \/ InitSharedPages)
    <3>1. UNCHANGED <<tpc, tm, merged, ksm, distinct>>
      BY <1>1, <2>2, MainAloneFrame
      DEF MainAlone, KsmEnabled, VmmInit, LoadCommands, Succeeds,
          CopyCrashes, CreateFails, AssertFails, AllCreated, JoinCrashes, AllJoined, JoinTimeMaster, AllDestroyed, Exit, inputs
    <3> QED BY <3>1 DEF BarrierInv, Waits, Ran, KsmCountsOpen, PagesShared
  <2> QED BY <2>1, <2>2
<1>2. CASE CreateVm
  <2>1. tm = "absent" /\ tm' = tm
    BY <1>2 DEF CreateVm, MainAt, MainInv
  <2>2. \A r \in VMs : tpc'[r] = tpc[r] \/ tpc'[r] = "created"
    BY <1>2 DEF CreateVm, TypeOK
  <2> QED BY <2>1, <2>2 DEF BarrierInv, Waits
<1>3. CASE CreateTimeMaster
  <2>1. tm = "absent" /\ tm' = "ksm_wait" /\ tpc' = tpc
    BY <1>3 DEF CreateTimeMaster, MainAt, MainInv
  <2> QED BY <2>1 DEF BarrierInv, Waits
<1>4. CASE JoinVm \/ Save \/ UNCHANGED vars
  <2>1. UNCHANGED <<tpc, tm, merged, ksm, distinct>>
    BY <1>4 DEF JoinVm, Save, vars, inputs
  <2> QED BY <2>1 DEF BarrierInv, Waits, Ran, KsmCountsOpen, PagesShared
<1>5. CASE DestroyVm
  <2>1. tm = "done" /\ UNCHANGED <<tpc, tm, ksm, distinct>>
    BY <1>5 DEF DestroyVm, MainAt, MainInv, inputs
  <2> QED BY <2>1 DEF BarrierInv, Ran, KsmCountsOpen
<1>6. CASE BarrierOpens
  <2>1. tm = "barrier"
    BY <1>6, AllArrived DEF BarrierOpens
  <2>2. tm' = "translate" /\ UNCHANGED <<ksm, distinct>> /\ \A r \in VMs : tpc'[r] = "handler"
    BY <1>6 DEF BarrierOpens, inputs
  <2> QED BY <2>1, <2>2 DEF BarrierInv, Ran, KsmCountsOpen
<1>7. CASE KsmWaitCrashes \/ Translate
  <2>1. UNCHANGED <<tpc, ksm, distinct, merged>> /\ (tm' = tm \/ (tm = "translate" /\ tm' = "done"))
    BY <1>7 DEF KsmWaitCrashes, Translate, inputs
  <2> QED BY <2>1 DEF BarrierInv, Waits, Ran, KsmCountsOpen, PagesShared
<1>8. CASE KsmWaitReturns
  <2>1. /\ tm = "ksm_wait" /\ tm' = "barrier" /\ KsmCountsOpen /\ PagesShared >= NbSharedPages
        /\ UNCHANGED <<tpc, ksm, distinct, merged>>
    BY <1>8 DEF KsmWaitReturns, EnoughShared, inputs
  <2>2. OtherPages = 0 => distinct = NbSharedPages
    BY <2>1, NbSharedPagesAssumption DEF UntestedInv, PagesShared, TypeOK
  <2> QED BY <2>1, <2>2 DEF BarrierInv, Waits, KsmCountsOpen, PagesShared
<1>9. CASE KsmMerges
  <2>1. UNCHANGED <<tpc, tm, ksm, distinct>> /\ merged \in Nat /\ merged' = merged + 1
    BY <1>9, NbSharedPagesAssumption DEF KsmMerges, inputs, TypeOK
  <2>2. PagesShared >= NbSharedPages => PagesShared' >= NbSharedPages
    BY <2>1, NbSharedPagesAssumption, OtherPagesAssumption DEF PagesShared
  <2> QED BY <2>1, <2>2 DEF BarrierInv, Waits, Ran, KsmCountsOpen
<1>10. CASE \E r \in VMs : Steps(r)
  <2>1. PICK r \in VMs : Steps(r)
    BY <1>10
  <2>2. UNCHANGED <<tm, merged, ksm, distinct>>
    BY <2>1, StepsFrame
  <2>3. (\A s \in VMs : Waits(s)) => \A s \in VMs : Waits(s)'
    BY <2>1, StepsMove DEF Waits
  <2>4. (\A s \in VMs : Ran(s)) => \A s \in VMs : Ran(s)'
    BY <2>1, StepsMove DEF Ran
  <2> QED BY <2>2, <2>3, <2>4 DEF BarrierInv, KsmCountsOpen, PagesShared
<1> QED BY <1>1, <1>2, <1>3, <1>4, <1>5, <1>6, <1>7, <1>8, <1>9, <1>10, StepCases

LEMMA UntestedStep == IInv /\ [Next]_vars => UntestedInv'
<1> SUFFICES ASSUME IInv, [Next]_vars PROVE UntestedInv'
  OBVIOUS
<1> USE Numbers, NbSharedPagesAssumption DEF IInv
<1>1. CASE MainAlone
  <2>0. UNCHANGED <<tpc, merged>>
    BY <1>1, MainAloneFrame
  <2>1. CASE KsmInit
    <3>1. mpc' = "ksm_enabled" /\ distinct' = distinct
      BY <2>1 DEF KsmInit
    <3> QED BY <2>0, <3>1 DEF UntestedInv
  <2>2. CASE KsmEnabled
    BY <2>0, <2>2 DEF KsmEnabled, MainAt, inputs, UntestedInv
  <2>3. CASE VmmInit \/ LoadCommands
    BY <2>0, <2>3 DEF VmmInit, LoadCommands, Succeeds, MainAt, inputs, UntestedInv
  <2>4. CASE InitSharedPages
    <3>1. mpc = "shared_pages" /\ ksm' = ksm /\ distinct' \in Nat
      BY <2>4 DEF InitSharedPages, MainAt
    <3>2. merged = 0 /\ \A r \in VMs : tpc[r] = "absent"
      BY <3>1 DEF MainInv
    <3> QED BY <2>0, <3>1, <3>2 DEF UntestedInv
  <2>5. CASE CopyCrashes \/ CreateFails \/ AssertFails \/ JoinCrashes \/ Exit
    BY <2>0, <2>5 DEF CopyCrashes, CreateFails, AssertFails, JoinCrashes, Exit, inputs, UntestedInv
  <2>6. CASE AllCreated \/ AllJoined \/ JoinTimeMaster \/ AllDestroyed
    BY <2>0, <2>6 DEF AllCreated, AllJoined, JoinTimeMaster, AllDestroyed, MainAt, inputs, UntestedInv
  <2> QED BY <1>1, <2>1, <2>2, <2>3, <2>4, <2>5, <2>6 DEF MainAlone
<1>2. CASE CreateVm
  BY <1>2 DEF CreateVm, CanCopy, inputs, UntestedInv
<1>3. CASE CreateTimeMaster \/ JoinVm \/ Save
  BY <1>3 DEF CreateTimeMaster, JoinVm, Joins, Save, MainAt, inputs, UntestedInv
<1>4. CASE DestroyVm
  BY <1>4 DEF DestroyVm, MainAt, inputs, UntestedInv, TypeOK
<1>5. CASE BarrierOpens
  <2>1. UNCHANGED <<mpc, ksm, distinct, merged>>
    BY <1>5 DEF BarrierOpens, mainvars, inputs
  <2>2. distinct > 0
    <3>1. mpc = "join" \/ mpc = "join_tm"
      BY <1>5, AllArrived DEF BarrierOpens, MainInv
    <3> QED BY <3>1 DEF MainInv, UntestedInv
  <2> QED BY <2>1, <2>2 DEF UntestedInv
<1>6. CASE KsmWaitCrashes \/ Translate
  BY <1>6 DEF KsmWaitCrashes, Translate, inputs, UntestedInv
<1>7. CASE KsmWaitReturns \/ UNCHANGED vars
  BY <1>7 DEF KsmWaitReturns, vars, mainvars, inputs, UntestedInv
<1>8. CASE KsmMerges
  <2>1. UNCHANGED <<mpc, tpc, ksm, distinct>> /\ merged' = merged + 1 /\ merged < MergeablePages
    BY <1>8 DEF KsmMerges, mainvars, inputs
  <2>2. MergeablePages <= distinct /\ MergeablePages \in Nat
    BY DEF MergeablePages, ShortFill, TypeOK
  <2>3. merged' <= distinct'
    BY <2>1, <2>2 DEF TypeOK
  <2> QED BY <2>1, <2>3 DEF UntestedInv
<1>9. CASE \E r \in VMs : Steps(r)
  <2>1. PICK r \in VMs : Steps(r)
    BY <1>9
  <2>2. UNCHANGED <<mpc, ksm, distinct, merged>>
    BY <2>1, StepsFrame
  <2>3. distinct > 0
    BY <2>1, StepsMove DEF UntestedInv
  <2> QED BY <2>2, <2>3 DEF UntestedInv
<1> QED BY <1>1, <1>2, <1>3, <1>4, <1>5, <1>6, <1>7, <1>8, <1>9, StepCases

LEMMA CrashStep == IInv /\ [Next]_vars => CrashInv'
<1> SUFFICES ASSUME IInv, [Next]_vars, GuestsRan', code' \in {Segfault, Abort}
             PROVE  mpc' = "join" /\ tpc'[v'] = "stopped"
  BY DEF CrashInv
<1> USE Numbers DEF IInv
<1>1. CASE KsmEnabled \/ CopyCrashes \/ AssertFails
  <2>1. tpc' = tpc /\ mpc \in {"ksm_enabled", "create"}
    BY <1>1 DEF KsmEnabled, CopyCrashes, AssertFails, MainAt
  <2>2. tm = "absent"
    BY <2>1 DEF MainInv
  <2> QED BY <2>1, <2>2 DEF BarrierInv, Waits, GuestsRan
<1>2. CASE JoinCrashes
  BY <1>2 DEF JoinCrashes, Joins, MainAt
<1>3. CASE KsmWaitCrashes
  BY <1>3 DEF KsmWaitCrashes, BarrierInv, Waits, GuestsRan
<1>4. CASE UNCHANGED vars
  BY <1>4 DEF vars, mainvars, CrashInv, GuestsRan
<1>5. CASE /\ ~KsmEnabled /\ ~CopyCrashes /\ ~AssertFails /\ ~JoinCrashes /\ ~KsmWaitCrashes
           /\ ~UNCHANGED vars
  <2>1. CASE MainAlone
    <3>1. Alive /\ code' \in {code, 0, 1}
      BY <1>5, <2>1 DEF MainAlone, KsmInit, VmmInit, InitSharedPages, LoadCommands, Succeeds,
            CreateFails, AllCreated, AllJoined, JoinTimeMaster, AllDestroyed, Exit, MainAt
    <3> QED BY <3>1 DEF Alive
  <2>2. CASE CreateVm \/ CreateTimeMaster \/ JoinVm \/ Save \/ DestroyVm
    BY <2>2 DEF CreateVm, CreateTimeMaster, JoinVm, Joins, Save, DestroyVm, MainAt, Alive
  <2>3. CASE BarrierOpens \/ KsmWaitReturns \/ Translate \/ KsmMerges
    BY <2>3 DEF BarrierOpens, KsmWaitReturns, Translate, KsmMerges, mainvars, Alive
  <2>4. CASE \E r \in VMs : Steps(r)
    BY <2>4, StepsFrame, StepsMove DEF Alive
  <2> QED BY <1>5, <2>1, <2>2, <2>3, <2>4, StepCases
<1> QED BY <1>1, <1>2, <1>3, <1>4, <1>5

(* What is said of one command stream, when the stream does not move. *)
LEMMA StreamFrame ==
  ASSUME NEW r \in VMs, StreamOf(r), cmds' = cmds,
         pos'[r] = pos[r], taken'[r] = taken[r], log'[r] = log[r], status'[r] = status[r],
         tpc'[r] = tpc[r]
  PROVE  StreamOf(r)'
<1>1. Due(r)' = Due(r)
  BY DEF Due, Cur
<1>2. cmds'[r] = cmds[r]
  OBVIOUS
<1> QED BY <1>1, <1>2 DEF StreamOf, Waits

LEMMA StreamStep == IInv /\ [Next]_vars => StreamInv'
<1> SUFFICES ASSUME IInv, [Next]_vars, NEW r \in VMs PROVE StreamOf(r)'
  BY DEF StreamInv
<1>0. TypeOK /\ MainInv /\ BarrierInv /\ StreamOf(r)
  BY DEF IInv, StreamInv
<1>1. CASE \/ MainAlone \/ CreateTimeMaster \/ JoinVm \/ Save \/ DestroyVm
           \/ KsmWaitCrashes \/ KsmWaitReturns \/ Translate \/ KsmMerges \/ UNCHANGED vars
  <2>1. UNCHANGED <<cmds, pos, taken, log, status, tpc>>
    BY <1>1, MainAloneFrame
    DEF CreateTimeMaster, JoinVm, Save, DestroyVm, KsmWaitCrashes, KsmWaitReturns, Translate,
        KsmMerges, vars, inputs, stream
  <2> QED BY <1>0, <2>1, StreamFrame
<1>2. CASE CreateVm
  <2>1. UNCHANGED <<cmds, pos, taken, log, status>> /\ (tpc'[r] = tpc[r] \/ tpc'[r] = "created")
    BY <1>0, <1>2 DEF CreateVm, inputs, stream, TypeOK
  <2>2. Waits(r)
    BY <1>0, <1>2 DEF CreateVm, MainAt, MainInv, BarrierInv
  <2>3. Due(r)' = Due(r)
    BY <2>1 DEF Due, Cur
  <2> QED BY <1>0, <2>1, <2>2, <2>3 DEF StreamOf, Waits
<1>3. CASE BarrierOpens
  <2>1. UNCHANGED <<cmds, pos, taken, log, status>> /\ tpc'[r] = "handler"
    BY <1>3 DEF BarrierOpens, inputs, stream
  <2>2. Waits(r)
    BY <1>0, <1>3, AllArrived DEF BarrierOpens, BarrierInv
  <2>3. Due(r)' = Due(r) /\ (pos[r] = 0 => Due(r) = 0)
    BY <2>1 DEF Due, Cur
  <2> QED BY <1>0, <2>1, <2>2, <2>3 DEF StreamOf, Waits
<1>4. CASE \E s \in VMs : Steps(s)
  <2>1. PICK s \in VMs : Steps(s)
    BY <1>4
  <2>2. cmds' = cmds
    BY <2>1, StepsFrame
  <2>3. CASE s # r
    <3>1. /\ pos'[r] = pos[r] /\ taken'[r] = taken[r] /\ log'[r] = log[r] /\ status'[r] = status[r]
          /\ tpc'[r] = tpc[r]
      BY <1>0, <2>1, <2>3, StepsStream, StepsMove
    <3> QED BY <1>0, <2>2, <3>1, StreamFrame
  <2>4. CASE s = r
    <3>0. Steps(r)
      BY <2>1, <2>4
    <3>1. /\ cmds[r] \in Seq(Command) /\ Len(cmds[r]) \in Nat \ {0}
          /\ pos[r] \in 0..Len(cmds[r]) /\ taken[r] \in Nat /\ Due(r) \in Nat
          /\ Due(r) = IF pos[r] = 0 THEN 0 ELSE Width(cmds[r][pos[r]])
      BY <1>0, CurFacts DEF StreamOf, TypeOK
    <3>2. CASE Arrive(r)
      <4>1. UNCHANGED <<pos, taken, log, status>> /\ tpc[r] = "created" /\ tpc'[r] = "barrier"
        BY <1>0, <3>2 DEF Arrive, ThreadAt, stream, TypeOK
      <4>2. Due(r)' = Due(r)
        BY <2>2, <4>1 DEF Due, Cur
      <4> QED BY <1>0, <2>2, <4>1, <4>2 DEF StreamOf, Waits
    <3>3. CASE EnterGuest(r)
      <4>1. /\ UNCHANGED <<log, status>> /\ tpc[r] = "handler" /\ tpc'[r] = "kvm"
            /\ pos[r] < Len(cmds[r]) /\ pos'[r] = pos[r] + 1 /\ taken'[r] = 0
        BY <1>0, <3>3 DEF EnterGuest, ThreadAt, TypeOK
      <4>2. Due(r)' \in Nat
        <5>1. pos[r] + 1 \in 1..Len(cmds[r]) /\ cmds[r][pos[r] + 1] \in Command
          BY <3>1, <4>1
        <5>2. Due(r)' = Width(cmds[r][pos[r] + 1])
          BY <2>2, <4>1, <5>1 DEF Due, Cur
        <5> QED BY <5>1, <5>2, WidthOf
      <4>3. StampsUpTo(cmds[r], pos[r] + 1, 0) = StampsUpTo(cmds[r], pos[r], taken[r])
        <5>1. taken[r] = (IF pos[r] = 0 THEN 0 ELSE Width(cmds[r][pos[r]])) /\ pos[r] \in 0..(Len(cmds[r]) - 1)
          BY <1>0, <3>1, <4>1 DEF StreamOf
        <5> QED BY <3>1, <5>1, CommandFetched
      <4> QED BY <1>0, <2>2, <3>1, <4>1, <4>2, <4>3 DEF StreamOf, Waits
    <3>4. CASE TakeStamp(r)
      <4>1. /\ UNCHANGED <<tpc, pos, status>> /\ tpc[r] = "kvm" /\ taken[r] < Due(r)
            /\ taken'[r] = taken[r] + 1 /\ log'[r] = Append(log[r], StampOf(cmds[r][pos[r]], taken[r]))
        BY <1>0, <3>4 DEF TakeStamp, ThreadAt, Cur, TypeOK
      <4>2. Due(r)' = Due(r)
        BY <2>2, <4>1 DEF Due, Cur
      <4>3. pos[r] \in 1..Len(cmds[r])
        BY <1>0, <3>1, <4>1 DEF StreamOf
      <4>4. StampsUpTo(cmds[r], pos[r], taken[r] + 1)
              = Append(StampsUpTo(cmds[r], pos[r], taken[r]), StampOf(cmds[r][pos[r]], taken[r]))
        BY <3>1, <4>3, StampTaken
      <4>5. status[r] = "running"
        BY <1>0, <4>1 DEF StreamOf, TypeOK
      <4>6. log'[r] = StampsUpTo(cmds'[r], pos'[r], taken'[r])
        BY <1>0, <2>2, <4>1, <4>4 DEF StreamOf
      <4>7. taken'[r] \in 0..Due(r)
        BY <3>1, <4>1
      <4>8. pos'[r] \in 0..Len(cmds'[r]) /\ pos'[r] > 0 /\ tpc'[r] = "kvm" /\ status'[r] = "running"
        BY <2>2, <3>1, <4>1, <4>3, <4>5
      <4>9. taken'[r] \in 0..Due(r)'
        BY <4>2, <4>7
      <4> QED BY <4>6, <4>8, <4>9 DEF StreamOf, Waits
    <3>5. CASE LeaveGuest(r) \/ GuestBreaks(r)
      <4>1. /\ UNCHANGED <<pos, taken, log, status>> /\ tpc[r] = "kvm"
            /\ tpc'[r] \in {"handler", "stuck"} /\ (tpc'[r] = "handler" => taken[r] = Due(r))
        BY <1>0, <3>5 DEF LeaveGuest, Served, GuestBreaks, ThreadAt, stream, TypeOK
      <4>2. Due(r)' = Due(r)
        BY <2>2, <4>1 DEF Due, Cur
      <4> QED BY <1>0, <2>2, <4>1, <4>2 DEF StreamOf, Waits
    <3>6. CASE CrashGuest(r)
      <4>1. /\ UNCHANGED <<pos, taken, log>> /\ tpc'[r] = "stopped" /\ status'[r] = "failed"
        BY <1>0, <3>6 DEF CrashGuest, TypeOK
      <4>2. Due(r)' = Due(r)
        BY <2>2, <4>1 DEF Due, Cur
      <4> QED BY <1>0, <2>2, <4>1, <4>2 DEF StreamOf, Waits
    <3>7. CASE StopThread(r)
      <4>1. /\ UNCHANGED <<pos, taken, log>> /\ tpc[r] = "handler" /\ tpc'[r] = "stopped"
            /\ status'[r] \in {"ok", "failed"} /\ pos[r] = Len(cmds[r])
        BY <1>0, <3>7 DEF StopThread, ThreadAt, TypeOK
      <4>2. Due(r)' = Due(r)
        BY <2>2, <4>1 DEF Due, Cur
      <4> QED BY <1>0, <2>2, <4>1, <4>2 DEF StreamOf, Waits
    <3> QED BY <3>0, <3>2, <3>3, <3>4, <3>5, <3>6, <3>7 DEF Steps, Thread
  <2> QED BY <2>3, <2>4
<1> QED BY <1>1, <1>2, <1>3, <1>4, StepCases

LEMMA SavedStep == IInv /\ [Next]_vars => SavedInv'
<1> SUFFICES ASSUME IInv, [Next]_vars PROVE SavedInv'
  OBVIOUS
<1>1. CASE Save
  <2>1. UNCHANGED <<cmds, log>> /\ (saved' = "ok" => file' = [r \in VMs |-> Recorded(cmds[r], log[r])])
    BY <1>1 DEF Save, stream, inputs
  <2> QED BY <2>1 DEF SavedInv
<1>2. CASE \E r \in VMs : Steps(r)
  <2>1. PICK r \in VMs : Steps(r)
    BY <1>2
  <2>2. UNCHANGED <<saved, file>> /\ tpc[r] # "stopped"
    BY <2>1, StepsFrame, StepsMove DEF IInv
  <2>3. saved # "ok"
    BY <2>2 DEF IInv, MainInv
  <2> QED BY <2>2, <2>3 DEF SavedInv
<1>3. CASE ~Save /\ ~\E r \in VMs : Steps(r)
  <2>1. UNCHANGED <<saved, file, cmds, log>>
    BY <1>3, StepCases, MainAloneFrame
    DEF CreateVm, CreateTimeMaster, JoinVm, DestroyVm, BarrierOpens, KsmWaitCrashes,
        KsmWaitReturns, Translate, KsmMerges, vars, mainvars, stream, inputs
  <2> QED BY <2>1 DEF IInv, SavedInv
<1> QED BY <1>1, <1>2, <1>3

--------------------------------------------------------------------------------
(* The theorems.                                                           *)

(***************************************************************************)
(* IInv holds initially and every step of main, of a thread, of the time   *)
(* master and of KSM keeps it.                                             *)
(***************************************************************************)
THEOREM Inductive == Spec => []IInv
<1>1. Init => IInv
  <2> SUFFICES ASSUME Init PROVE IInv
    OBVIOUS
  <2>1. TypeOK
    <3>1. <<>> \in Seq(Stamp) /\ 0 \in 0..NbSharedPages
      BY NbSharedPagesAssumption
    <3>2. /\ mpc = "ksm_init" /\ saved = "no" /\ code = NotExited
          /\ ksm = {} /\ distinct \in 0..NbSharedPages /\ tm = "absent" /\ merged \in 0..NbSharedPages
      BY <3>1 DEF Init
    <3>5. v \in 0..NUMBEROFROLE
      BY DEF Init, NUMBEROFROLE
    <3>3. /\ file \in [VMs -> Seq(Stamp)] /\ log \in [VMs -> Seq(Stamp)]
          /\ shown \in [VMs -> {"no", "ok", "failed", "garbage"}]
          /\ cmds \in [VMs -> CmdLists]
      BY <3>1 DEF Init
    <3>4. /\ tpc \in [VMs -> {"absent", "created", "barrier", "handler", "kvm", "stuck", "stopped"}]
          /\ pos \in [VMs -> Nat] /\ taken \in [VMs -> Nat]
          /\ status \in [VMs -> {"running", "ok", "failed"}] /\ mapped \in [VMs -> BOOLEAN]
      BY DEF Init
    <3> QED BY <3>2, <3>3, <3>4, <3>5 DEF TypeOK
  <2>2. MainInv /\ BarrierInv /\ UntestedInv /\ CrashInv /\ SavedInv
    BY Numbers DEF Init, MainInv, BarrierInv, UntestedInv, CrashInv, SavedInv, Waits
  <2>3. ASSUME NEW r \in VMs PROVE StreamOf(r)
    <3>1. /\ cmds[r] \in CmdLists /\ tpc[r] = "absent" /\ pos[r] = 0 /\ taken[r] = 0
          /\ log[r] = <<>> /\ status[r] = "running"
      BY DEF Init
    <3>2. Len(cmds[r]) \in Nat
      BY <3>1, ListFacts
    <3> QED BY <3>1, <3>2 DEF StreamOf, Waits, Due, StampsUpTo
  <2> QED BY <2>1, <2>2, <2>3 DEF IInv, StreamInv
<1>2. IInv /\ [Next]_vars => IInv'
  BY TypeStep, MainStep, BarrierStep, UntestedStep, CrashStep, StreamStep, SavedStep DEF IInv
<1> QED BY <1>1, <1>2, PTL DEF Spec

(* Types hold in every reachable state of the process, for any number of    *)
(* shared pages and any lists (main, run_vm, time_master).                  *)
THEOREM TypeCorrect == Spec => []TypeOK
  BY Inductive, PTL DEF IInv

(* No thread and no time master ever touches a VM that main has unmapped:   *)
(* the joins keep vm_destroy behind all of them.                            *)
THEOREM RegionsOutlive == Spec => []RegionsOutliveUsers
<1>1. IInv => RegionsOutliveUsers
  <2> SUFFICES ASSUME IInv PROVE RegionsOutliveUsers
    OBVIOUS
  <2>1. ASSUME NEW r \in VMs, tpc[r] \notin {"absent", "stopped"} PROVE mapped[r]
    <3>1. mpc \in {"create", "create_tm", "join"}
      <4>1. mpc \notin {"ksm_init", "ksm_enabled", "vmm_init", "shared_pages", "load_commands"}
        BY <2>1 DEF IInv, MainInv
      <4>2. mpc \notin {"join_tm", "save", "destroy", "close"}
        BY <2>1 DEF IInv, MainInv
      <4> QED BY <4>1, <4>2 DEF IInv, TypeOK
    <3>2. CASE mpc = "create"
      <4>1. r < v
        BY <2>1, <3>2, Numbers DEF IInv, TypeOK, MainInv
      <4> QED BY <3>2, <4>1 DEF IInv, MainInv
    <3> QED BY <3>1, <3>2 DEF IInv, MainInv
  <2>2. ASSUME tm \in {"ksm_wait", "barrier", "translate"} PROVE mapped[VICTIM]
    <3>1. mpc \in {"join", "join_tm"}
      BY <2>2 DEF IInv, MainInv
    <3> QED BY <3>1, Numbers DEF IInv, MainInv
  <2> QED BY <2>1, <2>2 DEF RegionsOutliveUsers
<1> QED BY <1>1, Inductive, PTL

(* No guest runs behind a missing file that ksm_enabled or ksm_wait reads,  *)
(* a buffer that was not allocated, or, where the host shares nothing else, *)
(* a short fill; and once guests have run, only the access of main to the   *)
(* stack of a thread that has ended can kill the process.                   *)
THEOREM FailedStartIsFatal == Spec => []FailedStartRunsNoGuest
<1>1. IInv => FailedStartRunsNoGuest
  <2> SUFFICES ASSUME IInv PROVE FailedStartRunsNoGuest
    OBVIOUS
  <2>1. ASSUME GuestsRan \/ code = 0
        PROVE  /\ {"run", "pages_shared", "pages_unshared"} \subseteq ksm
               /\ distinct > 0 /\ (OtherPages = 0 => distinct = NbSharedPages)
    <3>1. tm \in {"translate", "done"}
      BY <2>1 DEF IInv, TypeOK, MainInv, BarrierInv, Waits, GuestsRan
    <3>2. KsmCountsOpen /\ "run" \in ksm /\ (OtherPages = 0 => distinct = NbSharedPages)
      BY <3>1 DEF IInv, MainInv, BarrierInv, UntestedInv
    <3>3. distinct > 0
      BY <3>1, Numbers DEF IInv, BarrierInv, UntestedInv, Ran
    <3> QED BY <3>2, <3>3 DEF KsmCountsOpen
  <2>2. GuestsRan /\ code \in {Segfault, Abort} => mpc = "join" /\ tpc[v] = "stopped"
    BY DEF IInv, CrashInv
  <2> QED BY <2>1, <2>2 DEF FailedStartRunsNoGuest
<1> QED BY <1>1, Inductive, PTL

(* What main saves is final; and for each list without PRINT, unknown       *)
(* commands and repeats, of any length, it is whole: every stamp the guest  *)
(* has taken, and all stamps of the list if the VM reported success.        *)
THEOREM SavedMeasuresAreFinal == Spec => []SavedIsFinal
<1>1. IInv => SavedIsFinal
  <2> SUFFICES ASSUME IInv PROVE SavedIsFinal
    OBVIOUS
  <2>1. code = 0 => saved # "no"
    BY DEF IInv, MainInv
  <2>2. ASSUME saved = "ok", NEW r \in VMs
        PROVE  /\ status[r] # "running" /\ file[r] = Recorded(cmds[r], log[r])
               /\ Recordable(cmds[r]) =>
                    /\ file[r] = log[r]
                    /\ status[r] = "ok" => file[r] = Expected(cmds[r])
    <3>1. /\ file[r] = Recorded(cmds[r], log[r]) /\ tpc[r] = "stopped" /\ StreamOf(r)
          /\ log[r] \in Seq(Stamp)
      BY <2>2 DEF IInv, TypeOK, MainInv, SavedInv, StreamInv
    <3>2. /\ pos[r] \in 0..Len(cmds[r]) /\ taken[r] \in Nat
          /\ cmds[r] \in CmdLists /\ cmds[r] \in Seq(Command)
          /\ pos[r] > 0 => Due(r) = Width(cmds[r][pos[r]])
          /\ taken[r] \in 0..Due(r) /\ Due(r) \in Nat
          /\ log[r] = StampsUpTo(cmds[r], pos[r], taken[r])
      BY <3>1, CurFacts DEF IInv, TypeOK, StreamOf
    <3>3. Len(log[r]) <= Len(Expected(cmds[r]))
      <4>1. pos[r] > 0 => taken[r] <= Width(cmds[r][pos[r]])
        BY <3>2
      <4>2. PICK rest \in Seq(Stamp) : Expected(cmds[r]) = log[r] \o rest
        BY <3>2, <4>1, StampsUpToPrefix
      <4> QED BY <3>1, <4>2
    <3>4. Recordable(cmds[r]) => file[r] = log[r]
      BY <3>1, <3>2, <3>3, RecordedWhole
    <3>5. ASSUME status[r] = "ok" PROVE log[r] = Expected(cmds[r])
      <4>1. pos[r] = Len(cmds[r]) /\ taken[r] = Due(r)
        BY <3>1, <3>5 DEF StreamOf
      <4>2. pos[r] > 0 /\ Due(r) = Width(cmds[r][pos[r]])
        BY <3>2, <4>1, CurFacts DEF IInv
      <4>3. StampsUpTo(cmds[r], pos[r], Width(cmds[r][pos[r]])) = Expected(cmds[r])
        BY <3>2, <4>1, <4>2, ListServed
      <4> QED BY <3>2, <4>1, <4>2, <4>3
    <3> QED BY <3>1, <3>4, <3>5 DEF StreamOf
  <2> QED BY <2>1, <2>2 DEF SavedIsFinal
<1> QED BY <1>1, Inductive, PTL

(***************************************************************************)
(* Where KSM shares no page for another process of the host - what the     *)
(* wait takes for granted, and what it misses otherwise -, no guest serves *)
(* a command before all shared pages of the bench are merged, however many *)
(* there are.                                                              *)
(***************************************************************************)
THEOREM DedupPrecedesRun == ASSUME OtherPages = 0 PROVE Spec => DedupBeforeRun
<1>1. ASSUME IInv, [Next]_vars
      PROVE  \A r \in VMs : tpc[r] # "handler" /\ tpc'[r] = "handler" /\ pos[r] = 0
                             => merged = NbSharedPages
  <2> SUFFICES ASSUME NEW r \in VMs, tpc[r] # "handler", tpc'[r] = "handler", pos[r] = 0
               PROVE  merged = NbSharedPages
    OBVIOUS
  <2>0. TypeOK /\ BarrierInv /\ StreamInv /\ [Next]_vars
    BY <1>1 DEF IInv
  <2>1. BarrierOpens
    <3>1. CASE \E s \in VMs : Steps(s)
      <4>1. PICK s \in VMs : Steps(s)
        BY <3>1
      <4>2. s = r
        BY <2>0, <4>1, StepsMove
      <4>3. tpc[r] = "kvm"
        BY <2>0, <4>1, <4>2, StepsMove
      <4> QED BY <2>0, <4>3 DEF StreamInv, StreamOf, TypeOK
    <3>2. CASE ~\E s \in VMs : Steps(s)
      <4>1. CASE BarrierOpens
        BY <4>1
      <4>2. CASE CreateVm
        BY <2>0, <4>2 DEF CreateVm, TypeOK
      <4>3. CASE ~BarrierOpens /\ ~CreateVm
        BY <2>0, <3>2, <4>3, StepCases, MainAloneFrame
        DEF CreateTimeMaster, JoinVm, Save, DestroyVm, KsmWaitCrashes, KsmWaitReturns,
            Translate, KsmMerges, vars
      <4> QED BY <4>1, <4>2, <4>3
    <3> QED BY <3>1, <3>2
  <2>2. PagesShared >= NbSharedPages
    BY <2>0, <2>1, AllArrived DEF BarrierOpens, BarrierInv
  <2> QED BY <2>0, <2>2, NbSharedPagesAssumption DEF PagesShared, TypeOK
<1> QED BY <1>1, Inductive, PTL DEF Spec, DedupBeforeRun

--------------------------------------------------------------------------------
(* Refinement: each VM of Vmm implements CommandStream.                    *)

(* A step of CommandStream, with the variables of VM r. *)
StreamStays(r) == UNCHANGED <<cmds[r], pos[r], taken[r], log[r], status[r]>>

Fetches(r) ==
  /\ status[r] = "running" /\ pos[r] < Len(cmds[r]) /\ taken[r] = Due(r)
  /\ pos'[r] = pos[r] + 1 /\ taken'[r] = 0
  /\ UNCHANGED <<cmds[r], log[r], status[r]>>

Takes(r) ==
  /\ status[r] = "running" /\ taken[r] < Due(r)
  /\ log'[r] = Append(log[r], StampOf(cmds[r][pos[r]], taken[r])) /\ taken'[r] = taken[r] + 1
  /\ UNCHANGED <<cmds[r], pos[r], status[r]>>

Ends(r) ==
  /\ status[r] = "running"
  /\ \/ pos[r] = Len(cmds[r]) /\ taken[r] = Due(r) /\ status'[r] \in {"ok", "failed"}
     \/ /\ pos[r] > 0 /\ cmds[r][pos[r]].cmd \in {"READ", "WRITE"} /\ ~Mapped(cmds[r][pos[r]].addr)
        /\ status'[r] = "failed"
  /\ UNCHANGED <<cmds[r], pos[r], taken[r], log[r]>>

StreamMoves(r) == Fetches(r) \/ Takes(r) \/ Ends(r)

(* Every step of Vmm is one of these for each VM, or invisible to it.      *)
LEMMA StreamSimulation ==
  ASSUME IInv, [Next]_vars, NEW r \in VMs
  PROVE  StreamMoves(r) \/ StreamStays(r)
<1>0. TypeOK /\ StreamOf(r)
  BY DEF IInv, StreamInv
<1>1. CASE ~\E s \in VMs : Steps(s)
  <2>1. UNCHANGED <<cmds, pos, taken, log, status>>
    BY <1>1, StepCases, MainAloneFrame
    DEF CreateVm, CreateTimeMaster, JoinVm, Save, DestroyVm, BarrierOpens, KsmWaitCrashes,
        KsmWaitReturns, Translate, KsmMerges, vars, inputs, stream
  <2> QED BY <2>1 DEF StreamStays
<1>2. CASE \E s \in VMs : Steps(s)
  <2>1. PICK s \in VMs : Steps(s)
    BY <1>2
  <2>2. cmds' = cmds
    BY <2>1, StepsFrame
  <2>3. CASE s # r
    BY <2>1, <2>2, <2>3, StepsStream DEF StreamStays
  <2>4. CASE s = r
    <3>0. Steps(r)
      BY <2>1, <2>4
    <3>1. status[r] = "running"
      BY <1>0, <3>0, StepsMove DEF StreamOf, TypeOK
    <3>2. CASE Arrive(r) \/ LeaveGuest(r) \/ GuestBreaks(r)
      BY <2>2, <3>2 DEF Arrive, LeaveGuest, GuestBreaks, stream, StreamStays
    <3>3. CASE EnterGuest(r)
      <4>1. taken[r] = Due(r)
        BY <1>0, <3>3 DEF EnterGuest, ThreadAt, StreamOf
      <4> QED BY <1>0, <2>2, <3>1, <3>3, <4>1 DEF EnterGuest, TypeOK, Fetches, StreamMoves
    <3>4. CASE TakeStamp(r)
      BY <1>0, <2>2, <3>1, <3>4 DEF TakeStamp, Cur, TypeOK, Takes, StreamMoves
    <3>5. CASE CrashGuest(r)
      <4>1. pos[r] > 0
        BY <1>0, <3>5 DEF CrashGuest, ThreadAt, StreamOf
      <4> QED BY <1>0, <2>2, <3>1, <3>5, <4>1 DEF CrashGuest, Faults, Cur, TypeOK, Ends, StreamMoves
    <3>6. CASE StopThread(r)
      <4>1. taken[r] = Due(r)
        BY <1>0, <3>6 DEF StopThread, ThreadAt, StreamOf
      <4> QED BY <1>0, <2>2, <3>1, <3>6, <4>1 DEF StopThread, TypeOK, Ends, StreamMoves
    <3> QED BY <3>0, <3>2, <3>3, <3>4, <3>5, <3>6 DEF Steps, Thread
  <2> QED BY <2>3, <2>4
<1> QED BY <1>1, <1>2

(* CommandStream, instantiated for a VM, has these steps.                  *)
LEMMA VictimSteps ==
  StreamMoves(VICTIM) \/ StreamStays(VICTIM) => [VictimStream!Next]_VictimStream!vars
<1>1. \A c, n : VictimStream!StampOf(c, n) = StampOf(c, n) /\ VictimStream!Width(c) = Width(c)
  BY DEF VictimStream!StampOf, StampOf, VictimStream!Width, Width
<1>2. \A addr : VictimStream!Mapped(addr) <=> Mapped(addr)
  BY DEF VictimStream!Mapped, Mapped
<1>3. VictimStream!Due = Due(VICTIM)
  BY <1>1 DEF VictimStream!Due, Due, Cur
<1> QED BY <1>1, <1>2, <1>3
    DEF StreamMoves, StreamStays, Fetches, Takes, Ends, VictimStream!Next, VictimStream!vars,
        VictimStream!Fetch, VictimStream!Take, VictimStream!Succeed, VictimStream!Fail,
        VictimStream!Complete, VictimStream!OutOfReach

LEMMA AttackerSteps ==
  StreamMoves(ATTACKER) \/ StreamStays(ATTACKER) => [AttackerStream!Next]_AttackerStream!vars
<1>1. \A c, n : AttackerStream!StampOf(c, n) = StampOf(c, n) /\ AttackerStream!Width(c) = Width(c)
  BY DEF AttackerStream!StampOf, StampOf, AttackerStream!Width, Width
<1>2. \A addr : AttackerStream!Mapped(addr) <=> Mapped(addr)
  BY DEF AttackerStream!Mapped, Mapped
<1>3. AttackerStream!Due = Due(ATTACKER)
  BY <1>1 DEF AttackerStream!Due, Due, Cur
<1> QED BY <1>1, <1>2, <1>3
    DEF StreamMoves, StreamStays, Fetches, Takes, Ends, AttackerStream!Next, AttackerStream!vars,
        AttackerStream!Fetch, AttackerStream!Take, AttackerStream!Succeed, AttackerStream!Fail,
        AttackerStream!Complete, AttackerStream!OutOfReach

LEMMA DefenderSteps ==
  StreamMoves(DEFENDER) \/ StreamStays(DEFENDER) => [DefenderStream!Next]_DefenderStream!vars
<1>1. \A c, n : DefenderStream!StampOf(c, n) = StampOf(c, n) /\ DefenderStream!Width(c) = Width(c)
  BY DEF DefenderStream!StampOf, StampOf, DefenderStream!Width, Width
<1>2. \A addr : DefenderStream!Mapped(addr) <=> Mapped(addr)
  BY DEF DefenderStream!Mapped, Mapped
<1>3. DefenderStream!Due = Due(DEFENDER)
  BY <1>1 DEF DefenderStream!Due, Due, Cur
<1> QED BY <1>1, <1>2, <1>3
    DEF StreamMoves, StreamStays, Fetches, Takes, Ends, DefenderStream!Next, DefenderStream!vars,
        DefenderStream!Fetch, DefenderStream!Take, DefenderStream!Succeed, DefenderStream!Fail,
        DefenderStream!Complete, DefenderStream!OutOfReach

(* Through creation, barrier, joins, saving and destruction each VM does    *)
(* what CommandStream promises, as VmThread does on its own.                *)
THEOREM Refinement == Spec => StreamsKept
<1>0. VICTIM \in VMs /\ ATTACKER \in VMs /\ DEFENDER \in VMs
  BY DEF VICTIM, ATTACKER, DEFENDER, VMs, NUMBEROFROLE
<1>1. Init => VictimStream!Init /\ AttackerStream!Init /\ DefenderStream!Init
  BY <1>0 DEF Init, VictimStream!Init, AttackerStream!Init, DefenderStream!Init
<1>2. IInv /\ [Next]_vars => [VictimStream!Next]_VictimStream!vars
  BY <1>0, StreamSimulation, VictimSteps
<1>3. IInv /\ [Next]_vars => [AttackerStream!Next]_AttackerStream!vars
  BY <1>0, StreamSimulation, AttackerSteps
<1>4. IInv /\ [Next]_vars => [DefenderStream!Next]_DefenderStream!vars
  BY <1>0, StreamSimulation, DefenderSteps
<1> QED BY <1>1, <1>2, <1>3, <1>4, Inductive, PTL
    DEF Spec, StreamsKept, VictimStream!Spec, AttackerStream!Spec, DefenderStream!Spec
================================================================================
