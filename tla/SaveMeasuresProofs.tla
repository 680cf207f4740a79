-------------------------- MODULE SaveMeasuresProofs ---------------------------
(***************************************************************************)
(* Proofs about save_measures: which command a record is of, their order,  *)
(* and that none is missing before the first command that leaves none,     *)
(* hold for all command lists; that the stamps of a record are the ones of *)
(* its command needs lists whose accesses are not repeated.                *)
(***************************************************************************)
EXTENDS SaveMeasures, StampFacts

(* What the three actions that write a record have in common. *)
Wrote(n) ==
  /\ WriteRecord(n)
  /\ pc = "command" /\ v \in VMs
  /\ cmd = i /\ i + 1 \in 1..Len(cmds[v])
  /\ Cur \in Command /\ Cur.cmd \notin {"PRINT", "UNKNOWN"}
  /\ RepeatOnce => n = Width(Cur)

(* The record that they add. *)
NewRecord(n) ==
  [id |-> i, cmd |-> Cur.cmd, vm_id |-> v, ts |-> [k \in 1..n |-> StampAt(m + k)]]

LEMMA ListOf ==
  ASSUME TypeOK, NEW r \in VMs
  PROVE  /\ cmds[r] \in CmdLists /\ cmds[r] \in Seq(Command)
         /\ Len(cmds[r]) \in Nat
         /\ measures[r] \in Seq(Stamp)
  BY ListFacts DEF TypeOK

LEMMA Written ==
  ASSUME TypeOK, WalkInv, SaveUntimed \/ SaveMeasure \/ SaveAccess
  PROVE  \E n \in 0..2 : Wrote(n)
<1>1. pc = "command" /\ i < Len(cmds[v]) /\ Cur.cmd \notin {"PRINT", "UNKNOWN"}
  BY DEF SaveUntimed, SaveMeasure, SaveAccess, InLoop, More
<1>2. v \in VMs /\ cmd = i
  BY <1>1 DEF WalkInv
<1>3. /\ cmds[v] \in CmdLists /\ cmds[v] \in Seq(Command) /\ Len(cmds[v]) \in Nat
  BY <1>2, ListOf
<1>4. i + 1 \in 1..Len(cmds[v])
  BY <1>1, <1>3 DEF TypeOK
<1>5. Cur \in Command /\ Cur = cmds[v][i+1]
  BY <1>2, <1>3, <1>4 DEF Cur
<1>6. RepeatOnce /\ Cur.cmd \in {"MEASURE", "READ", "WRITE"} => Cur.repeat = 1
  BY <1>3, <1>4, <1>5 DEF RepeatOnce
<1>7. CASE SaveUntimed
  <2>1. RepeatOnce => 0 = Width(Cur)
    BY <1>5, <1>7, WidthOf DEF SaveUntimed
  <2>2. WriteRecord(0)
    BY <1>7 DEF SaveUntimed
  <2>3. Wrote(0)
    BY <1>1, <1>2, <1>4, <1>5, <2>1, <2>2 DEF Wrote
  <2> QED BY <2>3
<1>8. CASE SaveMeasure
  <2>1. RepeatOnce => 1 = Width(Cur)
    BY <1>5, <1>6, <1>8, WidthOf DEF SaveMeasure
  <2>2. WriteRecord(1)
    BY <1>8 DEF SaveMeasure
  <2>3. Wrote(1)
    BY <1>1, <1>2, <1>4, <1>5, <2>1, <2>2 DEF Wrote
  <2> QED BY <2>3
<1>9. CASE SaveAccess
  <2>1. RepeatOnce => 2 = Width(Cur)
    BY <1>5, <1>6, <1>9, WidthOf DEF SaveAccess
  <2>2. WriteRecord(2)
    BY <1>9 DEF SaveAccess
  <2>3. Wrote(2)
    BY <1>1, <1>2, <1>4, <1>5, <2>1, <2>2 DEF Wrote
  <2> QED BY <2>3
<1> QED BY <1>7, <1>8, <1>9

LEMMA StampAtType ==
  ASSUME TypeOK, v \in VMs, NEW k \in Nat \ {0}
  PROVE  StampAt(k) \in Stamp \cup {Zero}
<1>1. measures[v] \in Seq(Stamp)
  BY ListOf
<1> QED BY <1>1 DEF StampAt

(* The file afterwards: the records it had, and the new one. *)
LEMMA OneMore ==
  ASSUME TypeOK, NEW n \in 0..2, Wrote(n)
  PROVE  /\ file' \in Seq(Record)
         /\ Len(file) \in Nat /\ Len(file') = Len(file) + 1
         /\ \A k \in 1..Len(file) : file[k] \in Record /\ file'[k] = file[k]
         /\ file'[Len(file) + 1] = NewRecord(n)
<1>1. \A k \in 1..n : StampAt(m + k) \in Stamp \cup {Zero}
  <2> TAKE k \in 1..n
  <2>1. m + k \in Nat \ {0}
    BY DEF TypeOK
  <2> QED BY <2>1, StampAtType DEF Wrote
<1>2. [k \in 1..n |-> StampAt(m + k)] \in Seq(Stamp \cup {Zero})
  BY <1>1
<1>3. NewRecord(n) \in Record
  <2>1. i \in Nat /\ v \in VMs /\ Cur.cmd \in Primitive
    BY DEF TypeOK, Wrote, Command
  <2> QED BY <1>2, <2>1 DEF NewRecord, Record
<1>4. file' = Append(file, NewRecord(n))
  BY DEF Wrote, WriteRecord, NewRecord
<1>5. file \in Seq(Record)
  BY DEF TypeOK
<1> HIDE DEF NewRecord
<1> QED BY <1>3, <1>4, <1>5

--------------------------------------------------------------------------------
(* The inductive invariant, part by part.                                  *)

LEMMA LeftType ==
  ASSUME NEW l \in CmdLists
  PROVE  Left(l) \in Seq(Stamp)
<1> DEFINE faults == {k \in 1..Len(l) : /\ l[k].cmd \in {"READ", "WRITE"}
                                        /\ ~Mapped(l[k].addr)
                                        /\ l[k].repeat > 0}
<1>1. l \in Seq(Command) /\ Len(l) \in Nat
  BY ListFacts
<1>2. CASE faults = {}
  BY <1>1, <1>2, StampsOfFirstType DEF Left, Expected
<1>3. CASE faults # {}
  <2> DEFINE first == CHOOSE k \in faults : \A j \in faults : k <= j
  <2>1. faults \in SUBSET Nat
    BY <1>1
  <2>2. first \in faults
    <3> HIDE DEF faults
    <3> QED BY <1>3, <2>1, NatMin
  <2>3. first \in 1..Len(l) /\ first - 1 \in 0..Len(l) /\ l[first] \in Command
    BY <1>1, <2>2
  <2>4. Left(l) = CrashedAt(l, first)
    BY <1>3 DEF Left
  <2> HIDE DEF faults, first
  <2>5. StampsOfFirst(l, first - 1) \in Seq(Stamp)
    BY <1>1, <2>3, StampsOfFirstType
  <2>6. StampOf(l[first], 0) \in Stamp
    BY <2>3, StampOfType
  <2> QED BY <2>4, <2>5, <2>6 DEF CrashedAt
<1> QED BY <1>2, <1>3

LEMMA InitInv ==
  ASSUME Init
  PROVE  IInv
<1>1. TypeOK
  <2>1. cmds \in [VMs -> CmdLists] /\ measures = [r \in VMs |-> Left(cmds[r])]
    BY DEF Init
  <2>2. \A r \in VMs : Left(cmds[r]) \in Seq(Stamp)
    BY <2>1, LeftType
  <2>3. measures \in [VMs -> Seq(Stamp)]
    BY <2>1, <2>2
  <2>4. file \in Seq(Record)
    BY DEF Init
  <2> QED BY <2>1, <2>3, <2>4 DEF Init, TypeOK, NUMBEROFROLE
<1>2. WalkInv
  BY DEF Init, WalkInv
<1>3. Len(file) = 0 /\ file = <<>>
  BY DEF Init
<1>4. FileInv /\ OrderKept /\ RecordsAreTrue
  BY <1>3 DEF FileInv, OrderKept, RecordsAreTrue
<1>5. KeptInv
  BY DEF Init, KeptInv, VMs, NUMBEROFROLE
<1> QED BY <1>1, <1>2, <1>4, <1>5 DEF IInv

LEMMA TypeStep ==
  ASSUME TypeOK, WalkInv, Next
  PROVE  TypeOK'
<1>1. CASE SaveUntimed \/ SaveMeasure \/ SaveAccess
  <2>1. PICK n \in 0..2 : Wrote(n)
    BY <1>1, Written
  <2>2. file' \in Seq(Record)
    BY <2>1, OneMore
  <2>3. UNCHANGED <<inputs, pc, v, result>> /\ m' = m + n /\ cmd' = cmd + 1 /\ i' = i + 1
    BY <2>1 DEF Wrote, WriteRecord
  <2> QED BY <2>2, <2>3 DEF TypeOK, inputs
<1>2. CASE StartVm
  BY <1>2 DEF StartVm, TypeOK, inputs, FirstStamp
<1>3. CASE SkipCommand
  BY <1>3 DEF SkipCommand, TypeOK, inputs, IndexAfterSkip
<1>4. CASE EndVm
  <2>1. v' \in 0..NUMBEROFROLE
    BY <1>4 DEF EndVm, TypeOK, WalkInv, NextVm, VMs, NUMBEROFROLE
  <2> QED BY <1>4, <2>1 DEF EndVm, TypeOK, inputs
<1>5. CASE OpenFile \/ IOFails \/ Return \/ Terminated
  <2>1. UNCHANGED <<inputs, v, i, cmd, m, file>>
    BY <1>5 DEF OpenFile, IOFails, Return, Terminated, vars
  <2>2. pc' \in {"open", "vm", "command", "done"} /\ result' \in {-1, 0}
    BY <1>5 DEF OpenFile, IOFails, Return, Terminated, vars, Finish, Failure, TypeOK
  <2> QED BY <2>1, <2>2 DEF TypeOK, inputs
<1> QED BY <1>1, <1>2, <1>3, <1>4, <1>5 DEF Next, Step

LEMMA WalkStep ==
  ASSUME TypeOK, WalkInv, Next
  PROVE  WalkInv'
<1>1. CASE SaveUntimed \/ SaveMeasure \/ SaveAccess
  <2>1. PICK n \in 0..2 : Wrote(n)
    BY <1>1, Written
  <2>2. /\ UNCHANGED <<cmds, pc, v, result>>
        /\ m' = m + n /\ cmd' = cmd + 1 /\ i' = i + 1
    BY <2>1 DEF Wrote, WriteRecord, inputs
  <2>3. pc = "command" /\ v \in VMs /\ cmd = i /\ i + 1 \in 1..Len(cmds[v])
    BY <2>1 DEF Wrote
  <2>4. cmds[v] \in Seq(Command) /\ Len(cmds[v]) \in Nat
    BY <2>3, ListOf
  <2>5. ASSUME RepeatOnce PROVE m' = Len(StampsOfFirst(cmds[v], i + 1))
    <3>1. n = Width(Cur) /\ Cur = cmds[v][i+1] /\ Cur \in Command
      BY <2>1, <2>3, <2>5 DEF Wrote, Cur
    <3>2. m = Len(StampsOfFirst(cmds[v], i))
      BY <2>3, <2>5 DEF WalkInv
    <3>3. StampsOfFirst(cmds[v], i + 1) = StampsOfFirst(cmds[v], i) \o StampsOf(Cur)
      <4>1. (i + 1) - 1 = i
        BY DEF TypeOK
      <4> QED BY <2>3, <2>4, <3>1, <4>1, StampsOfFirstSteps
    <3>4. StampsOfFirst(cmds[v], i) \in Seq(Stamp)
      <4>1. i \in 0..Len(cmds[v])
        BY <2>3, <2>4 DEF TypeOK
      <4> QED BY <2>4, <4>1, StampsOfFirstType
    <3>5. StampsOf(Cur) \in Seq(Stamp) /\ Len(StampsOf(Cur)) = n
      BY <3>1, StampsOfType
    <3>6. Len(StampsOfFirst(cmds[v], i) \o StampsOf(Cur))
            = Len(StampsOfFirst(cmds[v], i)) + Len(StampsOf(Cur))
      BY <3>4, <3>5, ConcatType
    <3> QED BY <2>2, <3>2, <3>3, <3>5, <3>6
  <2>6. i' <= Len(cmds[v]) /\ cmd' = i'
    BY <2>2, <2>3
  <2>7. result # -1 /\ pc # "done"
    BY <2>3 DEF WalkInv
  <2> QED BY <2>2, <2>3, <2>5, <2>6, <2>7 DEF WalkInv, RepeatOnce
<1>2. CASE StartVm
  <2>1. /\ pc = "vm" /\ v < NUMBEROFROLE /\ pc' = "command"
        /\ i' = 0 /\ cmd' = 0 /\ m' = 0 /\ UNCHANGED <<cmds, v, result>>
    BY <1>2 DEF StartVm, inputs, FirstStamp
  <2>2. v \in VMs
    BY <2>1 DEF TypeOK, VMs, NUMBEROFROLE
  <2>3. cmds[v] \in Seq(Command) /\ Len(cmds[v]) \in Nat
    BY <2>2, ListOf
  <2>4. StampsOfFirst(cmds[v], 0) = <<>>
    BY <2>3, StampsOfFirstSteps
  <2>5. result # -1
    BY <2>1 DEF WalkInv
  <2>6. m' = Len(StampsOfFirst(cmds[v], 0)) /\ 0 <= Len(cmds[v])
    BY <2>1, <2>3, <2>4
  <2> QED BY <2>1, <2>2, <2>5, <2>6 DEF WalkInv
<1>3. CASE SkipCommand
  <2>1. /\ pc = "command" /\ i < Len(cmds[v]) /\ Cur.cmd \in {"PRINT", "UNKNOWN"}
        /\ i' = i + 1 /\ UNCHANGED <<cmds, pc, v, cmd, m, result>>
    BY <1>3 DEF SkipCommand, InLoop, More, inputs, IndexAfterSkip
  <2>2. v \in VMs /\ (cmd = i \/ cmd < i)
    BY <2>1 DEF WalkInv
  <2>3. i' <= Len(cmds[v]) /\ cmd < i'
    <3>1. Len(cmds[v]) \in Nat
      BY <2>2, ListOf
    <3> QED BY <2>1, <2>2, <3>1 DEF TypeOK
  <2>4. Cur' = Cur
    BY <2>1 DEF Cur
  <2> QED BY <2>1, <2>2, <2>3, <2>4 DEF WalkInv
<1>4. CASE EndVm
  BY <1>4 DEF EndVm, WalkInv
<1>5. CASE OpenFile
  BY <1>5 DEF OpenFile, WalkInv
<1>6. CASE IOFails
  BY <1>6 DEF IOFails, WalkInv, Finish, Failure
<1>7. CASE Return
  BY <1>7 DEF Return, WalkInv, Finish
<1>8. CASE Terminated
  BY <1>8 DEF Terminated, vars, inputs, WalkInv, Cur
<1> QED BY <1>1, <1>2, <1>3, <1>4, <1>5, <1>6, <1>7, <1>8 DEF Next, Step

LEMMA FileStep ==
  ASSUME TypeOK, WalkInv, FileInv, OrderKept, Next
  PROVE  FileInv' /\ OrderKept'
<1>0. Len(file) \in Nat /\ \A k \in 1..Len(file) : file[k] \in Record
  BY DEF TypeOK
<1>1. CASE SaveUntimed \/ SaveMeasure \/ SaveAccess
  <2>1. PICK n \in 0..2 : Wrote(n)
    BY <1>1, Written
  <2>2. UNCHANGED <<pc, v>> /\ i' = i + 1 /\ pc = "command"
    BY <2>1 DEF Wrote, WriteRecord
  <2>3. /\ Len(file') = Len(file) + 1
        /\ \A k \in 1..Len(file) : file'[k] = file[k]
        /\ file'[Len(file) + 1].vm_id = v /\ file'[Len(file) + 1].id = i
    BY <2>1, OneMore DEF NewRecord
  <2>4. ASSUME NEW k \in 1..Len(file)
        PROVE  file[k].vm_id < v \/ (file[k].vm_id = v /\ file[k].id < i)
    BY <2>2 DEF FileInv
  <2>5. FileInv'
    <3> SUFFICES ASSUME NEW k \in 1..Len(file')
                 PROVE  file'[k].vm_id < v \/ (file'[k].vm_id = v /\ file'[k].id < i + 1)
      BY <2>2 DEF FileInv
    <3>1. CASE k = Len(file) + 1
      BY <2>3, <3>1 DEF TypeOK
    <3>2. CASE k \in 1..Len(file)
      <4>1. file[k].id \in Nat /\ file'[k] = file[k]
        BY <1>0, <2>3, <3>2 DEF Record
      <4> QED BY <2>4, <3>2, <4>1 DEF TypeOK
    <3> QED BY <1>0, <2>3, <3>1, <3>2
  <2>6. OrderKept'
    <3> SUFFICES ASSUME NEW j \in 1..Len(file'), NEW k \in 1..Len(file'), j < k
                 PROVE  \/ file'[j].vm_id < file'[k].vm_id
                        \/ file'[j].vm_id = file'[k].vm_id /\ file'[j].id < file'[k].id
      BY DEF OrderKept
    <3>1. j \in 1..Len(file)
      BY <1>0, <2>3
    <3>2. CASE k = Len(file) + 1
      BY <2>3, <2>4, <3>1, <3>2
    <3>3. CASE k \in 1..Len(file)
      BY <2>3, <3>1, <3>3 DEF OrderKept
    <3> QED BY <1>0, <2>3, <3>2, <3>3
  <2> QED BY <2>5, <2>6
<1>2. CASE Next /\ ~(SaveUntimed \/ SaveMeasure \/ SaveAccess)
  <2>1. file' = file
    BY <1>2 DEF Next, Step, OpenFile, IOFails, StartVm, SkipCommand, EndVm, Return, Terminated, vars
  <2>2. OrderKept'
    BY <2>1 DEF OrderKept
  <2>3. FileInv'
    <3>1. CASE OpenFile
      <4>1. Len(file) = 0 /\ pc' = "vm"
        BY <3>1 DEF OpenFile, FileInv
      <4> QED BY <2>1, <4>1 DEF FileInv
    <3>2. CASE IOFails \/ Return
      BY <2>1, <3>2 DEF IOFails, Return, Finish, FileInv
    <3>3. CASE StartVm
      BY <2>1, <3>3 DEF StartVm, FileInv
    <3>4. CASE SkipCommand
      <4>1. pc = "command" /\ pc' = "command" /\ v' = v /\ i' = i + 1
        BY <3>4 DEF SkipCommand, InLoop, IndexAfterSkip
      <4>2. ASSUME NEW k \in 1..Len(file)
            PROVE  file[k].vm_id < v \/ (file[k].vm_id = v /\ file[k].id < i + 1)
        <5>1. file[k].id \in Nat
          BY <1>0 DEF Record
        <5>2. file[k].vm_id < v \/ (file[k].vm_id = v /\ file[k].id < i)
          BY <4>1 DEF FileInv
        <5> QED BY <5>1, <5>2 DEF TypeOK
      <4> QED BY <2>1, <4>1, <4>2 DEF FileInv
    <3>5. CASE EndVm
      <4>1. pc = "command" /\ pc' = "vm" /\ v' = v + 1
        BY <3>5 DEF EndVm, NextVm
      <4>2. ASSUME NEW k \in 1..Len(file) PROVE file[k].vm_id < v + 1
        <5>1. file[k].vm_id \in 0..2
          BY <1>0 DEF Record, VMs, NUMBEROFROLE
        <5>2. file[k].vm_id < v \/ file[k].vm_id = v
          BY <4>1 DEF FileInv
        <5> QED BY <5>1, <5>2 DEF TypeOK, NUMBEROFROLE
      <4> QED BY <2>1, <4>1, <4>2 DEF FileInv
    <3>6. CASE Terminated
      BY <3>6 DEF Terminated, vars, FileInv
    <3> QED BY <1>2, <3>1, <3>2, <3>3, <3>4, <3>5, <3>6 DEF Next, Step
  <2> QED BY <2>2, <2>3
<1> QED BY <1>1, <1>2

(* A record that is in the file stays. *)
LEMMA RecordStays ==
  ASSUME TypeOK, WalkInv, Next, NEW r, NEW k, HasRecord(r, k)
  PROVE  HasRecord(r, k)'
<1>1. CASE SaveUntimed \/ SaveMeasure \/ SaveAccess
  <2>1. PICK n \in 0..2 : Wrote(n)
    BY <1>1, Written
  <2>2. /\ Len(file) \in Nat /\ Len(file') = Len(file) + 1
        /\ \A j \in 1..Len(file) : file'[j] = file[j]
    BY <2>1, OneMore
  <2> QED BY <2>2 DEF HasRecord
<1>2. CASE Next /\ ~(SaveUntimed \/ SaveMeasure \/ SaveAccess)
  <2>1. file' = file
    BY <1>2 DEF Next, Step, OpenFile, IOFails, StartVm, SkipCommand, EndVm, Return, Terminated, vars
  <2> QED BY <2>1 DEF HasRecord
<1> QED BY <1>1, <1>2

(* At the end of the list of a VM, the walk has met a command that leaves  *)
(* no record and stopped there, or has recorded all of the commands.       *)
LEMMA KeptAtEnd ==
  ASSUME TypeOK, WalkInv, KeptInv, pc = "command", ~More
  PROVE  Kept(v)
<1>1. v \in VMs /\ i <= Len(cmds[v]) /\ (cmd = i \/ (cmd < i /\ Cur.cmd \in {"PRINT", "UNKNOWN"}))
  BY DEF WalkInv
<1>2. Len(cmds[v]) \in Nat /\ i = Len(cmds[v])
  BY <1>1, ListOf DEF More, TypeOK
<1>3. SUFFICES ASSUME NEW k \in Recorded(v), \A j \in 1..(k - 1) : j \in Recorded(v)
               PROVE  HasRecord(v, k)
  BY DEF Kept
<1>4. k \in 1..Len(cmds[v])
  BY DEF Recorded
<1>5. k <= cmd
  <2> SUFFICES ASSUME cmd < k PROVE FALSE
    BY <1>4, <1>2 DEF TypeOK
  <2>1. cmd < i /\ Cur.cmd \in {"PRINT", "UNKNOWN"}
    BY <1>1, <1>2, <1>4 DEF TypeOK
  <2>2. cmd + 1 \in Recorded(v)
    <3>1. CASE k = cmd + 1
      BY <3>1, <1>3
    <3>2. CASE k # cmd + 1
      <4>1. cmd + 1 \in 1..(k - 1)
        BY <1>2, <1>4, <3>2 DEF TypeOK
      <4> QED BY <1>3, <4>1
    <3> QED BY <3>1, <3>2
  <2> QED BY <2>1, <2>2 DEF Recorded, Cur
<1>6. k \in 1..cmd
  BY <1>2, <1>4, <1>5 DEF TypeOK
<1> QED BY <1>6 DEF KeptInv

LEMMA KeptStep ==
  ASSUME TypeOK, WalkInv, KeptInv, Next
  PROVE  KeptInv'
<1>1. cmds' = cmds
  BY DEF Next, Step, OpenFile, IOFails, StartVm, SaveUntimed, SaveMeasure, SaveAccess,
         WriteRecord, SkipCommand, EndVm, Return, Terminated, vars, inputs
<1>2. ASSUME NEW r \in VMs, Kept(r) PROVE Kept(r)'
  <2>1. Recorded(r)' = Recorded(r)
    BY <1>1 DEF Recorded
  <2>2. \A k : HasRecord(r, k) => HasRecord(r, k)'
    BY RecordStays
  <2> QED BY <1>2, <2>1, <2>2 DEF Kept
<1>3. CASE SaveUntimed \/ SaveMeasure \/ SaveAccess
  <2>1. PICK n \in 0..2 : Wrote(n)
    BY <1>3, Written
  <2>2. UNCHANGED <<pc, v>> /\ pc = "command" /\ cmd' = cmd + 1 /\ cmd = i
    BY <2>1 DEF Wrote, WriteRecord
  <2>3. ASSUME NEW k \in 1..(cmd + 1) PROVE HasRecord(v, k)'
    <3>1. CASE k \in 1..cmd
      <4>1. PICK r : r = v /\ HasRecord(r, k)
        BY <2>2, <3>1 DEF KeptInv
      <4>2. HasRecord(r, k)'
        BY <4>1, RecordStays
      <4> QED BY <2>2, <4>1, <4>2 DEF HasRecord
    <3>2. CASE k = cmd + 1
      <4>1. /\ Len(file) + 1 \in 1..Len(file')
            /\ file'[Len(file) + 1].vm_id = v /\ file'[Len(file) + 1].id = k - 1
        BY <2>1, <2>2, <3>2, OneMore DEF NewRecord, TypeOK
      <4> QED BY <2>2, <4>1 DEF HasRecord
    <3> QED BY <3>1, <3>2 DEF TypeOK
  <2>4. \A r \in VMs : r < v => Kept(r)'
    BY <1>2 DEF KeptInv
  <2> QED BY <2>2, <2>3, <2>4 DEF KeptInv, HasRecord
<1>4. CASE StartVm
  <2>1. v' = v /\ cmd' = 0
    BY <1>4 DEF StartVm
  <2>2. \A r \in VMs : r < v => Kept(r)'
    BY <1>2 DEF KeptInv
  <2> QED BY <2>1, <2>2 DEF KeptInv
<1>5. CASE EndVm
  <2>1. pc = "command" /\ ~More /\ pc' = "vm" /\ v' = v + 1
    BY <1>5 DEF EndVm, NextVm
  <2>2. Kept(v)
    BY <2>1, KeptAtEnd
  <2>3. ASSUME NEW r \in VMs, r < v + 1 PROVE Kept(r)
    <3>1. r < v \/ r = v
      BY <2>3 DEF TypeOK, VMs, NUMBEROFROLE
    <3> QED BY <2>2, <3>1 DEF KeptInv
  <2> QED BY <1>2, <2>1, <2>3 DEF KeptInv
<1>6. CASE SkipCommand
  <2>1. UNCHANGED <<pc, v, cmd, file>>
    BY <1>6 DEF SkipCommand
  <2>2. \A r \in VMs : r < v => Kept(r)'
    BY <1>2 DEF KeptInv
  <2>3. pc = "command" => \A k \in 1..cmd : HasRecord(v, k)
    BY DEF KeptInv
  <2> QED BY <2>1, <2>2, <2>3 DEF KeptInv, HasRecord
<1>7. CASE OpenFile \/ IOFails \/ Return \/ Terminated
  <2>1. UNCHANGED <<v, cmd, file>> /\ (pc' = "command" => pc = "command")
    BY <1>7 DEF OpenFile, IOFails, Return, Terminated, vars, Finish
  <2>2. \A r \in VMs : r < v => Kept(r)'
    BY <1>2 DEF KeptInv
  <2>3. pc = "command" => \A k \in 1..cmd : HasRecord(v, k)
    BY DEF KeptInv
  <2> QED BY <2>1, <2>2, <2>3 DEF KeptInv, HasRecord
<1> QED BY <1>3, <1>4, <1>5, <1>6, <1>7 DEF Next, Step

(* When the accesses are not repeated, _m stands behind the stamps of the  *)
(* commands before _cmd, and a record takes the stamps of its own command. *)
LEMMA TrueStep ==
  ASSUME TypeOK, WalkInv, RepeatOnce, RecordsAreTrue, Next
  PROVE  RecordsAreTrue'
<1> DEFINE TrueOf(rec) == /\ rec.cmd = cmds[rec.vm_id][rec.id + 1].cmd
                          /\ \A n \in 1..Len(rec.ts) : rec.ts[n] = Took(rec.vm_id, rec.id + 1, n)
<1>1. cmds' = cmds /\ measures' = measures
  BY DEF Next, Step, OpenFile, IOFails, StartVm, SaveUntimed, SaveMeasure, SaveAccess,
         WriteRecord, SkipCommand, EndVm, Return, Terminated, vars, inputs
<1>2. \A r, k, n : Took(r, k, n)' = Took(r, k, n)
  BY <1>1 DEF Took
<1>3. \A k \in 1..Len(file) : TrueOf(file[k])
  BY DEF RecordsAreTrue
<1>4. CASE SaveUntimed \/ SaveMeasure \/ SaveAccess
  <2>1. PICK n \in 0..2 : Wrote(n)
    BY <1>4, Written
  <2>2. /\ Len(file) \in Nat /\ Len(file') = Len(file) + 1
        /\ \A k \in 1..Len(file) : file'[k] = file[k]
        /\ file'[Len(file) + 1] = NewRecord(n)
    BY <2>1, OneMore
  <2>3. cmd = i /\ pc = "command" /\ n = Width(Cur) /\ Cur = cmds[v][i+1] /\ i \in Nat
    BY <2>1 DEF Wrote, Cur, TypeOK
  <2>4. m = Len(StampsOfFirst(cmds[v], i)) /\ m \in Nat
    BY <2>3 DEF WalkInv, TypeOK
  <2>5. TrueOf(NewRecord(n))
    <3> DEFINE rec == NewRecord(n)
    <3>1. rec.id = i /\ rec.cmd = Cur.cmd /\ rec.vm_id = v /\ rec.ts = [k \in 1..n |-> StampAt(m + k)]
      BY DEF NewRecord
    <3>2. Len(rec.ts) = n
      BY <3>1
    <3>3. ASSUME NEW k \in 1..n PROVE Took(v, i + 1, k) = StampAt(m + k)
      <4>1. (i + 1) - 1 = i /\ k <= Width(cmds[v][i+1])
        BY <2>3
      <4> QED BY <2>4, <4>1 DEF Took, StampAt
    <3> HIDE DEF rec
    <3>4. TrueOf(rec)
      <4>1. \A k \in 1..n : rec.ts[k] = StampAt(m + k)
        BY <3>1
      <4> QED BY <2>3, <3>1, <3>2, <3>3, <4>1
    <3> HIDE DEF TrueOf
    <3> QED BY <3>4 DEF rec
  <2>6. \A k \in 1..Len(file') : TrueOf(file'[k])
    <3> HIDE DEF TrueOf
    <3> QED BY <1>3, <2>2, <2>5
  <2> QED BY <1>1, <1>2, <2>6 DEF RecordsAreTrue
<1>5. CASE Next /\ ~(SaveUntimed \/ SaveMeasure \/ SaveAccess)
  <2>1. file' = file
    BY <1>5 DEF Next, Step, OpenFile, IOFails, StartVm, SkipCommand, EndVm, Return, Terminated, vars
  <2> QED BY <1>1, <1>2, <1>3, <2>1 DEF RecordsAreTrue
<1> QED BY <1>4, <1>5

--------------------------------------------------------------------------------
(* The theorems.                                                           *)

(* save_measures keeps its inductive invariant. *)
THEOREM Inductive == Spec => []IInv
<1>1. Init => IInv
  BY InitInv
<1>2. IInv /\ [Next]_vars => IInv'
  <2> SUFFICES ASSUME IInv, [Next]_vars PROVE IInv'
    OBVIOUS
  <2> USE DEF IInv
  <2>1. CASE Next
    <3>1. TypeOK' /\ WalkInv' /\ FileInv' /\ OrderKept' /\ KeptInv'
      BY <2>1, TypeStep, WalkStep, FileStep, KeptStep
    <3>2. RepeatOnce => RecordsAreTrue'
      BY <2>1, TrueStep
    <3> QED BY <3>1, <3>2 DEF RepeatOnce
  <2>2. CASE UNCHANGED vars
    BY <2>2 DEF vars, inputs, TypeOK, WalkInv, FileInv, KeptInv, Kept, Recorded,
                HasRecord, OrderKept, RecordsAreTrue, Took, Cur, RepeatOnce
  <2> QED BY <2>1, <2>2
<1> QED BY <1>1, <1>2, PTL DEF Spec

(* The variables of save_measures keep their types: a record names one of  *)
(* the three VMs and a command kind.                                       *)
THEOREM TypeCorrect == Spec => []TypeOK
<1>1. IInv => TypeOK
  BY DEF IInv
<1> QED BY <1>1, Inductive, PTL

(* No command is recorded twice, and the records keep the order of the VMs *)
(* and, within a VM, of its commands.                                      *)
THEOREM RecordsInOrder == Spec => []OrderKept
<1>1. IInv => OrderKept
  BY DEF IInv
<1> QED BY <1>1, Inductive, PTL

(* When save_measures returns 0, each command of each VM has its record,   *)
(* up to the first one of its list that leaves none.                       *)
THEOREM NoRecordDropped == Spec => []NoneDroppedBefore
<1>1. IInv => NoneDroppedBefore
  <2> SUFFICES ASSUME IInv, pc = "done", result = 0 PROVE \A r \in VMs : Kept(r)
    BY DEF NoneDroppedBefore
  <2>1. v = NUMBEROFROLE /\ \A r \in VMs : r < v => Kept(r)
    BY DEF IInv, WalkInv, KeptInv
  <2> QED BY <2>1 DEF VMs, NUMBEROFROLE
<1> QED BY <1>1, Inductive, PTL

(* A record has the kind and the stamps of the command it names, if no     *)
(* command is repeated: save_measures reads one stamp of a MEASURE and two *)
(* of an access, whatever its repeat.                                      *)
THEOREM TrueRecords ==
  ASSUME RepeatOnce
  PROVE  Spec => []RecordsAreTrue
<1>1. IInv => RecordsAreTrue
  BY DEF IInv
<1> QED BY <1>1, Inductive, PTL
================================================================================
