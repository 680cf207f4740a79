---------------------------- MODULE VmThreadProofs -----------------------------
(***************************************************************************)
(* Proofs about VmThread, for every set of exit-terminated command lists,  *)
(* every role and every number of interrupts.                              *)
(***************************************************************************)
EXTENDS VmThread, StampFacts, TLAPS

(* Once a command was asked for, Cur is that command of the list. *)
LEMMA CurIsCommand ==
  ASSUME TypeOK, next > 0
  PROVE  Cur \in Command /\ (Cur.cmd = "EXIT" <=> next = Len(cmds))
  BY ListFacts DEF TypeOK, Cur

(* The guest does not ask again after EXIT, so that a command is left.     *)
LEMMA InBounds == IInv => CommandInBounds
  <1> SUFFICES ASSUME IInv, Exited("IO_IN") PROVE next < Len(cmds)
    BY DEF CommandInBounds
  <1>1. Idle
    BY DEF IInv, ControlInv, ServiceInv, Exited
  <1> QED BY <1>1, CurIsCommand, ListFacts DEF IInv, TypeOK, Idle

(* A step that writes no stamp, answers no request and keeps the locals of *)
(* the guest keeps what is said of the current command.                    *)
LEMMA Frame ==
  ASSUME UNCHANGED <<cmds, next, nb_timestamp, measures, mmio, al, i, loaded>>
  PROVE  /\ Delivered' <=> Delivered
         /\ InLoop' <=> InLoop
         /\ InAccess' <=> InAccess
         /\ Idle' <=> Idle
         /\ Leaving' <=> Leaving
         /\ Cur' = Cur
  BY DEF Delivered, InLoop, InAccess, Idle, Leaving, Settled, Owed, Cur, ParametersOfCur, Stored

(***************************************************************************)
(* IInv holds initially and every step of the thread, of the guest and of  *)
(* KVM keeps it: at every place in wait_action the stamps that are charged *)
(* and not yet written are those that the rest of the current command will *)
(* take, with the parameters that are in the MMIO page.                    *)
(***************************************************************************)
THEOREM Inductive == Spec => []IInv
<1>1. Init => IInv
  <2> SUFFICES ASSUME Init PROVE IInv
    OBVIOUS
  <2>1. TypeOK
    <3>1. role \in Role /\ cmds \in CmdLists /\ next \in 0..Len(cmds) /\ interrupts \in 0..MaxInterrupts
      BY ListFacts, MaxInterruptsAssumption DEF Init
    <3>2. mmio \in [addr : Target, value : Value \cup {NoValue}, repeat : Nat] /\ loaded \in Parameters
      BY DEF Init, Parameters, Target
    <3>3. measures \in Seq(Stamp)
      BY DEF Init
    <3> QED BY <3>1, <3>2, <3>3 DEF Init, TypeOK, ExitReason, Primitive
  <2>2. ControlInv
    BY DEF Init, ControlInv
  <2>3. ServiceInv
    <3>1. Len(measures) = 0 /\ nb_timestamp = 0 /\ next = 0 /\ gpc = "inb"
      BY DEF Init
    <3> QED BY <3>1 DEF ServiceInv, Idle, Settled, Owed
  <2> QED BY <2>1, <2>2, <2>3 DEF IInv
<1>2. IInv /\ [Next]_vars => IInv'
  <2> SUFFICES ASSUME IInv, [Next]_vars PROVE IInv'
    OBVIOUS
  <2>1. CASE GuestAsk
    <3>1. TypeOK'
      BY <2>1, ListFacts DEF GuestAsk, GuestAt, ExitGuest, vars, inputs, thread, memory, locals, IInv, TypeOK, ExitReason, KVM_EXIT_INTR, KVM_EXIT_INTERNAL_ERROR
    <3>2. ControlInv'
      BY <2>1 DEF GuestAsk, GuestAt, ExitGuest, vars, inputs, thread, memory, locals, IInv, TypeOK, ExitReason, KVM_EXIT_INTR, KVM_EXIT_INTERNAL_ERROR, ControlInv
    <3>3. ServiceInv'
      BY <2>1, Frame DEF GuestAsk, GuestAt, ExitGuest, vars, inputs, thread, memory, locals, IInv, TypeOK, ControlInv, ServiceInv
    <3> QED BY <3>1, <3>2, <3>3 DEF IInv
  <2>2. CASE GuestSwitch
    <3>1. TypeOK'
      BY <2>2, ListFacts DEF GuestSwitch, LoopStart, Branch, GuestAt, Primitive, vars, inputs, thread, memory, locals, IInv, TypeOK, ExitReason, KVM_EXIT_INTR, KVM_EXIT_INTERNAL_ERROR
    <3>2. ControlInv'
      BY <2>2 DEF GuestSwitch, LoopStart, Branch, GuestAt, Primitive, vars, inputs, thread, memory, locals, IInv, TypeOK, ExitReason, KVM_EXIT_INTR, KVM_EXIT_INTERNAL_ERROR, ControlInv
    <3>3. ServiceInv'
      <4>1. Delivered /\ al = Cur.cmd /\ Cur \in Command
        BY <2>2, CurIsCommand DEF GuestSwitch, LoopStart, Branch, GuestAt, IInv, ServiceInv, Delivered
      <4>2. Cur' = Cur /\ Owed' = Owed /\ (ParametersOfCur' <=> ParametersOfCur) /\ next' = next /\ al' = al /\ i' = 0
        BY <2>2 DEF GuestSwitch, LoopStart, Branch, Cur, Owed, ParametersOfCur, vars, inputs, thread, memory
      <4>3. CASE al \in {"READ", "WRITE", "MEASURE"}
        <5>1. InLoop'
          BY <4>1, <4>2, <4>3, WidthOf DEF InLoop, Delivered, Command
        <5>2. gpc' = "loop"
          BY <2>2, <4>3 DEF GuestSwitch, LoopStart, Branch
        <5> QED BY <5>1, <5>2 DEF ServiceInv
      <4>4. CASE al \in {"PRINT", "WAIT", "UNKNOWN"}
        <5>1. Idle'
          BY <4>1, <4>2, <4>4, WidthOf DEF Idle, Settled, Delivered
        <5>2. gpc' \in {"inb", "puts"}
          BY <2>2, <4>4 DEF GuestSwitch, LoopStart, Branch
        <5> QED BY <5>1, <5>2 DEF ServiceInv
      <4>5. CASE al = "EXIT"
        <5>1. Leaving'
          BY <4>1, <4>2, <4>5, WidthOf DEF Leaving, Settled, Delivered
        <5>2. gpc' = "hlt"
          BY <2>2, <4>5 DEF GuestSwitch, LoopStart, Branch
        <5> QED BY <5>1, <5>2 DEF ServiceInv
      <4> QED BY <4>3, <4>4, <4>5 DEF IInv, TypeOK, Primitive
    <3> QED BY <3>1, <3>2, <3>3 DEF IInv
  <2>3. CASE GuestLoopEnd
    <3>1. TypeOK'
      BY <2>3, ListFacts DEF GuestLoopEnd, LoopAgain, GuestAt, vars, inputs, thread, memory, locals, IInv, TypeOK, ExitReason, KVM_EXIT_INTR, KVM_EXIT_INTERNAL_ERROR
    <3>2. ControlInv'
      BY <2>3 DEF GuestLoopEnd, LoopAgain, GuestAt, vars, inputs, thread, memory, locals, IInv, TypeOK, ExitReason, KVM_EXIT_INTR, KVM_EXIT_INTERNAL_ERROR, ControlInv
    <3>3. ServiceInv'
      <4>1. InLoop /\ Cur \in Command
        BY <2>3, CurIsCommand DEF GuestLoopEnd, LoopAgain, GuestAt, IInv, ServiceInv, InLoop
      <4>2. Idle
        BY <2>3, <4>1 DEF GuestLoopEnd, LoopAgain, InLoop, ParametersOfCur, Idle, Settled, IInv, TypeOK, Command
      <4> QED BY <2>3, <4>2, Frame DEF GuestLoopEnd, LoopAgain, vars, inputs, thread, memory, locals, ServiceInv
    <3> QED BY <3>1, <3>2, <3>3 DEF IInv
  <2>4. CASE GuestMeasure
    <3>1. TypeOK'
      BY <2>4, ListFacts DEF GuestMeasure, LoopAgain, GuestAt, WriteStamp, Stamp, Target, Primitive, vars, inputs, thread, memory, locals, IInv, TypeOK, ExitReason, KVM_EXIT_INTR, KVM_EXIT_INTERNAL_ERROR
    <3>2. ControlInv'
      BY <2>4 DEF GuestMeasure, LoopAgain, GuestAt, WriteStamp, Stamp, Target, Primitive, vars, inputs, thread, memory, locals, IInv, TypeOK, ExitReason, KVM_EXIT_INTR, KVM_EXIT_INTERNAL_ERROR, ControlInv
    <3>3. ServiceInv'
      <4>1. InLoop /\ Cur \in Command
        BY <2>4, CurIsCommand DEF GuestMeasure, LoopAgain, GuestAt, IInv, ServiceInv, InLoop
      <4>2. Cur' = Cur /\ Owed' = Owed - 1 /\ (ParametersOfCur' <=> ParametersOfCur) /\ next' = next /\ al' = al
        <5>1. Len(measures') = Len(measures) + 1
          BY <2>4 DEF GuestMeasure, LoopAgain, WriteStamp, IInv, TypeOK
        <5> QED BY <2>4, <5>1 DEF GuestMeasure, LoopAgain, Cur, Owed, ParametersOfCur, vars, inputs, thread, IInv, TypeOK
      <4>3. InLoop'
        BY <2>4, <4>1, <4>2 DEF GuestMeasure, LoopAgain, InLoop, ParametersOfCur, IInv, TypeOK, Command
      <4>4. gpc' = "loop"
        BY <2>4 DEF GuestMeasure, LoopAgain, GuestAt
      <4> QED BY <4>3, <4>4 DEF ServiceInv
    <3> QED BY <3>1, <3>2, <3>3 DEF IInv
  <2>5. CASE GuestStampBefore
    <3>1. TypeOK'
      BY <2>5, ListFacts DEF GuestStampBefore, ParametersRead, LoopAgain, GuestAt, WriteStamp, Stamp, Stored, Parameters, vars, inputs, thread, memory, locals, IInv, TypeOK, ExitReason, KVM_EXIT_INTR, KVM_EXIT_INTERNAL_ERROR
    <3>2. ControlInv'
      BY <2>5 DEF GuestStampBefore, ParametersRead, LoopAgain, GuestAt, WriteStamp, Stamp, Stored, Parameters, vars, inputs, thread, memory, locals, IInv, TypeOK, ExitReason, KVM_EXIT_INTR, KVM_EXIT_INTERNAL_ERROR, ControlInv
    <3>3. ServiceInv'
      <4>1. InLoop /\ Cur \in Command
        BY <2>5, CurIsCommand DEF GuestStampBefore, ParametersRead, LoopAgain, GuestAt, IInv, ServiceInv, InLoop
      <4>2. Cur' = Cur /\ Owed' = Owed - 1 /\ (ParametersOfCur' <=> ParametersOfCur) /\ next' = next /\ al' = al
        <5>1. Len(measures') = Len(measures) + 1
          BY <2>5 DEF GuestStampBefore, ParametersRead, LoopAgain, WriteStamp, IInv, TypeOK
        <5> QED BY <2>5, <5>1 DEF GuestStampBefore, ParametersRead, LoopAgain, Cur, Owed, ParametersOfCur, vars, inputs, thread, IInv, TypeOK
      <4>3. InAccess'
        BY <2>5, <4>1, <4>2 DEF GuestStampBefore, ParametersRead, LoopAgain, InLoop, InAccess, ParametersOfCur, Stored, IInv, TypeOK, Command
      <4>4. gpc' = "access"
        BY <2>5 DEF GuestStampBefore, ParametersRead, LoopAgain
      <4> QED BY <4>3, <4>4 DEF ServiceInv
    <3> QED BY <3>1, <3>2, <3>3 DEF IInv
  <2>6. CASE GuestAccess
    <3>1. TypeOK'
      BY <2>6, ListFacts DEF GuestAccess, GuestAt, vars, inputs, thread, memory, locals, IInv, TypeOK, ExitReason, KVM_EXIT_INTR, KVM_EXIT_INTERNAL_ERROR
    <3>2. ControlInv'
      BY <2>6 DEF GuestAccess, GuestAt, vars, inputs, thread, memory, locals, IInv, TypeOK, ExitReason, KVM_EXIT_INTR, KVM_EXIT_INTERNAL_ERROR, ControlInv
    <3>3. ServiceInv'
      <4>1. InAccess /\ Mapped(Cur.addr)
        BY <2>6 DEF GuestAccess, GuestAt, Backed, IInv, ServiceInv, InAccess
      <4> QED BY <2>6, <4>1, Frame DEF GuestAccess, ExitGuest, vars, inputs, thread, memory, locals, ServiceInv
    <3> QED BY <3>1, <3>2, <3>3 DEF IInv
  <2>7. CASE GuestAccessUnbacked
    <3>1. TypeOK'
      BY <2>7, ListFacts DEF GuestAccessUnbacked, GuestAt, ExitGuest, vars, inputs, thread, memory, locals, IInv, TypeOK, ExitReason, KVM_EXIT_INTR, KVM_EXIT_INTERNAL_ERROR
    <3>2. ControlInv'
      BY <2>7 DEF GuestAccessUnbacked, GuestAt, ExitGuest, vars, inputs, thread, memory, locals, IInv, TypeOK, ExitReason, KVM_EXIT_INTR, KVM_EXIT_INTERNAL_ERROR, ControlInv
    <3>3. ServiceInv'
      <4>1. InAccess /\ Mapped(Cur.addr)
        BY <2>7 DEF GuestAccessUnbacked, GuestAt, Backed, IInv, ServiceInv, InAccess
      <4> QED BY <2>7, <4>1, Frame DEF GuestAccessUnbacked, ExitGuest, vars, inputs, thread, memory, locals, ServiceInv
    <3> QED BY <3>1, <3>2, <3>3 DEF IInv
  <2>8. CASE GuestFault
    <3>1. TypeOK'
      BY <2>8, ListFacts DEF GuestFault, GuestAt, ExitGuest, vars, inputs, thread, memory, locals, IInv, TypeOK, ExitReason, KVM_EXIT_INTR, KVM_EXIT_INTERNAL_ERROR
    <3>2. ControlInv'
      BY <2>8 DEF GuestFault, GuestAt, ExitGuest, vars, inputs, thread, memory, locals, IInv, TypeOK, ExitReason, KVM_EXIT_INTR, KVM_EXIT_INTERNAL_ERROR, ControlInv
    <3>3. ServiceInv'
      <4>1. InAccess /\ ~Mapped(Cur.addr)
        BY <2>8 DEF GuestFault, GuestAt, Backed, IInv, ServiceInv, InAccess
      <4> QED BY <2>8, <4>1, Frame DEF GuestFault, ExitGuest, vars, inputs, thread, memory, locals, ServiceInv
    <3> QED BY <3>1, <3>2, <3>3 DEF IInv
  <2>9. CASE GuestStampAfter
    <3>1. TypeOK'
      BY <2>9, ListFacts DEF GuestStampAfter, GuestAt, WriteStamp, Stamp, Parameters, vars, inputs, thread, memory, locals, IInv, TypeOK, ExitReason, KVM_EXIT_INTR, KVM_EXIT_INTERNAL_ERROR
    <3>2. ControlInv'
      BY <2>9 DEF GuestStampAfter, GuestAt, WriteStamp, Stamp, Parameters, vars, inputs, thread, memory, locals, IInv, TypeOK, ExitReason, KVM_EXIT_INTR, KVM_EXIT_INTERNAL_ERROR, ControlInv
    <3>3. ServiceInv'
      <4>1. InAccess /\ Cur \in Command
        BY <2>9, CurIsCommand DEF GuestStampAfter, GuestAt, IInv, ServiceInv, InAccess
      <4>2. Cur' = Cur /\ Owed' = Owed - 1 /\ (ParametersOfCur' <=> ParametersOfCur) /\ next' = next /\ al' = al
        <5>1. Len(measures') = Len(measures) + 1
          BY <2>9 DEF GuestStampAfter, WriteStamp, IInv, TypeOK
        <5> QED BY <2>9, <5>1 DEF GuestStampAfter, Cur, Owed, ParametersOfCur, vars, inputs, thread, IInv, TypeOK
      <4>3. InLoop'
        BY <2>9, <4>1, <4>2 DEF GuestStampAfter, InLoop, InAccess, IInv, TypeOK, Command
      <4>4. gpc' = "loop"
        BY <2>9 DEF GuestStampAfter
      <4> QED BY <4>3, <4>4 DEF ServiceInv
    <3> QED BY <3>1, <3>2, <3>3 DEF IInv
  <2>10. CASE GuestPuts
    <3>1. TypeOK'
      BY <2>10, ListFacts DEF GuestPuts, GuestAt, ExitGuest, vars, inputs, thread, memory, locals, IInv, TypeOK, ExitReason, KVM_EXIT_INTR, KVM_EXIT_INTERNAL_ERROR
    <3>2. ControlInv'
      BY <2>10 DEF GuestPuts, GuestAt, ExitGuest, vars, inputs, thread, memory, locals, IInv, TypeOK, ExitReason, KVM_EXIT_INTR, KVM_EXIT_INTERNAL_ERROR, ControlInv
    <3>3. ServiceInv'
      BY <2>10, Frame DEF GuestPuts, GuestAt, ExitGuest, vars, inputs, thread, memory, locals, IInv, TypeOK, ControlInv, ServiceInv
    <3> QED BY <3>1, <3>2, <3>3 DEF IInv
  <2>11. CASE GuestHalt
    <3>1. TypeOK'
      BY <2>11, ListFacts DEF GuestHalt, GuestAt, ExitGuest, vars, inputs, thread, memory, locals, IInv, TypeOK, ExitReason, KVM_EXIT_INTR, KVM_EXIT_INTERNAL_ERROR
    <3>2. ControlInv'
      BY <2>11 DEF GuestHalt, GuestAt, ExitGuest, vars, inputs, thread, memory, locals, IInv, TypeOK, ExitReason, KVM_EXIT_INTR, KVM_EXIT_INTERNAL_ERROR, ControlInv
    <3>3. ServiceInv'
      BY <2>11, Frame DEF GuestHalt, GuestAt, ExitGuest, vars, inputs, thread, memory, locals, IInv, TypeOK, ControlInv, ServiceInv
    <3> QED BY <3>1, <3>2, <3>3 DEF IInv
  <2>12. CASE KvmRun
    <3>1. TypeOK'
      BY <2>12, ListFacts DEF KvmRun, vars, inputs, thread, memory, locals, IInv, TypeOK, ExitReason, KVM_EXIT_INTR, KVM_EXIT_INTERNAL_ERROR
    <3>2. ControlInv'
      BY <2>12 DEF KvmRun, vars, inputs, thread, memory, locals, IInv, TypeOK, ExitReason, KVM_EXIT_INTR, KVM_EXIT_INTERNAL_ERROR, ControlInv
    <3>3. ServiceInv'
      <4>1. CASE gpc = "in"
        <5>1. Delivered /\ data = Cur.cmd
          BY <2>12, <4>1 DEF KvmRun, IInv, ServiceInv
        <5>2. Delivered' /\ Cur' = Cur /\ al' = data /\ gpc' = "switch"
          BY <2>12, <4>1, <5>1 DEF KvmRun, inputs, thread, memory, Delivered, Cur, Owed, ParametersOfCur
        <5> QED BY <5>1, <5>2 DEF ServiceInv
      <4>2. CASE gpc # "in"
        BY <2>12, <4>2, Frame DEF KvmRun, inputs, thread, memory, IInv, TypeOK, ControlInv, ServiceInv
      <4> QED BY <4>1, <4>2
    <3> QED BY <3>1, <3>2, <3>3 DEF IInv
  <2>13. CASE HandleCommand
    <3>0. Idle /\ Asked \in Command /\ next + 1 \in 1..Len(cmds) /\ gpc = "in"
      <4>1. next < Len(cmds)
        BY <2>13, InBounds DEF HandleCommand, ParametersOf, Charge, CommandInBounds
      <4>2. Idle /\ gpc = "in"
        BY <2>13 DEF HandleCommand, ParametersOf, Charge, Exited, IInv, ControlInv, ServiceInv
      <4> QED BY <4>1, <4>2, ListFacts DEF Asked, IInv, TypeOK
    <3>1. TypeOK'
      BY <2>13, <3>0, ListFacts, WidthOf DEF HandleCommand, ParametersOf, Charge, Exited, Command, vars, inputs, thread, memory, locals, IInv, TypeOK, ExitReason, KVM_EXIT_INTR, KVM_EXIT_INTERNAL_ERROR
    <3>2. ControlInv'
      BY <2>13 DEF HandleCommand, ParametersOf, Charge, Exited, Command, vars, inputs, thread, memory, locals, IInv, TypeOK, ExitReason, KVM_EXIT_INTR, KVM_EXIT_INTERNAL_ERROR, ControlInv
    <3>3. ServiceInv'
      <4>1. Cur' = Asked /\ next' > 0
        BY <2>13, <3>0 DEF HandleCommand, ParametersOf, Charge, Cur, Asked, inputs, IInv, TypeOK
      <4>2. ParametersOfCur' /\ data' = Cur'.cmd
        BY <2>13, <4>1 DEF HandleCommand, ParametersOf, Charge, ParametersOfCur
      <4>3. Owed' = Width(Asked)
        BY <2>13, <3>0, WidthOf DEF HandleCommand, ParametersOf, Charge, Owed, Idle, Settled, IInv, TypeOK
      <4>4. gpc' = "in" /\ pc' = "kvm_run"
        BY <2>13, <3>0 DEF HandleCommand, ParametersOf, Charge
      <4> QED BY <4>1, <4>2, <4>3, <4>4 DEF ServiceInv, Delivered
    <3> QED BY <3>1, <3>2, <3>3 DEF IInv
  <2>14. CASE HandlePrint
    <3>0. Idle /\ Asked \in Command /\ next + 1 \in 1..Len(cmds) /\ gpc = "in"
      <4>1. next < Len(cmds)
        BY <2>14, InBounds DEF HandlePrint, PrintMoves, CommandInBounds
      <4>2. Idle /\ gpc = "in"
        BY <2>14 DEF HandlePrint, PrintMoves, Exited, IInv, ControlInv, ServiceInv
      <4> QED BY <4>1, <4>2, ListFacts DEF Asked, IInv, TypeOK
    <3>1. TypeOK'
      BY <2>14, <3>0, ListFacts DEF HandlePrint, PrintMoves, Exited, Command, vars, inputs, thread, memory, locals, IInv, TypeOK, ExitReason, KVM_EXIT_INTR, KVM_EXIT_INTERNAL_ERROR, Primitive
    <3>2. ControlInv'
      BY <2>14 DEF HandlePrint, PrintMoves, Exited, Command, vars, inputs, thread, memory, locals, IInv, TypeOK, ExitReason, KVM_EXIT_INTR, KVM_EXIT_INTERNAL_ERROR, ControlInv
    <3>3. ServiceInv'
      <4>1. Cur' = Asked /\ next' > 0
        BY <2>14, <3>0 DEF HandlePrint, PrintMoves, Cur, Asked, inputs, IInv, TypeOK
      <4>2. Cur'.cmd = "PRINT" /\ data' = Cur'.cmd
        BY <2>14, <4>1 DEF HandlePrint, PrintMoves
      <4>3. Owed' = Width(Asked)
        BY <2>14, <3>0, WidthOf DEF HandlePrint, PrintMoves, Owed, Idle, Settled, memory, IInv, TypeOK
      <4>4. gpc' = "in" /\ pc' = "kvm_run"
        BY <2>14, <3>0 DEF HandlePrint, PrintMoves
      <4> QED BY <4>1, <4>2, <4>3, <4>4 DEF ServiceInv, Delivered
    <3> QED BY <3>1, <3>2, <3>3 DEF IInv
  <2>15. CASE HandleOutput
    <3>1. TypeOK'
      BY <2>15, ListFacts DEF HandleOutput, Exited, vars, inputs, thread, memory, locals, IInv, TypeOK, ExitReason, KVM_EXIT_INTR, KVM_EXIT_INTERNAL_ERROR
    <3>2. ControlInv'
      BY <2>15 DEF HandleOutput, Exited, vars, inputs, thread, memory, locals, IInv, TypeOK, ExitReason, KVM_EXIT_INTR, KVM_EXIT_INTERNAL_ERROR, ControlInv
    <3>3. ServiceInv'
      BY <2>15, Frame DEF HandleOutput, Exited, vars, inputs, thread, memory, locals, IInv, TypeOK, ControlInv, ServiceInv
    <3> QED BY <3>1, <3>2, <3>3 DEF IInv
  <2>16. CASE HandleStop
    <3>1. TypeOK'
      BY <2>16, ListFacts DEF HandleStop, Exited, vars, inputs, thread, memory, locals, IInv, TypeOK, ExitReason, KVM_EXIT_INTR, KVM_EXIT_INTERNAL_ERROR
    <3>2. ControlInv'
      BY <2>16 DEF HandleStop, Exited, vars, inputs, thread, memory, locals, IInv, TypeOK, ExitReason, KVM_EXIT_INTR, KVM_EXIT_INTERNAL_ERROR, ControlInv
    <3>3. ServiceInv'
      BY <2>16, Frame DEF HandleStop, Exited, vars, inputs, thread, memory, locals, IInv, TypeOK, ControlInv, ServiceInv
    <3> QED BY <3>1, <3>2, <3>3 DEF IInv
  <2>17. CASE HandleOther
    <3>1. TypeOK'
      BY <2>17, ListFacts DEF HandleOther, ReasonStatus, Exited, vars, inputs, thread, memory, locals, IInv, TypeOK, ExitReason, KVM_EXIT_INTR, KVM_EXIT_INTERNAL_ERROR
    <3>2. ControlInv'
      BY <2>17 DEF HandleOther, ReasonStatus, Exited, vars, inputs, thread, memory, locals, IInv, TypeOK, ExitReason, KVM_EXIT_INTR, KVM_EXIT_INTERNAL_ERROR, ControlInv
    <3>3. ServiceInv'
      BY <2>17, Frame DEF HandleOther, ReasonStatus, Exited, vars, inputs, thread, memory, locals, IInv, TypeOK, ControlInv, ServiceInv
    <3> QED BY <3>1, <3>2, <3>3 DEF IInv
  <2>18. CASE Check
    <3>1. TypeOK'
      BY <2>18, ListFacts DEF Check, CheckedStatus, vars, inputs, thread, memory, locals, IInv, TypeOK, ExitReason, KVM_EXIT_INTR, KVM_EXIT_INTERNAL_ERROR
    <3>2. ControlInv'
      BY <2>18 DEF Check, CheckedStatus, vars, inputs, thread, memory, locals, IInv, TypeOK, ExitReason, KVM_EXIT_INTR, KVM_EXIT_INTERNAL_ERROR, ControlInv
    <3>3. ServiceInv'
      BY <2>18, Frame DEF Check, CheckedStatus, vars, inputs, thread, memory, locals, IInv, TypeOK, ControlInv, ServiceInv
    <3> QED BY <3>1, <3>2, <3>3 DEF IInv
  <2>19. CASE Interrupt
    <3>1. TypeOK'
      BY <2>19, ListFacts, MaxInterruptsAssumption DEF Interrupt, vars, inputs, thread, memory, locals, IInv, TypeOK, ExitReason, KVM_EXIT_INTR, KVM_EXIT_INTERNAL_ERROR
    <3>2. ControlInv'
      BY <2>19 DEF Interrupt, vars, inputs, thread, memory, locals, IInv, TypeOK, ExitReason, KVM_EXIT_INTR, KVM_EXIT_INTERNAL_ERROR, ControlInv
    <3>3. ServiceInv'
      BY <2>19, Frame DEF Interrupt, vars, inputs, thread, memory, locals, IInv, TypeOK, ControlInv, ServiceInv
    <3> QED BY <3>1, <3>2, <3>3 DEF IInv
  <2>20. CASE UNCHANGED vars
    <3>1. TypeOK'
      BY <2>20, ListFacts DEF vars, inputs, thread, memory, locals, IInv, TypeOK, ExitReason, KVM_EXIT_INTR, KVM_EXIT_INTERNAL_ERROR
    <3>2. ControlInv'
      BY <2>20 DEF vars, inputs, thread, memory, locals, IInv, TypeOK, ExitReason, KVM_EXIT_INTR, KVM_EXIT_INTERNAL_ERROR, ControlInv
    <3>3. ServiceInv'
      BY <2>20, Frame DEF vars, inputs, thread, memory, locals, IInv, TypeOK, ControlInv, ServiceInv
    <3> QED BY <3>1, <3>2, <3>3 DEF IInv
  <2>21. CASE GuestStuck
    <3>1. TypeOK'
      BY <2>21, ListFacts DEF GuestStuck, GuestAt, ExitGuest, vars, inputs, thread, memory, locals, IInv, TypeOK, ExitReason, KVM_EXIT_INTR, KVM_EXIT_INTERNAL_ERROR
    <3>2. ControlInv'
      BY <2>21 DEF GuestStuck, GuestAt, ExitGuest, vars, inputs, thread, memory, locals, IInv, TypeOK, ExitReason, KVM_EXIT_INTR, KVM_EXIT_INTERNAL_ERROR, ControlInv
    <3>3. ServiceInv'
      BY <2>21, Frame DEF GuestStuck, GuestAt, ExitGuest, vars, inputs, thread, memory, locals, IInv, TypeOK, ControlInv, ServiceInv
    <3> QED BY <3>1, <3>2, <3>3 DEF IInv
  <2>22. CASE GuestBreaks
    <3>1. TypeOK'
      BY <2>22, ListFacts DEF GuestBreaks, vars, inputs, thread, memory, locals, IInv, TypeOK, ExitReason, KVM_EXIT_INTR, KVM_EXIT_INTERNAL_ERROR
    <3>2. ControlInv'
      BY <2>22 DEF GuestBreaks, vars, inputs, thread, memory, locals, IInv, TypeOK, ExitReason, KVM_EXIT_INTR, KVM_EXIT_INTERNAL_ERROR, ControlInv
    <3>3. ServiceInv'
      BY <2>22, Frame DEF GuestBreaks, vars, inputs, thread, memory, locals, IInv, TypeOK, ControlInv, ServiceInv
    <3> QED BY <3>1, <3>2, <3>3 DEF IInv
  <2> QED
    BY <2>1, <2>2, <2>3, <2>4, <2>5, <2>6, <2>7, <2>8, <2>9, <2>10, <2>11, <2>12, <2>13, <2>14, <2>15, <2>16, <2>17, <2>18, <2>19, <2>20, <2>21, <2>22 DEF Next, Guest, Vmm, Terminated
<1> QED BY <1>1, <1>2, PTL DEF Spec

(* Types hold in every reachable state: nothing of run_vm, handle_pmio or   *)
(* wait_action leaves its range, for any lists and any number of interrupts. *)
THEOREM TypeCorrect == Spec => []TypeOK
  BY Inductive, PTL DEF IInv

(* The pointer cmd of run_vm, which no code compares with nb_cmd, never     *)
(* passes the end of an exit-terminated list.                               *)
THEOREM CommandsStayInBounds == Spec => []CommandInBounds
  BY Inductive, InBounds, PTL

(* The parameters in the MMIO page stay those of the command being served.  *)
THEOREM ParametersStayStable == Spec => []ParametersStable
<1>1. IInv => ParametersStable
  BY DEF IInv, ServiceInv, InLoop, InAccess, ParametersOfCur, Cur, ParametersStable
<1> QED BY <1>1, Inductive, PTL

(* When the guest asks, nb_timestamp is the number of stamps it has taken.  *)
THEOREM StampsAreAccounted == Spec => []StampsAccounted
<1>1. IInv => StampsAccounted
  <2> SUFFICES ASSUME IInv, Exited("IO_IN") PROVE nb_timestamp = Len(measures)
    BY DEF StampsAccounted
  <2>1. Settled
    BY DEF IInv, ControlInv, ServiceInv, Idle, Exited
  <2> QED BY <2>1 DEF Settled, Owed, IInv, TypeOK
<1> QED BY <1>1, Inductive, PTL

(* A status of 0 is only reported for a list that was served to its end.    *)
THEOREM ExitStatusIsTruthful == Spec => []ExitStatusTruthful
<1>1. IInv => ExitStatusTruthful
  <2> SUFFICES ASSUME IInv, pc = "done"
               PROVE  /\ ret \in {-1, 0}
                      /\ ret = 0 => gpc = "halted" /\ next = Len(cmds) /\ nb_timestamp = Len(measures)
    BY DEF ExitStatusTruthful
  <2>1. ret \in {-1, 0} /\ (ret = 0 => gpc = "halted")
    BY DEF IInv, ControlInv
  <2>2. gpc = "halted" => next = Len(cmds) /\ Settled
    BY CurIsCommand DEF IInv, ServiceInv, Leaving
  <2> QED BY <2>1, <2>2 DEF Settled, Owed, IInv, TypeOK
<1> QED BY <1>1, Inductive, PTL

--------------------------------------------------------------------------------
(* Refinement: VmThread implements CommandStream.                          *)

(* CommandStream and VmThread speak of the same commands and stamps. *)
LEMMA SameVocabulary ==
  /\ \A c : Stream!Width(c) = Width(c)
  /\ \A c, n : Stream!StampOf(c, n) = StampOf(c, n)
  /\ \A addr : Stream!Mapped(addr) <=> Mapped(addr)
  BY DEF Width, StampOf, Mapped, Stream!Width, Stream!StampOf, Stream!Mapped

(* A step that charges no command, writes no stamp and does not end the    *)
(* thread is invisible to the command stream.                              *)
LEMMA StreamStutter ==
  ASSUME UNCHANGED <<cmds, next, nb_timestamp, measures>>, pc # "done", pc' # "done"
  PROVE  UNCHANGED Stream!vars
  BY DEF Stream!vars, Taken, Status, Cur, Owed

(* A stamp of the guest is the next stamp of the current command. *)
LEMMA StampIsTake ==
  ASSUME IInv, next > 0, Cur \in Command, Owed > 0,
         UNCHANGED <<cmds, next, nb_timestamp>>, pc = "guest", pc' = "guest",
         measures' = Append(measures, StampOf(Cur, Width(Cur) - Owed))
  PROVE  Stream!Take
<1>1. Len(measures') = Len(measures) + 1 /\ Cur' = Cur
  BY DEF IInv, TypeOK, Cur
<1>2. Taken' = Taken + 1 /\ Taken = Width(Cur) - Owed
  BY <1>1, WidthOf DEF Taken, Owed, IInv, TypeOK
<1>3. Taken < Width(Cur)
  BY <1>2, WidthOf DEF Owed, IInv, TypeOK
<1> QED
  BY <1>2, <1>3, SameVocabulary DEF Stream!Take, Stream!Due, Status, Cur, IInv, TypeOK

(* An answered request is a fetch: the command before has left its stamps. *)
LEMMA AnswerIsFetch ==
  ASSUME IInv, Exited("IO_IN"), Idle, next < Len(cmds), next' = next + 1,
         UNCHANGED <<cmds, measures>>, pc' = "kvm_run",
         nb_timestamp' = nb_timestamp + Width(Asked)
  PROVE  Stream!Fetch
<1>1. Asked \in Command /\ Cur' = Asked
  BY ListFacts DEF Asked, Cur, IInv, TypeOK
<1>2. Taken' = 0
  BY <1>1, WidthOf DEF Taken, Idle, Settled, Owed, IInv, TypeOK
<1>3. Taken = IF next = 0 THEN 0 ELSE Width(Cur)
  BY CurIsCommand, WidthOf DEF Taken, Idle, Settled, IInv, TypeOK
<1> QED
  BY <1>2, <1>3, SameVocabulary DEF Stream!Fetch, Stream!Due, Status, Cur, Exited, IInv, TypeOK

(* Every step of VmThread is a step of CommandStream or invisible to it.   *)
LEMMA StepSimulation == IInv /\ [Next]_vars => [Stream!Next]_Stream!vars
<1> SUFFICES ASSUME IInv, [Next]_vars PROVE [Stream!Next]_Stream!vars
  OBVIOUS
<1>1. CASE GuestMeasure
  <2>1. InLoop /\ Cur \in Command
    BY <1>1, CurIsCommand DEF GuestMeasure, LoopAgain, GuestAt, IInv, ServiceInv, InLoop
  <2>2. Width(Cur) - Owed = i /\ Owed > 0
    BY <1>1, <2>1, WidthOf DEF GuestMeasure, LoopAgain, InLoop, ParametersOfCur, Command, IInv, TypeOK
  <2>3. measures' = Append(measures, StampOf(Cur, i))
    BY <1>1, <2>1 DEF GuestMeasure, LoopAgain, WriteStamp, StampOf, InLoop
  <2> QED BY <1>1, <2>1, <2>2, <2>3, StampIsTake
       DEF GuestMeasure, LoopAgain, GuestAt, inputs, thread, InLoop, Stream!Next
<1>2. CASE GuestStampBefore
  <2>1. InLoop /\ Cur \in Command
    BY <1>2, CurIsCommand DEF GuestStampBefore, ParametersRead, LoopAgain, GuestAt, IInv, ServiceInv, InLoop
  <2>2. Width(Cur) - Owed = 2 * i /\ Owed > 0
    <3>1. Width(Cur) = 2 * Cur.repeat /\ Owed = 2 * (Cur.repeat - i) /\ i < Cur.repeat
      BY <1>2, <2>1, WidthOf DEF GuestStampBefore, ParametersRead, LoopAgain, InLoop, ParametersOfCur
    <3> QED BY <2>1, <3>1 DEF IInv, TypeOK, Command
  <2>3. measures' = Append(measures, StampOf(Cur, 2 * i))
    BY <1>2, <2>1 DEF GuestStampBefore, ParametersRead, LoopAgain, WriteStamp, StampOf, Stored, InLoop, ParametersOfCur
  <2> QED BY <1>2, <2>1, <2>2, <2>3, StampIsTake
       DEF GuestStampBefore, ParametersRead, LoopAgain, GuestAt, inputs, thread, InLoop, Stream!Next
<1>3. CASE GuestStampAfter
  <2>1. InAccess /\ Cur \in Command
    BY <1>3, CurIsCommand DEF GuestStampAfter, GuestAt, IInv, ServiceInv, InAccess
  <2>2. Width(Cur) - Owed = 2 * i + 1 /\ Owed > 0
    <3>1. Width(Cur) = 2 * Cur.repeat /\ Owed = 2 * (Cur.repeat - i) - 1 /\ i < Cur.repeat
      BY <2>1, WidthOf DEF InAccess
    <3> QED BY <2>1, <3>1 DEF IInv, TypeOK, Command
  <2>3. measures' = Append(measures, StampOf(Cur, 2 * i + 1))
    BY <1>3, <2>1 DEF GuestStampAfter, WriteStamp, StampOf, Stored, InAccess
  <2> QED BY <1>3, <2>1, <2>2, <2>3, StampIsTake
       DEF GuestStampAfter, GuestAt, inputs, thread, InAccess, Stream!Next
<1>4. CASE HandleCommand \/ HandlePrint
  <2>1. Exited("IO_IN") /\ next < Len(cmds) /\ Idle
    BY <1>4, InBounds
    DEF HandleCommand, ParametersOf, Charge, HandlePrint, PrintMoves, CommandInBounds, Exited, IInv, ControlInv, ServiceInv
  <2>2. Asked \in Command
    BY <2>1, ListFacts DEF Asked, IInv, TypeOK
  <2>3. nb_timestamp' = nb_timestamp + Width(Asked)
    BY <1>4, <2>2, WidthOf DEF HandleCommand, ParametersOf, Charge, HandlePrint, PrintMoves, IInv, TypeOK
  <2> QED BY <1>4, <2>1, <2>3, AnswerIsFetch
       DEF HandleCommand, ParametersOf, Charge, HandlePrint, PrintMoves, inputs, memory, Stream!Next
<1>5. CASE Check
  <2>1. next > 0 /\ Cur \in Command /\ (gpc = "halted" \/ gpc = "dead")
    BY <1>5, CurIsCommand DEF Check, CheckedStatus, IInv, ControlInv, ServiceInv, Leaving, InAccess
  <2>2. UNCHANGED <<cmds, next, Taken, measures>>
    BY <1>5 DEF Check, CheckedStatus, Taken, Cur, Owed, inputs, memory
  <2>3. CASE gpc = "halted"
    <3>1. Stream!Complete
      BY <2>1, <2>3, CurIsCommand, WidthOf, SameVocabulary
      DEF Stream!Complete, Stream!Due, Taken, Cur, Leaving, Settled, IInv, TypeOK, ServiceInv
    <3> QED BY <1>5, <2>2, <3>1 DEF Check, CheckedStatus, Status, Stream!Next, Stream!Succeed, Stream!Fail
  <2>4. CASE gpc = "dead"
    <3>1. ~retcode
      BY <2>4 DEF IInv, ControlInv
    <3>2. Stream!OutOfReach
      BY <2>4, SameVocabulary DEF Stream!OutOfReach, IInv, ServiceInv, InAccess, Cur
    <3>3. Status' = "failed" /\ Status = "running"
      BY <1>5, <3>1 DEF Check, CheckedStatus, Status
    <3> QED BY <2>2, <3>2, <3>3 DEF Stream!Next, Stream!Fail
  <2> QED BY <2>1, <2>3, <2>4
<1>6. CASE Terminated \/ UNCHANGED vars
  BY <1>6 DEF Terminated, vars, inputs, thread, memory, Stream!vars, Taken, Status, Cur, Owed
<1>7. CASE \/ GuestAsk \/ GuestSwitch \/ GuestLoopEnd \/ GuestAccess
           \/ GuestAccessUnbacked \/ GuestFault \/ GuestPuts \/ GuestHalt
  <2>1. UNCHANGED <<cmds, next, nb_timestamp, measures>> /\ pc # "done" /\ pc' # "done"
    BY <1>7 DEF GuestAsk, GuestSwitch, GuestLoopEnd, GuestAccess, GuestAccessUnbacked,
                GuestFault, GuestPuts, GuestHalt, GuestAt, ExitGuest, inputs, thread, memory
  <2> QED BY <2>1, StreamStutter
<1>8. CASE KvmRun \/ HandleOutput \/ HandleStop \/ HandleOther \/ Interrupt
           \/ GuestStuck \/ GuestBreaks
  <2>1. UNCHANGED <<cmds, next, nb_timestamp, measures>> /\ pc # "done" /\ pc' # "done"
    BY <1>8 DEF KvmRun, HandleOutput, HandleStop, HandleOther, Interrupt, Exited,
                GuestStuck, GuestBreaks, GuestAt, ExitGuest,
                inputs, thread, memory
  <2> QED BY <2>1, StreamStutter
<1> QED
  BY <1>1, <1>2, <1>3, <1>4, <1>5, <1>6, <1>7, <1>8 DEF Next, Guest, Vmm

(* The VMM thread and its guest, for any lists, roles and interrupts, do    *)
(* what CommandStream promises.                                             *)
THEOREM Refinement == Spec => ImplementsStream
<1>1. Init => Stream!Init
  BY DEF Init, Stream!Init, Taken, Status
<1> QED BY <1>1, Inductive, StepSimulation, PTL DEF Spec, ImplementsStream, Stream!Spec

--------------------------------------------------------------------------------
(* The measures.                                                           *)

(* A step of the command stream leaves the stamps of one command more, one *)
(* stamp more of the current command, or the stamps there were.            *)
LEMMA StreamStamps ==
  ASSUME TypeOK, StampsInv, [Stream!Next]_Stream!vars
  PROVE  StampsInv'
<1>1. cmds \in Seq(Command) /\ next \in 0..Len(cmds) /\ \A k \in 1..Len(cmds) : cmds[k] \in Command
  BY ListFacts DEF TypeOK
<1>2. CASE UNCHANGED Stream!vars
  BY <1>2 DEF Stream!vars, StampsInv, Cur
<1>3. CASE Stream!Fetch
  <2>1. /\ next < Len(cmds) /\ next' = next + 1 /\ cmds' = cmds /\ measures' = measures
        /\ Taken' = 0 /\ Taken = IF next = 0 THEN 0 ELSE Width(cmds[next])
    BY <1>3, SameVocabulary DEF Stream!Fetch, Stream!Due
  <2>2. next \in 0..(Len(cmds) - 1)
    BY <1>1, <2>1
  <2>3. StampsUpTo(cmds, next + 1, 0) = StampsUpTo(cmds, next, Taken)
    BY <1>1, <2>1, <2>2, CommandFetched
  <2>4. Width(cmds[next + 1]) \in Nat
    BY <1>1, <2>2, WidthOf
  <2> QED BY <2>1, <2>2, <2>3, <2>4 DEF StampsInv, Cur
<1>4. CASE Stream!Take
  <2>1. /\ Taken < (IF next = 0 THEN 0 ELSE Width(cmds[next])) /\ Taken' = Taken + 1
        /\ measures' = Append(measures, StampOf(cmds[next], Taken))
        /\ cmds' = cmds /\ next' = next
    BY <1>4, SameVocabulary DEF Stream!Take, Stream!Due
  <2>2. next \in 1..Len(cmds) /\ Taken \in Nat
    BY <1>1, <2>1 DEF StampsInv
  <2>3. Width(cmds[next]) \in Nat
    BY <1>1, <2>2, WidthOf
  <2>4. StampsUpTo(cmds, next, Taken + 1) = Append(StampsUpTo(cmds, next, Taken), StampOf(cmds[next], Taken))
    BY <1>1, <2>2, StampTaken
  <2> QED BY <2>1, <2>2, <2>3, <2>4 DEF StampsInv, Cur
<1>5. CASE Stream!Succeed \/ Stream!Fail
  BY <1>5 DEF Stream!Succeed, Stream!Fail, StampsInv, Cur
<1> QED BY <1>2, <1>3, <1>4, <1>5 DEF Stream!Next

(* Every step keeps the invariant and what the measures region holds.       *)
THEOREM ThreadInvariant == Spec => []ThreadInv
<1>1. Init => StampsInv
  BY DEF Init, StampsInv, Taken, StampsUpTo
<1>2. IInv /\ StampsInv /\ [Next]_vars => StampsInv'
  BY StepSimulation, StreamStamps DEF IInv
<1> QED BY <1>1, <1>2, Inductive, PTL DEF Spec, ThreadInv

LEMMA PrefixOfConcat ==
  ASSUME NEW s \in Seq(Stamp), NEW r \in Seq(Stamp)
  PROVE  Seqs!IsPrefix(s, s \o r)
  BY DEF Seqs!IsPrefix

(* The measures region always holds a prefix of the stamps that the list    *)
(* calls for, and all of them once the guest has halted: for lists of any   *)
(* length, with any number of repetitions and interrupts.                   *)
THEOREM MeasuresAreExpected == Spec => []MeasuresAsExpected
<1>1. ThreadInv => MeasuresAsExpected
  <2> SUFFICES ASSUME ThreadInv PROVE MeasuresAsExpected
    OBVIOUS
  <2>1. cmds \in Seq(Command) /\ next \in 0..Len(cmds) /\ measures \in Seq(Stamp) /\ Len(cmds) > 0
    BY ListFacts DEF ThreadInv, IInv, TypeOK
  <2>2. PICK rest \in Seq(Stamp) : Expected(cmds) = measures \o rest
    BY <2>1, StampsUpToPrefix DEF ThreadInv, StampsInv, Cur
  <2>3. Seqs!IsPrefix(measures, Expected(cmds))
    BY <2>1, <2>2, PrefixOfConcat
  <2>4. ASSUME gpc = "halted" PROVE measures = Expected(cmds)
    <3>1. Leaving
      BY <2>4 DEF ThreadInv, IInv, ServiceInv
    <3>2. next = Len(cmds) /\ Owed = 0 /\ Cur \in Command
      BY <3>1, CurIsCommand DEF Leaving, Settled, ThreadInv, IInv
    <3>3. Taken = Width(cmds[next])
      BY <2>1, <3>2, WidthOf DEF Taken, Cur
    <3> QED BY <2>1, <3>2, <3>3, ListServed DEF ThreadInv, StampsInv
  <2> QED BY <2>3, <2>4 DEF MeasuresAsExpected
<1> QED BY <1>1, ThreadInvariant, PTL
================================================================================
