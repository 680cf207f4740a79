--------------------------- MODULE CommandFileProofs ---------------------------
(***************************************************************************)
(* Proofs about the command file: the lists that the experiments make are  *)
(* closed by EXIT, and whatever the writer leaves of them, load_commands   *)
(* deals out prefixes of them that fit its allocations and the measures    *)
(* region.                                                                 *)
(***************************************************************************)
EXTENDS FiniteSetTheorems, CommandFile, StampFacts

--------------------------------------------------------------------------------
(* The experiments.                                                        *)

(* What an experiment puts before the EXIT of a list. *)
BodyCommand == {c \in Command : c.cmd # "EXIT" /\ c.repeat = Repeat}

Closed(l) == \E body \in Seq(BodyCommand) : l = body \o <<CmdExit>>

LEMMA CommandTypes ==
  /\ CmdExit \in Command
  /\ CmdMeasure \in BodyCommand
  /\ \A addr \in Target : CmdRead(addr) \in BodyCommand
  /\ \A addr \in Target, value \in Value : CmdWrite(addr, value) \in BodyCommand
<1>1. Repeat \in Nat
  BY SizesAssumption
<1>2. ASSUME NEW cmd \in Primitive, NEW addr \in Target, NEW value \in Value \cup {NoValue},
             NEW repeat \in Nat
      PROVE  /\ Cmd(cmd, addr, value, repeat) \in Command
             /\ Cmd(cmd, addr, value, repeat).cmd = cmd
             /\ Cmd(cmd, addr, value, repeat).repeat = repeat
  BY DEF Cmd, Command
<1>3. CmdExit \in Command
  BY <1>2 DEF CmdExit, Primitive, Target
<1>4. CmdMeasure \in BodyCommand
  BY <1>1, <1>2 DEF CmdMeasure, BodyCommand, Primitive, Target
<1>5. ASSUME NEW addr \in Target PROVE CmdRead(addr) \in BodyCommand
  BY <1>1, <1>2 DEF CmdRead, BodyCommand, Primitive
<1>6. ASSUME NEW addr \in Target, NEW value \in Value PROVE CmdWrite(addr, value) \in BodyCommand
  BY <1>1, <1>2 DEF CmdWrite, BodyCommand, Primitive
<1> QED BY <1>3, <1>4, <1>5, <1>6

LEMMA BodyConcat ==
  ASSUME NEW s \in Seq(BodyCommand), NEW t \in Seq(BodyCommand)
  PROVE  s \o t \in Seq(BodyCommand)
  OBVIOUS

LEMMA BodyParts ==
  ASSUME NEW n \in Nat, NEW addr \in Target
  PROVE  /\ Preamble(addr) \in Seq(BodyCommand)
         /\ Times(n, CmdMeasure) \in Seq(BodyCommand)
         /\ Times(n, CmdRead(addr)) \in Seq(BodyCommand)
         /\ \A values \in [1..n -> Value] : Writes(addr, values) \in Seq(BodyCommand)
<1>1. CmdMeasure \in BodyCommand /\ CmdRead(addr) \in BodyCommand
  BY CommandTypes
<1>2. Preamble(addr) \in Seq(BodyCommand)
  BY <1>1 DEF Preamble
<1>3. \A c \in BodyCommand : Times(n, c) \in Seq(BodyCommand)
  BY DEF Times
<1>4. ASSUME NEW values \in [1..n -> Value] PROVE Writes(addr, values) \in Seq(BodyCommand)
  <2>1. \A k \in 1..n : CmdWrite(addr, values[k]) \in BodyCommand
    BY CommandTypes
  <2>2. DOMAIN values = 1..n
    OBVIOUS
  <2> QED BY <2>1, <2>2 DEF Writes
<1> QED BY <1>1, <1>2, <1>3, <1>4

LEMMA AttackerAloneClosed ==
  ASSUME NEW addr \in Target, NEW body \in Seq(BodyCommand), NEW r \in VMs
  PROVE  Closed(AttackerAlone(addr, body)[r])
<1> DEFINE mine == IF r = ATTACKER THEN body ELSE <<>>
<1>1. mine \in Seq(BodyCommand)
  OBVIOUS
<1>2. Preamble(addr) \in Seq(BodyCommand)
  BY BodyParts
<1>3. AttackerAlone(addr, body)[r] = (Preamble(addr) \o mine) \o <<CmdExit>>
  BY DEF AttackerAlone
<1> HIDE DEF mine
<1>4. Preamble(addr) \o mine \in Seq(BodyCommand)
  BY <1>1, <1>2, BodyConcat
<1> QED BY <1>3, <1>4 DEF Closed

LEMMA ExperimentLists ==
  ASSUME NEW n \in Nat, NEW lists \in Experiments(n)
  PROVE  DOMAIN lists = VMs /\ \A r \in VMs : Closed(lists[r])
<1>0. {"OWN", "SHARED"} \subseteq Target
  BY DEF Target
<1>1. CASE lists = Exp0(n, "OWN")
  <2>1. Times(n, CmdRead("OWN")) \in Seq(BodyCommand)
    BY <1>0, BodyParts
  <2>2. DOMAIN lists = VMs
    BY <1>1 DEF Exp0, AttackerAlone
  <2> QED BY <1>0, <1>1, <2>1, <2>2, AttackerAloneClosed DEF Exp0
<1>2. ASSUME NEW addr \in {"OWN", "SHARED"}, lists = Exp1(n, addr)
      PROVE  DOMAIN lists = VMs /\ \A r \in VMs : Closed(lists[r])
  <2>1. DOMAIN lists = VMs
    BY <1>2 DEF Exp1, Exp0, AttackerAlone
  <2>2. ASSUME NEW r \in VMs, r # VICTIM PROVE Closed(lists[r])
    <3>1. lists[r] = Exp0(n, addr)[r]
      BY <1>2, <2>2 DEF Exp1, Exp0, AttackerAlone
    <3>2. Times(n, CmdRead(addr)) \in Seq(BodyCommand)
      BY <1>0, BodyParts
    <3> QED BY <1>0, <3>1, <3>2, AttackerAloneClosed DEF Exp0
  <2>3. Closed(lists[VICTIM])
    <3> DEFINE a == Times(15, CmdMeasure)
               b == Times(n + 1, CmdRead(addr))
    <3>1. a \in Seq(BodyCommand) /\ b \in Seq(BodyCommand)
      <4>1. addr \in Target /\ 15 \in Nat /\ n + 1 \in Nat
        BY <1>0
      <4>2. a \in Seq(BodyCommand)
        BY <4>1, BodyParts
      <4>3. b \in Seq(BodyCommand)
        BY <4>1, BodyParts
      <4> QED BY <4>2, <4>3
    <3>2. lists[VICTIM] = (a \o b) \o <<CmdExit>>
      BY <1>2 DEF Exp1, Exp0, AttackerAlone, VMs, VICTIM, NUMBEROFROLE
    <3> HIDE DEF a, b
    <3>3. a \o b \in Seq(BodyCommand)
      BY <3>1, BodyConcat
    <3> QED BY <3>2, <3>3 DEF Closed
  <2> QED BY <2>1, <2>2, <2>3
<1>3. CASE lists = Exp4(n, "SHARED")
  <2>1. DOMAIN lists = VMs
    BY <1>3 DEF Exp4
  <2>2. ASSUME NEW r \in VMs PROVE Closed(lists[r])
    <3> DEFINE a == Preamble("SHARED")
               b == Times(n, CmdMeasure)
    <3>1. a \in Seq(BodyCommand) /\ b \in Seq(BodyCommand)
      BY <1>0, BodyParts
    <3>2. lists[r] = (a \o b) \o <<CmdExit>>
      BY <1>3 DEF Exp4
    <3> HIDE DEF a, b
    <3>3. a \o b \in Seq(BodyCommand)
      BY <3>1, BodyConcat
    <3> QED BY <3>2, <3>3 DEF Closed
  <2> QED BY <2>1, <2>2
<1>4. ASSUME NEW w \in [1..n -> Value], lists = Exp2("SHARED", w)
      PROVE  DOMAIN lists = VMs /\ \A r \in VMs : Closed(lists[r])
  <2>1. Writes("SHARED", w) \in Seq(BodyCommand)
    BY <1>0, BodyParts
  <2>2. DOMAIN lists = VMs
    BY <1>4 DEF Exp2, AttackerAlone
  <2> QED BY <1>0, <1>4, <2>1, <2>2, AttackerAloneClosed DEF Exp2
<1>5. ASSUME NEW w0 \in [1..n -> Value], NEW w1 \in [1..n -> Value],
             lists = Exp3("SHARED", w0, "OWN", w1)
      PROVE  DOMAIN lists = VMs /\ \A r \in VMs : Closed(lists[r])
  <2> DEFINE a == Writes("SHARED", w0)
             b == Writes("OWN", w1)
  <2>1. a \in Seq(BodyCommand) /\ b \in Seq(BodyCommand)
    BY <1>0, BodyParts
  <2>2. DOMAIN lists = VMs /\ lists = AttackerAlone("SHARED", a \o b)
    BY <1>5 DEF Exp3, AttackerAlone
  <2> HIDE DEF a, b
  <2>3. a \o b \in Seq(BodyCommand)
    BY <2>1, BodyConcat
  <2> QED BY <1>0, <2>2, <2>3, AttackerAloneClosed
<1> QED BY <1>1, <1>2, <1>3, <1>4, <1>5 DEF Experiments

LEMMA ClosedFacts ==
  ASSUME NEW l, Closed(l)
  PROVE  /\ l \in Seq(Command)
         /\ ExitTerminated(l)
         /\ \A k \in 1..Len(l) : l[k].cmd # "EXIT" => l[k].repeat = Repeat
<1>1. PICK body \in Seq(BodyCommand) : l = body \o <<CmdExit>>
  BY DEF Closed
<1>2. CmdExit \in Command /\ CmdExit.cmd = "EXIT"
  BY CommandTypes DEF CmdExit, Cmd
<1>3. l \in Seq(Command) /\ Len(l) = Len(body) + 1 /\ Len(body) \in Nat
  <2>1. body \in Seq(Command)
    BY DEF BodyCommand
  <2> HIDE DEF BodyCommand
  <2> QED BY <1>1, <1>2, <2>1
<1>4. l[Len(l)] = CmdExit
  BY <1>1, <1>3
<1>5. \A k \in 1..Len(body) : l[k] = body[k] /\ body[k] \in BodyCommand
  BY <1>1, <1>3
<1> QED BY <1>2, <1>3, <1>4, <1>5 DEF ExitTerminated, BodyCommand

(***************************************************************************)
(* Every list that gen_measures makes of an experiment, for any number of  *)
(* iterations, is a list of commands closed by its only EXIT: what the     *)
(* models of the VMM assume of the lists that a guest is given.            *)
(***************************************************************************)
THEOREM ExperimentsEndWithExit ==
  ASSUME NEW n \in Nat, NEW lists \in Experiments(n), NEW r \in VMs
  PROVE  lists[r] \in Seq(Command) /\ ExitTerminated(lists[r])
<1>1. Closed(lists[r])
  BY ExperimentLists
<1> QED BY <1>1, ClosedFacts

--------------------------------------------------------------------------------
(* The records of the file.                                                *)

Typed(lists) == lists \in [VMs -> Seq(Command)]

(* The commands of one role, as they stand in the file. *)
Tagged(lists, r) == [j \in 1..Len(lists[r]) |-> [vm_role |-> r, cmd |-> lists[r][j]]]

LEMMA TaggedType ==
  ASSUME NEW lists, Typed(lists), NEW r \in VMs
  PROVE  /\ Tagged(lists, r) \in Seq(CommandRecord)
         /\ Len(Tagged(lists, r)) = Len(lists[r])
         /\ Len(lists[r]) \in Nat
<1>1. lists[r] \in Seq(Command) /\ Len(lists[r]) \in Nat
  BY DEF Typed
<1>2. \A j \in 1..Len(lists[r]) : [vm_role |-> r, cmd |-> lists[r][j]] \in CommandRecord
  BY <1>1 DEF CommandRecord
<1> QED BY <1>1, <1>2 DEF Tagged

LEMMA CommandsAre ==
  ASSUME NEW lists, Typed(lists)
  PROVE  Commands(lists) = (Tagged(lists, 0) \o Tagged(lists, 1)) \o Tagged(lists, 2)
<1> DEFINE upTo(n) == [k \in 1..n |-> Tagged(lists, k - 1)]
           A == Tagged(lists, 0)
           B == Tagged(lists, 1)
           C == Tagged(lists, 2)
<1>0. VMs = 0..2 /\ NUMBEROFROLE = 3
  BY DEF VMs, NUMBEROFROLE
<1>1. A \in Seq(CommandRecord) /\ B \in Seq(CommandRecord) /\ C \in Seq(CommandRecord)
  BY <1>0, TaggedType
<1>2. ASSUME NEW n \in 0..3 PROVE upTo(n) \in Seq(Seq(CommandRecord)) /\ Len(upTo(n)) = n
  <2>1. \A k \in 1..n : Tagged(lists, k - 1) \in Seq(CommandRecord)
    BY <1>0, TaggedType
  <2> QED BY <2>1
<1>3. upTo(1)[1] = A /\ upTo(2)[2] = B /\ upTo(3)[3] = C
  OBVIOUS
<1>4. ASSUME NEW n \in 0..2
      PROVE  Seqs!FlattenSeq(upTo(n + 1)) = Seqs!FlattenSeq(upTo(n)) \o upTo(n + 1)[n + 1]
  <2> DEFINE a == upTo(n)
             b == upTo(n + 1)
  <2>1. /\ a \in Seq(Seq(CommandRecord)) /\ b \in Seq(Seq(CommandRecord))
        /\ Len(b) = n + 1 /\ Len(b) = Len(a) + 1
    BY <1>2
  <2>2. \A k \in 1..Len(a) : a[k] = b[k]
    BY <1>2
  <2> HIDE DEF a, b
  <2>3. Seqs!FlattenSeq(b) = Seqs!FlattenSeq(a) \o b[n + 1]
    BY <2>1, <2>2, FlattenSnoc
  <2> QED BY <2>3 DEF a, b
<1>5. Seqs!FlattenSeq(upTo(0)) = <<>>
  BY DEF Seqs!FlattenSeq
<1>6. Commands(lists) = Seqs!FlattenSeq(upTo(3))
  <2>1. \A k \in 1..3 : DOMAIN lists[k - 1] = 1..Len(lists[k - 1])
    BY <1>0 DEF Typed
  <2>2. upTo(3) = [k \in 1..3 |->
                    [j \in DOMAIN lists[k - 1] |-> [vm_role |-> k - 1, cmd |-> lists[k - 1][j]]]]
    BY <2>1 DEF Tagged
  <2> QED BY <1>0, <2>2 DEF Commands
<1>7. /\ Seqs!FlattenSeq(upTo(1)) = Seqs!FlattenSeq(upTo(0)) \o A
      /\ Seqs!FlattenSeq(upTo(2)) = Seqs!FlattenSeq(upTo(1)) \o B
      /\ Seqs!FlattenSeq(upTo(3)) = Seqs!FlattenSeq(upTo(2)) \o C
  <2> HIDE DEF upTo, A, B, C
  <2>1. Seqs!FlattenSeq(upTo(0 + 1)) = Seqs!FlattenSeq(upTo(0)) \o upTo(0 + 1)[0 + 1]
    BY <1>4
  <2>2. Seqs!FlattenSeq(upTo(1 + 1)) = Seqs!FlattenSeq(upTo(1)) \o upTo(1 + 1)[1 + 1]
    BY <1>4
  <2>3. Seqs!FlattenSeq(upTo(2 + 1)) = Seqs!FlattenSeq(upTo(2)) \o upTo(2 + 1)[2 + 1]
    BY <1>4
  <2>4. 0 + 1 = 1 /\ 1 + 1 = 2 /\ 2 + 1 = 3
    OBVIOUS
  <2> QED BY <1>3, <2>1, <2>2, <2>3, <2>4
<1> HIDE DEF upTo, A, B, C
<1>8. <<>> \o A = A
  BY <1>1
<1>9. Commands(lists) = (A \o B) \o C
  BY <1>5, <1>6, <1>7, <1>8
<1> QED BY <1>9 DEF A, B, C

FileRecord == HeaderRecord \cup CommandRecord

LEMMA ConcatAt ==
  ASSUME NEW s \in Seq(FileRecord), NEW t \in Seq(FileRecord)
  PROVE  /\ s \o t \in Seq(FileRecord)
         /\ Len(s \o t) = Len(s) + Len(t)
         /\ \A k \in 1..Len(s) : (s \o t)[k] = s[k]
         /\ \A k \in 1..Len(t) : (s \o t)[Len(s) + k] = t[k]
  OBVIOUS

(* Four sequences, one behind the other. *)
LaidOut(all, h, a, b, c) ==
  /\ Len(all) = Len(h) + Len(a) + Len(b) + Len(c)
  /\ \A k \in 1..Len(h) : all[k] = h[k]
  /\ \A k \in 1..Len(a) : all[Len(h) + k] = a[k]
  /\ \A k \in 1..Len(b) : all[Len(h) + Len(a) + k] = b[k]
  /\ \A k \in 1..Len(c) : all[Len(h) + Len(a) + Len(b) + k] = c[k]

LEMMA ConcatFour ==
  ASSUME NEW h \in Seq(FileRecord), NEW a \in Seq(FileRecord),
         NEW b \in Seq(FileRecord), NEW c \in Seq(FileRecord),
         NEW all \in Seq(FileRecord), all = h \o ((a \o b) \o c)
  PROVE  LaidOut(all, h, a, b, c)
<1> DEFINE ab == a \o b
           abc == ab \o c
<1>0. Len(h) \in Nat /\ Len(a) \in Nat /\ Len(b) \in Nat /\ Len(c) \in Nat
  OBVIOUS
<1>1. /\ ab \in Seq(FileRecord) /\ Len(ab) = Len(a) + Len(b)
      /\ \A k \in 1..Len(a) : ab[k] = a[k]
      /\ \A k \in 1..Len(b) : ab[Len(a) + k] = b[k]
  BY ConcatAt
<1> HIDE DEF ab
<1>2. /\ abc \in Seq(FileRecord) /\ Len(abc) = Len(ab) + Len(c)
      /\ \A k \in 1..Len(ab) : abc[k] = ab[k]
      /\ \A k \in 1..Len(c) : abc[Len(ab) + k] = c[k]
  BY <1>1, ConcatAt
<1> HIDE DEF abc
<1>3. /\ Len(all) = Len(h) + Len(abc)
      /\ \A k \in 1..Len(h) : all[k] = h[k]
      /\ \A k \in 1..Len(abc) : all[Len(h) + k] = abc[k]
  <2>1. /\ Len(h \o abc) = Len(h) + Len(abc)
        /\ \A k \in 1..Len(h) : (h \o abc)[k] = h[k]
        /\ \A k \in 1..Len(abc) : (h \o abc)[Len(h) + k] = abc[k]
    BY <1>2, ConcatAt
  <2>2. all = h \o abc
    BY DEF ab, abc
  <2> QED BY <2>1, <2>2
<1>4. ASSUME NEW k \in 1..Len(a) PROVE all[Len(h) + k] = a[k]
  <2>1. k \in 1..Len(ab) /\ k \in 1..Len(abc)
    BY <1>0, <1>1, <1>2
  <2> QED BY <2>1, <1>1, <1>2, <1>3
<1>5. ASSUME NEW k \in 1..Len(b) PROVE all[Len(h) + Len(a) + k] = b[k]
  <2>1. Len(a) + k \in 1..Len(ab) /\ Len(a) + k \in 1..Len(abc)
    BY <1>0, <1>1, <1>2
  <2>2. all[Len(h) + (Len(a) + k)] = b[k]
    BY <2>1, <1>1, <1>2, <1>3
  <2>3. Len(h) + (Len(a) + k) = Len(h) + Len(a) + k
    BY <1>0
  <2> QED BY <2>2, <2>3
<1>6. ASSUME NEW k \in 1..Len(c) PROVE all[Len(h) + Len(a) + Len(b) + k] = c[k]
  <2>1. Len(ab) + k \in 1..Len(abc)
    BY <1>0, <1>1, <1>2
  <2>2. all[Len(h) + (Len(ab) + k)] = c[k]
    BY <2>1, <1>2, <1>3
  <2>3. Len(h) + (Len(ab) + k) = Len(h) + Len(a) + Len(b) + k
    BY <1>0, <1>1
  <2> QED BY <2>2, <2>3
<1>7. Len(all) = Len(h) + Len(a) + Len(b) + Len(c)
  BY <1>0, <1>1, <1>2, <1>3
<1> QED BY <1>3, <1>4, <1>5, <1>6, <1>7 DEF LaidOut

Total(lists) == Len(lists[0]) + Len(lists[1]) + Len(lists[2])

LEMMA Befores ==
  ASSUME NEW lists, Typed(lists)
  PROVE  /\ Len(lists[0]) \in Nat /\ Len(lists[1]) \in Nat /\ Len(lists[2]) \in Nat
         /\ Before(lists, 0) = 0 /\ Before(lists, 1) = Len(lists[0])
         /\ Before(lists, 2) = Len(lists[0]) + Len(lists[1])
         /\ \A r \in VMs : Before(lists, r) \in Nat
<1>1. Len(lists[0]) \in Nat /\ Len(lists[1]) \in Nat /\ Len(lists[2]) \in Nat
  BY TaggedType DEF VMs, NUMBEROFROLE
<1>2. /\ Before(lists, 0) = 0 /\ Before(lists, 1) = Len(lists[0])
      /\ Before(lists, 2) = Len(lists[0]) + Len(lists[1])
  BY <1>1 DEF Before, VICTIM, ATTACKER
<1>3. ASSUME NEW r \in VMs PROVE Before(lists, r) \in Nat
  <2>1. r = 0 \/ r = 1 \/ r = 2
    BY DEF VMs, NUMBEROFROLE
  <2>2. Before(lists, 0) \in Nat /\ Before(lists, 1) \in Nat /\ Before(lists, 2) \in Nat
    <3> DEFINE a == Len(lists[0])
               b == Len(lists[1])
    <3>1. /\ a \in Nat /\ b \in Nat
          /\ Before(lists, 0) = 0 /\ Before(lists, 1) = a /\ Before(lists, 2) = a + b
      BY <1>1, <1>2
    <3> HIDE DEF a, b
    <3> QED BY <3>1
  <2> QED BY <2>1, <2>2
<1> QED BY <1>1, <1>2, <1>3

(* Three headers in the order of the roles, then each command of each role *)
(* behind the commands of the roles before it.                             *)
LEMMA RecordsAre ==
  ASSUME NEW lists, Typed(lists)
  PROVE  /\ Records(lists) \in Seq(FileRecord)
         /\ Len(Records(lists)) = NUMBEROFROLE + Total(lists)
         /\ \A r \in VMs : Records(lists)[r + 1] = Header(r, Len(lists[r]))
         /\ \A r \in VMs : \A j \in 1..Len(lists[r]) :
              Records(lists)[NUMBEROFROLE + Before(lists, r) + j]
                = [vm_role |-> r, cmd |-> lists[r][j]]
<1> DEFINE h == Headers(lists)
           a == Tagged(lists, 0)
           b == Tagged(lists, 1)
           c == Tagged(lists, 2)
           all == Records(lists)
<1>0. VMs = 0..2 /\ NUMBEROFROLE = 3
  BY DEF VMs, NUMBEROFROLE
<1>1. /\ a \in Seq(FileRecord) /\ Len(a) = Len(lists[0])
      /\ b \in Seq(FileRecord) /\ Len(b) = Len(lists[1])
      /\ c \in Seq(FileRecord) /\ Len(c) = Len(lists[2])
  <2>1. \A s \in Seq(CommandRecord) : s \in Seq(FileRecord)
    BY DEF FileRecord
  <2> QED BY <1>0, <2>1, TaggedType
<1>2. h \in Seq(FileRecord) /\ Len(h) = 3
  <2>1. \A k \in 1..3 : Header(k - 1, Len(lists[k - 1])) \in FileRecord
    BY <1>0, TaggedType DEF Header, HeaderRecord, FileRecord
  <2> QED BY <1>0, <2>1 DEF Headers
<1>3. \A r \in VMs : h[r + 1] = Header(r, Len(lists[r]))
  BY <1>0 DEF Headers
<1>4. all = h \o ((a \o b) \o c)
  BY CommandsAre DEF Records
<1>5. /\ \A j \in 1..Len(lists[0]) : a[j] = [vm_role |-> 0, cmd |-> lists[0][j]]
      /\ \A j \in 1..Len(lists[1]) : b[j] = [vm_role |-> 1, cmd |-> lists[1][j]]
      /\ \A j \in 1..Len(lists[2]) : c[j] = [vm_role |-> 2, cmd |-> lists[2][j]]
  BY DEF Tagged
<1> HIDE DEF h, a, b, c, all
<1>5a. all \in Seq(FileRecord)
  <2> DEFINE ab == a \o b
             abc == ab \o c
  <2>1. ab \in Seq(FileRecord)
    BY <1>1, ConcatAt
  <2> HIDE DEF ab
  <2>2. abc \in Seq(FileRecord)
    BY <1>1, <2>1, ConcatAt
  <2> HIDE DEF abc
  <2>3. h \o abc \in Seq(FileRecord)
    BY <1>2, <2>2, ConcatAt
  <2>4. all = h \o abc
    BY <1>4 DEF ab, abc
  <2> QED BY <2>3, <2>4
<1>6. LaidOut(all, h, a, b, c)
  <2>1. a \in Seq(FileRecord) /\ b \in Seq(FileRecord) /\ c \in Seq(FileRecord)
    BY <1>1
  <2>2. h \in Seq(FileRecord)
    BY <1>2
  <2> QED BY <1>4, <1>5a, <2>1, <2>2, ConcatFour
<1>7. Len(all) = NUMBEROFROLE + Total(lists)
  <2>1. Len(all) = 3 + Len(lists[0]) + Len(lists[1]) + Len(lists[2])
    BY <1>1, <1>2, <1>6 DEF LaidOut
  <2>2. Len(lists[0]) \in Nat /\ Len(lists[1]) \in Nat /\ Len(lists[2]) \in Nat
    BY Befores
  <2>3. \A x, y, z \in Nat : 3 + x + y + z = 3 + (x + y + z)
    OBVIOUS
  <2> QED BY <1>0, <2>1, <2>2, <2>3 DEF Total
<1>8. \A r \in VMs : all[r + 1] = Header(r, Len(lists[r]))
  <2>1. \A k \in 1..3 : all[k] = h[k]
    BY <1>2, <1>6 DEF LaidOut
  <2> QED BY <1>0, <1>3, <2>1
<1>9. ASSUME NEW r \in VMs, NEW j \in 1..Len(lists[r])
      PROVE  all[NUMBEROFROLE + Before(lists, r) + j] = [vm_role |-> r, cmd |-> lists[r][j]]
  <2>0. j \in Nat
    BY TaggedType
  <2>1. CASE r = 0
    <3>1. all[3 + j] = [vm_role |-> r, cmd |-> lists[r][j]]
      BY <1>1, <1>2, <1>5, <1>6, <2>1 DEF LaidOut
    <3>2. NUMBEROFROLE + Before(lists, r) + j = 3 + j
      <4>1. Before(lists, r) = 0
        BY <2>1, Befores
      <4>2. Len(lists[0]) \in Nat /\ Len(lists[1]) \in Nat
        BY Befores
      <4> QED BY <1>0, <2>0, <4>1, <4>2
    <3> QED BY <3>1, <3>2
  <2>2. CASE r = 1
    <3>1. all[3 + Len(lists[0]) + j] = [vm_role |-> r, cmd |-> lists[r][j]]
      BY <1>1, <1>2, <1>5, <1>6, <2>2 DEF LaidOut
    <3>2. NUMBEROFROLE + Before(lists, r) + j = 3 + Len(lists[0]) + j
      <4>1. Before(lists, r) = Len(lists[0])
        BY <2>2, Befores
      <4>2. Len(lists[0]) \in Nat /\ Len(lists[1]) \in Nat
        BY Befores
      <4> QED BY <1>0, <2>0, <4>1, <4>2
    <3> QED BY <3>1, <3>2
  <2>3. CASE r = 2
    <3>1. all[3 + Len(lists[0]) + Len(lists[1]) + j] = [vm_role |-> r, cmd |-> lists[r][j]]
      BY <1>1, <1>2, <1>5, <1>6, <2>3 DEF LaidOut
    <3>2. NUMBEROFROLE + Before(lists, r) + j = 3 + Len(lists[0]) + Len(lists[1]) + j
      <4>1. Before(lists, r) = Len(lists[0]) + Len(lists[1])
        BY <2>3, Befores
      <4>2. Len(lists[0]) \in Nat /\ Len(lists[1]) \in Nat
        BY Befores
      <4> DEFINE x == Len(lists[0])
                 y == Len(lists[1])
                 z == Before(lists, r)
      <4>3. x \in Nat /\ y \in Nat /\ z = x + y /\ j \in Nat
        BY <2>0, <4>1, <4>2
      <4> HIDE DEF x, y, z
      <4>4. 3 + z + j = 3 + x + y + j
        BY <4>3
      <4> QED BY <1>0, <4>4 DEF x, y, z
    <3> QED BY <3>1, <3>2
  <2> QED BY <1>0, <2>1, <2>2, <2>3
<1> QED BY <1>5a, <1>7, <1>8, <1>9 DEF all

--------------------------------------------------------------------------------
(* The inductive invariant.                                                *)

LEMMA DataFacts ==
  ASSUME WriterInv
  PROVE  /\ Typed(data)
         /\ \A r \in VMs : /\ data[r] \in Seq(Command) /\ Len(data[r]) \in Nat
                           /\ Closed(data[r]) /\ data[r] \in CmdLists
<1>1. PICK n \in Iterations : data \in Experiments(n)
  BY DEF WriterInv
<1>2. n \in Nat
  BY SizesAssumption
<1>3. DOMAIN data = VMs /\ \A r \in VMs : Closed(data[r])
  BY <1>1, <1>2, ExperimentLists
<1>4. \A r \in VMs : data[r] \in CmdLists
  BY <1>1, GeneratedAssumption
<1>5. \A r \in VMs : data[r] \in Seq(Command)
  BY <1>3, ClosedFacts
<1>6. data = [r \in VMs |-> data[r]]
  <2>1. \E n0 \in Nat : data \in Experiments(n0)
    BY <1>1, <1>2
  <2> QED BY <1>3, <2>1 DEF Experiments, Exp0, Exp1, Exp2, Exp3, Exp4, AttackerAlone
<1> QED BY <1>3, <1>4, <1>5, <1>6 DEF Typed

(* What load_commands finds at place j of the file. *)
LEMMA FileFacts ==
  ASSUME TypeOK, WriterInv, NEW j \in 1..Len(file)
  PROVE  /\ file[j] = Records(data)[j]
         /\ Len(file) <= NUMBEROFROLE + Total(data)
         /\ Fits(data)
<1>1. file \in Seq(FileRecord) /\ out \in Seq(FileRecord)
  BY DEF TypeOK, FileRecord
<1>2. Len(file \o out) = Len(file) + Len(out) /\ (file \o out)[j] = file[j]
  BY <1>1, ConcatAt
<1>3. file \o out # <<>>
  BY <1>1, <1>2
<1>4. file \o out = Records(data) /\ Fits(data)
  BY <1>3 DEF WriterInv
<1>5. Len(Records(data)) = NUMBEROFROLE + Total(data)
  BY DataFacts, RecordsAre
<1>6. Len(file) \in Nat /\ Len(out) \in Nat
  BY <1>1
<1> QED BY <1>2, <1>4, <1>5, <1>6

LEMMA InitInv ==
  ASSUME Init
  PROVE  IInv
<1>1. PICK n \in Iterations : data \in Experiments(n)
  BY DEF Init
<1>2. file = <<>> /\ out = <<>> /\ file \o out = <<>>
  BY DEF Init
<1>3. WriterInv
  BY <1>1, <1>2 DEF WriterInv
<1>4. Typed(data)
  BY <1>3, DataFacts
<1>5. TypeOK
  <2>1. file \in Seq(FileRecord) /\ out \in Seq(FileRecord) /\ Len(file) = 0
    BY <1>2
  <2>2. room \in [VMs -> Nat] /\ cmds \in [VMs -> Seq(Command)]
    BY DEF Init
  <2> QED BY <1>4, <2>1, <2>2 DEF Init, TypeOK, FileRecord, Typed
<1>6. ReaderInv
  BY <1>2 DEF Init, ReaderInv, Loaded
<1>7. DealtInv
  <2>1. \A r \in VMs : Before(data, r) \in Nat
    BY <1>4, Befores
  <2>2. \A r \in VMs : Dealt(r) = 0
    BY <2>1 DEF Dealt, Init, NUMBEROFROLE
  <2>3. \A r \in VMs : [k \in 1..Dealt(r) |-> data[r][k]] = <<>>
    BY <2>2
  <2>4. \A r \in VMs : ~(r < i)
    BY DEF Init, VMs, NUMBEROFROLE
  <2> QED BY <2>3, <2>4 DEF DealtInv, Init
<1> QED BY <1>3, <1>5, <1>6, <1>7 DEF IInv

(* The record that the VMM appends next: it is for some VM q, and it is    *)
(* the first command of q's list that q has not got.                       *)
LEMMA NextCommand ==
  ASSUME IInv, AppendCommand
  PROVE  \E q \in VMs : \E j \in 1..Len(data[q]) :
           /\ file[i + 1] = [vm_role |-> q, cmd |-> data[q][j]]
           /\ \A r \in VMs : Dealt(r)' = IF r = q THEN j ELSE Dealt(r)
           /\ Dealt(q) = j - 1
<1>1. /\ NUMBEROFROLE <= i /\ i < Len(file) /\ i \in Nat /\ Len(file) \in Nat
      /\ i' = i + 1 /\ UNCHANGED data
  BY DEF IInv, TypeOK, ReaderInv, AppendCommand
<1>2. Typed(data)
  BY DataFacts DEF IInv
<1>3. /\ file[i + 1] = Records(data)[i + 1]
      /\ Len(file) <= NUMBEROFROLE + Total(data)
  <2>1. i + 1 \in 1..Len(file)
    BY <1>1
  <2> QED BY <2>1, FileFacts DEF IInv
<1> DEFINE a == Len(data[0])
           b == Len(data[1])
           c == Len(data[2])
           k == i - NUMBEROFROLE
           Clamp(x, n) == IF x <= 0 THEN 0 ELSE IF x <= n THEN x ELSE n
<1>4. a \in Nat /\ b \in Nat /\ c \in Nat
  BY <1>2, Befores
<1>5. /\ Dealt(0) = Clamp(k, a) /\ Dealt(1) = Clamp(k - a, b) /\ Dealt(2) = Clamp(k - (a + b), c)
      /\ Dealt(0)' = Clamp((k + 1), a) /\ Dealt(1)' = Clamp((k + 1) - a, b)
      /\ Dealt(2)' = Clamp((k + 1) - (a + b), c)
  <2>1. Before(data, 0) = 0 /\ Before(data, 1) = a /\ Before(data, 2) = a + b
    BY <1>2, Befores
  <2>2. i' - NUMBEROFROLE = k + 1 /\ data' = data /\ k \in Int
    BY <1>1 DEF NUMBEROFROLE
  <2>3. Before(data, 0)' = 0 /\ Before(data, 1)' = a /\ Before(data, 2)' = a + b
    BY <2>1, <2>2 DEF Before
  <2>4. k - 0 = k /\ (k + 1) - 0 = k + 1
    BY <2>2
  <2> HIDE DEF k
  <2>5. Dealt(0) = Clamp(k, a) /\ Dealt(0)' = Clamp((k + 1), a)
    BY <2>1, <2>2, <2>3, <2>4 DEF Dealt, k
  <2>6. Dealt(1) = Clamp(k - a, b) /\ Dealt(1)' = Clamp((k + 1) - a, b)
    BY <2>1, <2>2, <2>3 DEF Dealt, k
  <2>7. Dealt(2) = Clamp(k - (a + b), c) /\ Dealt(2)' = Clamp((k + 1) - (a + b), c)
    BY <2>1, <2>2, <2>3 DEF Dealt, k
  <2> QED BY <2>5, <2>6, <2>7
<1>6. k \in Nat /\ k < a + b + c /\ i + 1 = NUMBEROFROLE + (k + 1)
  <2>1. Len(file) <= NUMBEROFROLE + (a + b + c)
    BY <1>3 DEF Total
  <2> HIDE DEF a, b, c
  <2> QED BY <1>1, <1>4, <2>1 DEF NUMBEROFROLE
<1>7. \A r \in VMs : r = 0 \/ r = 1 \/ r = 2
  BY DEF VMs, NUMBEROFROLE
<1>8. ASSUME NEW q \in VMs, NEW j \in 1..Len(data[q]), k + 1 = Before(data, q) + j
      PROVE  file[i + 1] = [vm_role |-> q, cmd |-> data[q][j]]
  <2>1. Records(data)[NUMBEROFROLE + Before(data, q) + j] = [vm_role |-> q, cmd |-> data[q][j]]
    BY <1>2, RecordsAre
  <2>2. NUMBEROFROLE + Before(data, q) + j = i + 1
    <3>1. Before(data, q) \in Nat
      BY <1>2, Befores
    <3>2. j \in Nat
      BY <1>2, TaggedType
    <3> QED BY <3>2, <1>6, <1>8, <3>1 DEF NUMBEROFROLE
  <2> QED BY <1>3, <2>1, <2>2
<1>9. 0 \in VMs /\ 1 \in VMs /\ 2 \in VMs
  BY DEF VMs, NUMBEROFROLE
<1>10. Before(data, 0) = 0 /\ Before(data, 1) = a /\ Before(data, 2) = a + b
  BY <1>2, Befores
<1>11. CASE k < a
  <2> DEFINE j == k + 1
  <2>1. j \in 1..a /\ k + 1 = Before(data, 0) + j
    <3> HIDE DEF k, a
    <3> QED BY <1>4, <1>6, <1>10, <1>11
  <2>2. file[i + 1] = [vm_role |-> 0, cmd |-> data[0][j]]
    BY <1>8, <1>9, <2>1
  <2>3. /\ Dealt(0)' = j /\ Dealt(0) = j - 1
        /\ Dealt(1)' = Dealt(1) /\ Dealt(2)' = Dealt(2)
    <3> HIDE DEF k, a, b, c
    <3> QED BY <1>4, <1>5, <1>6, <1>11
  <2> QED BY <1>7, <1>9, <2>1, <2>2, <2>3
<1>12. CASE a <= k /\ k < a + b
  <2> DEFINE j == k + 1 - a
  <2>1. j \in 1..b /\ k + 1 = Before(data, 1) + j
    <3> HIDE DEF k, a, b
    <3> QED BY <1>4, <1>6, <1>10, <1>12
  <2>2. file[i + 1] = [vm_role |-> 1, cmd |-> data[1][j]]
    BY <1>8, <1>9, <2>1
  <2>3. /\ Dealt(1)' = j /\ Dealt(1) = j - 1
        /\ Dealt(0)' = Dealt(0) /\ Dealt(2)' = Dealt(2)
    <3> HIDE DEF k, a, b, c
    <3> QED BY <1>4, <1>5, <1>6, <1>12
  <2> QED BY <1>7, <1>9, <2>1, <2>2, <2>3
<1>13. CASE a + b <= k
  <2> DEFINE j == k + 1 - (a + b)
  <2>1. j \in 1..c /\ k + 1 = Before(data, 2) + j
    <3> HIDE DEF k, a, b, c
    <3> QED BY <1>4, <1>6, <1>10, <1>13
  <2>2. file[i + 1] = [vm_role |-> 2, cmd |-> data[2][j]]
    BY <1>8, <1>9, <2>1
  <2>3. /\ Dealt(2)' = j /\ Dealt(2) = j - 1
        /\ Dealt(0)' = Dealt(0) /\ Dealt(1)' = Dealt(1)
    <3> HIDE DEF k, a, b, c
    <3> QED BY <1>4, <1>5, <1>6, <1>13
  <2> QED BY <1>7, <1>9, <2>1, <2>2, <2>3
<1>14. k < a \/ (a <= k /\ k < a + b) \/ a + b <= k
  <2> HIDE DEF k, a, b, c
  <2> QED BY <1>4, <1>6
<1> QED BY <1>11, <1>12, <1>13, <1>14

LEMMA WriteMoves ==
  ASSUME NEW s \in Seq(FileRecord), NEW t \in Seq(FileRecord), t # <<>>
  PROVE  /\ Append(s, Head(t)) \o Tail(t) = s \o t
         /\ Append(s, Head(t)) \in Seq(FileRecord) /\ Tail(t) \in Seq(FileRecord)
         /\ Len(Append(s, Head(t))) = Len(s) + 1
  OBVIOUS

(* The steps that only move the program counter, or fail. *)
LEMMA ControlStep ==
  ASSUME IInv, RefuseToWrite \/ WriterEnds \/ LoadFails \/ ReadHeaders \/ AllocateFails
                 \/ HeadersEnd \/ EndOfFile \/ UNCHANGED vars
  PROVE  IInv'
<1>1. UNCHANGED <<data, out, file, i, room, cmds>>
  BY DEF RefuseToWrite, WriterEnds, LoadFails, ReadHeaders, AllocateFails, HeadersEnd,
         EndOfFile, vars
<1>2. /\ pc' \in {"check", "write", "open", "headers", "append", "done", "exited"}
      /\ result' \in {-1, 0} /\ (pc' = "check" => pc = "check")
  BY DEF RefuseToWrite, WriterEnds, LoadFails, ReadHeaders, AllocateFails, HeadersEnd,
         EndOfFile, vars, Failure, IInv, TypeOK
<1>3. TypeOK'
  BY <1>1, <1>2 DEF IInv, TypeOK
<1>4. WriterInv'
  BY <1>1, <1>2 DEF IInv, WriterInv, Fits
<1>5. DealtInv'
  BY <1>1 DEF IInv, DealtInv, Dealt
<1>6. ReaderInv'
  <2>1. i \in Nat /\ Len(file) \in Nat
    BY DEF IInv, TypeOK
  <2> USE DEF IInv, ReaderInv, Loaded
  <2>2. CASE RefuseToWrite \/ WriterEnds
    BY <1>1, <2>1, <2>2 DEF RefuseToWrite, WriterEnds
  <2>3. CASE LoadFails
    BY <1>1, <2>1, <2>3 DEF LoadFails, Failure
  <2>4. CASE ReadHeaders \/ AllocateFails
    BY <1>1, <2>1, <2>4 DEF ReadHeaders, AllocateFails, NUMBEROFROLE
  <2>5. CASE HeadersEnd \/ EndOfFile
    BY <1>1, <2>1, <2>5 DEF HeadersEnd, EndOfFile, NUMBEROFROLE
  <2>6. CASE UNCHANGED vars
    BY <1>1, <2>6 DEF vars
  <2> QED BY <2>2, <2>3, <2>4, <2>5, <2>6
<1> QED BY <1>3, <1>4, <1>5, <1>6 DEF IInv

(* The writer. *)
LEMMA WriterStep ==
  ASSUME IInv, StartWriting \/ WriteRecord
  PROVE  IInv'
<1>1. /\ UNCHANGED <<data, i, room, cmds, result>> /\ pc' = "write" /\ pc \in {"check", "write"}
  BY DEF StartWriting, WriteRecord
<1>2. file \in Seq(FileRecord) /\ out \in Seq(FileRecord) /\ Len(file) \in Nat
  BY DEF IInv, TypeOK, FileRecord
<1>3. /\ file' \in Seq(FileRecord) /\ out' \in Seq(FileRecord)
      /\ Len(file) <= Len(file')
      /\ file' \o out' # <<>> => file' \o out' = Records(data) /\ Fits(data)
  <2>1. CASE StartWriting
    <3>1. file \o out = <<>> /\ file' = file /\ out' = Records(data) /\ Fits(data)
      BY <2>1 DEF StartWriting, IInv, WriterInv, Fits
    <3>2. file = <<>>
      <4>1. Len(file) + Len(out) = 0
        BY <1>2, <3>1, ConcatAt
      <4> QED BY <1>2, <4>1
    <3>3. Records(data) \in Seq(FileRecord)
      BY DataFacts, RecordsAre DEF IInv
    <3>4. <<>> \o Records(data) = Records(data)
      BY <3>3
    <3> QED BY <1>2, <3>1, <3>2, <3>3, <3>4
  <2>2. CASE WriteRecord
    <3>1. out # <<>> /\ file' = Append(file, Head(out)) /\ out' = Tail(out)
      BY <2>2 DEF WriteRecord
    <3>2. file' \o out' = file \o out
      BY <1>2, <3>1, WriteMoves
    <3>3. file' \in Seq(FileRecord) /\ out' \in Seq(FileRecord) /\ Len(file') = Len(file) + 1
      BY <1>2, <3>1, WriteMoves
    <3> QED BY <1>2, <3>2, <3>3 DEF IInv, WriterInv
  <2> QED BY <2>1, <2>2
<1>4. i = 0 /\ Len(file') \in Nat
  BY <1>1, <1>3 DEF IInv, ReaderInv
<1>5. TypeOK'
  BY <1>1, <1>3, <1>4 DEF IInv, TypeOK, FileRecord
<1>6. WriterInv'
  BY <1>1, <1>3 DEF IInv, WriterInv, Fits
<1>7. ReaderInv'
  BY <1>1, <1>4 DEF IInv, ReaderInv, Loaded
<1>8. DealtInv'
  BY <1>1 DEF IInv, DealtInv, Dealt
<1> QED BY <1>5, <1>6, <1>7, <1>8 DEF IInv

(* A header: its VM gets room for its list. *)
LEMMA AllocateStep ==
  ASSUME IInv, Allocate
  PROVE  IInv'
<1>1. /\ i < NUMBEROFROLE /\ i' = i + 1 /\ pc = "headers"
      /\ UNCHANGED <<pc, data, out, file, result>>
      /\ i \in VMs /\ i \in Nat
  <2>1. i \in Nat
    BY DEF IInv, TypeOK
  <2> QED BY <2>1 DEF Allocate, VMs, NUMBEROFROLE
<1>2. NUMBEROFROLE <= Len(file) /\ Len(file) \in Nat
  BY <1>1 DEF IInv, ReaderInv, TypeOK
<1>3. file[i + 1] = Header(i, Len(data[i]))
  <2>1. i + 1 \in 1..Len(file)
    BY <1>1, <1>2 DEF NUMBEROFROLE
  <2>2. Typed(data)
    BY DataFacts DEF IInv
  <2> QED BY <1>1, <2>1, <2>2, FileFacts, RecordsAre DEF IInv
<1>4. Len(data[i]) \in Nat
  BY <1>1, DataFacts DEF IInv
<1>5. \A r \in VMs : Before(data, r) \in Nat
  BY DataFacts, Befores DEF IInv
<1>6. ASSUME NEW r \in VMs PROVE Dealt(r) = 0 /\ Dealt(r)' = 0
  <2>1. Before(data, r) \in Nat /\ Before(data, r)' = Before(data, r)
    BY <1>1, <1>5 DEF Before
  <2> QED BY <1>1, <2>1 DEF Dealt, NUMBEROFROLE
<1>7. cmds = [r \in VMs |-> <<>>]
  <2>1. \A r \in VMs : [k \in 1..Dealt(r) |-> data[r][k]] = <<>>
    BY <1>6
  <2> QED BY <2>1 DEF IInv, DealtInv
<1>8. cmds' = [r \in VMs |-> [k \in 1..Dealt(r)' |-> data'[r][k]]]
  <2>1. cmds' = [cmds EXCEPT ![i] = <<>>]
    BY <1>3 DEF Allocate, Header
  <2>2. cmds' = [r \in VMs |-> <<>>]
    BY <1>1, <1>7, <2>1
  <2>3. \A r \in VMs : [k \in 1..Dealt(r)' |-> data'[r][k]] = <<>>
    BY <1>6
  <2> QED BY <2>2, <2>3
<1>9. room' = [r \in VMs |-> IF r < i + 1 THEN Len(data[r]) ELSE 0]
  <2>1. room' = [room EXCEPT ![i] = Len(data[i])]
    BY <1>3 DEF Allocate, Header
  <2>2. room = [r \in VMs |-> IF r < i THEN Len(data[r]) ELSE 0]
    BY DEF IInv, DealtInv
  <2>3. \A r \in VMs : r < i + 1 <=> r < i \/ r = i
    BY <1>1 DEF VMs, NUMBEROFROLE
  <2> QED BY <1>1, <2>1, <2>2, <2>3
<1>10. DealtInv'
  BY <1>1, <1>8, <1>9 DEF DealtInv
<1>11. TypeOK'
  <2>1. \A r \in VMs : Len(data[r]) \in Nat
    BY DataFacts DEF IInv
  <2>2. room' \in [VMs -> Nat]
    BY <1>9, <2>1
  <2>3. cmds' \in [VMs -> Seq(Command)]
    <3>1. cmds' = [cmds EXCEPT ![i] = <<>>]
      BY <1>3 DEF Allocate, Header
    <3> QED BY <1>1, <3>1 DEF IInv, TypeOK
  <2>4. i' \in 0..Len(file)
    BY <1>1, <1>2 DEF NUMBEROFROLE
  <2> QED BY <1>1, <2>2, <2>3, <2>4 DEF IInv, TypeOK
<1>12. WriterInv'
  BY <1>1 DEF IInv, WriterInv, Fits
<1>13. ReaderInv'
  BY <1>1, <1>2 DEF IInv, ReaderInv, Loaded, NUMBEROFROLE
<1> QED BY <1>10, <1>11, <1>12, <1>13 DEF IInv

(* A command: it goes to its VM, behind those that this VM has. *)
LEMMA AppendStep ==
  ASSUME IInv, AppendCommand
  PROVE  IInv'
<1>1. /\ i < Len(file) /\ i' = i + 1 /\ pc = "append" /\ NUMBEROFROLE <= i
      /\ UNCHANGED <<pc, data, out, file, room, result>>
      /\ i \in Nat /\ Len(file) \in Nat
  BY DEF AppendCommand, IInv, TypeOK, ReaderInv
<1>a. PICK q \in VMs : \E j \in 1..Len(data[q]) :
        /\ file[i + 1] = [vm_role |-> q, cmd |-> data[q][j]]
        /\ \A r \in VMs : Dealt(r)' = IF r = q THEN j ELSE Dealt(r)
        /\ Dealt(q) = j - 1
  BY NextCommand
<1>2. PICK j \in 1..Len(data[q]) :
        /\ file[i + 1] = [vm_role |-> q, cmd |-> data[q][j]]
        /\ \A r \in VMs : Dealt(r)' = IF r = q THEN j ELSE Dealt(r)
        /\ Dealt(q) = j - 1
  BY <1>a
<1>3. data[q] \in Seq(Command) /\ data[q][j] \in Command /\ j \in Nat \ {0}
  <2>1. data[q] \in Seq(Command) /\ Len(data[q]) \in Nat
    BY DataFacts DEF IInv
  <2> QED BY <2>1
<1>4. cmds' = [r \in VMs |-> IF r = q THEN Append(cmds[r], data[q][j]) ELSE cmds[r]]
  BY <1>2 DEF AppendCommand, Receives
<1>5. cmds = [r \in VMs |-> [k \in 1..Dealt(r) |-> data[r][k]]]
  BY DEF IInv, DealtInv
<1>6. Append(cmds[q], data[q][j]) = [k \in 1..j |-> data[q][k]]
  <2>1. cmds[q] = [k \in 1..(j - 1) |-> data[q][k]]
    BY <1>2, <1>5
  <2> QED BY <1>3, <2>1
<1>7. cmds' = [r \in VMs |-> [k \in 1..Dealt(r)' |-> data'[r][k]]]
  <2>1. ASSUME NEW r \in VMs
        PROVE  (IF r = q THEN Append(cmds[r], data[q][j]) ELSE cmds[r])
                 = [k \in 1..Dealt(r)' |-> data[r][k]]
    <3>1. CASE r = q
      BY <1>2, <1>6, <3>1
    <3>2. CASE r # q
      BY <1>2, <1>5, <3>2
    <3> QED BY <3>1, <3>2
  <2> QED BY <1>1, <1>4, <2>1
<1>8. room' = [r \in VMs |-> IF r < i' THEN Len(data'[r]) ELSE 0]
  <2>1. \A r \in VMs : r < i /\ r < i + 1
    BY <1>1 DEF VMs, NUMBEROFROLE
  <2>2. room = [r \in VMs |-> IF r < i THEN Len(data[r]) ELSE 0]
    BY DEF IInv, DealtInv
  <2> QED BY <1>1, <2>1, <2>2
<1>9. DealtInv'
  BY <1>7, <1>8 DEF DealtInv
<1>10. TypeOK'
  <2>1. cmds' \in [VMs -> Seq(Command)]
    <3>1. cmds \in [VMs -> Seq(Command)]
      BY DEF IInv, TypeOK
    <3>2. \A r \in VMs : Append(cmds[r], data[q][j]) \in Seq(Command)
      BY <1>3, <3>1
    <3> QED BY <1>4, <3>1, <3>2
  <2>2. i' \in 0..Len(file)
    BY <1>1
  <2> QED BY <1>1, <2>1, <2>2 DEF IInv, TypeOK
<1>11. WriterInv'
  BY <1>1 DEF IInv, WriterInv, Fits
<1>12. ReaderInv'
  BY <1>1 DEF IInv, ReaderInv, Loaded, NUMBEROFROLE
<1> QED BY <1>9, <1>10, <1>11, <1>12 DEF IInv

--------------------------------------------------------------------------------
(* The theorems.                                                           *)

(* The writer and load_commands keep their inductive invariant. *)
THEOREM Inductive == Spec => []IInv
<1>1. Init => IInv
  BY InitInv
<1>2. IInv /\ [Next]_vars => IInv'
  <2> SUFFICES ASSUME IInv, [Next]_vars PROVE IInv'
    OBVIOUS
  <2>1. CASE StartWriting \/ WriteRecord
    BY <2>1, WriterStep
  <2>2. CASE Allocate
    BY <2>2, AllocateStep
  <2>3. CASE AppendCommand
    BY <2>3, AppendStep
  <2>4. CASE \/ RefuseToWrite \/ WriterEnds \/ LoadFails \/ ReadHeaders \/ AllocateFails
             \/ HeadersEnd \/ EndOfFile \/ UNCHANGED vars
    BY <2>4, ControlStep
  <2> QED BY <2>1, <2>2, <2>3, <2>4 DEF Next, Terminated
<1> QED BY <1>1, <1>2, PTL DEF Spec

(* The variables of the writer and of load_commands keep their types. *)
THEOREM TypeCorrect == Spec => []TypeOK
<1>1. IInv => TypeOK
  BY DEF IInv
<1> QED BY <1>1, Inductive, PTL

(* load_commands never writes behind what it has allocated for a VM,       *)
(* although it does not look at the room: in a file of gen_measures, whole *)
(* or cut, no more commands of a role follow than its header announces.    *)
THEOREM NoOverrun == Spec => []WithinAllocation
<1>1. IInv => WithinAllocation
  <2> SUFFICES ASSUME IInv, NEW r \in VMs PROVE Len(cmds[r]) <= room[r]
    BY DEF WithinAllocation
  <2>1. Len(data[r]) \in Nat /\ Before(data, r) \in Nat /\ i \in Nat
    <3>1. i \in Nat
      BY DEF IInv, TypeOK
    <3>2. Typed(data) /\ Len(data[r]) \in Nat
      BY DataFacts DEF IInv
    <3> QED BY <3>1, <3>2, Befores
  <2>2. cmds[r] = [k \in 1..Dealt(r) |-> data[r][k]] /\ room[r] = IF r < i THEN Len(data[r]) ELSE 0
    BY DEF IInv, DealtInv
  <2>3. Dealt(r) \in Nat /\ Dealt(r) <= Len(data[r]) /\ (i <= NUMBEROFROLE => Dealt(r) = 0)
    <3> DEFINE n == Len(data[r])
    <3>1. n \in Nat
      BY <2>1
    <3>2. Dealt(r) = LET read == i - NUMBEROFROLE - Before(data, r)
                     IN  IF read <= 0 THEN 0 ELSE IF read <= n THEN read ELSE n
      BY DEF Dealt
    <3> HIDE DEF n
    <3>3. Dealt(r) \in Nat /\ Dealt(r) <= n /\ (i <= NUMBEROFROLE => Dealt(r) = 0)
      BY <2>1, <3>1, <3>2 DEF NUMBEROFROLE
    <3> QED BY <3>3 DEF n
  <2>4. Len(cmds[r]) = Dealt(r)
    BY <2>2, <2>3
  <2>5. r \in 0..2
    BY DEF VMs, NUMBEROFROLE
  <2> QED BY <2>1, <2>2, <2>3, <2>4, <2>5 DEF NUMBEROFROLE
<1> QED BY <1>1, Inductive, PTL

(* How far a VM's list has come. *)
LEMMA CmdsFacts ==
  ASSUME IInv, NEW r \in VMs
  PROVE  /\ data[r] \in Seq(Command) /\ Len(data[r]) \in Nat
         /\ cmds[r] \in Seq(Command)
         /\ Len(cmds[r]) \in Nat /\ Len(cmds[r]) <= Len(data[r])
         /\ \A k \in 1..Len(cmds[r]) : cmds[r][k] = data[r][k]
         /\ i = NUMBEROFROLE + Total(data) => cmds[r] = data[r]
<1>1. i \in Nat /\ cmds[r] \in Seq(Command)
  BY DEF IInv, TypeOK
<1>2. Typed(data) /\ data[r] \in Seq(Command) /\ Len(data[r]) \in Nat
  BY DataFacts DEF IInv
<1> DEFINE n == Len(data[r])
           b == Before(data, r)
           read == i - NUMBEROFROLE - b
<1>3. n \in Nat /\ b \in Nat
  BY <1>2, Befores
<1>4. Dealt(r) = IF read <= 0 THEN 0 ELSE IF read <= n THEN read ELSE n
  BY DEF Dealt
<1>5. i = NUMBEROFROLE + Total(data) => read >= n
  <2> DEFINE x == Len(data[0])
             y == Len(data[1])
             z == Len(data[2])
  <2>1. x \in Nat /\ y \in Nat /\ z \in Nat
    BY <1>2, Befores
  <2>2. \/ n = x /\ b = 0
        \/ n = y /\ b = x
        \/ n = z /\ b = x + y
    <3>1. r = 0 \/ r = 1 \/ r = 2
      BY DEF VMs, NUMBEROFROLE
    <3> QED BY <1>2, <3>1, Befores
  <2>3. Total(data) = x + y + z
    BY DEF Total
  <2> HIDE DEF n, b, x, y, z
  <2> QED BY <1>1, <1>3, <2>1, <2>2, <2>3 DEF NUMBEROFROLE
<1>6. Dealt(r) \in Nat /\ Dealt(r) <= n /\ (i = NUMBEROFROLE + Total(data) => Dealt(r) = n)
  <2> HIDE DEF n, b
  <2> QED BY <1>1, <1>3, <1>4, <1>5 DEF NUMBEROFROLE
<1>7. cmds[r] = [k \in 1..Dealt(r) |-> data[r][k]]
  BY DEF IInv, DealtInv
<1>8. Len(cmds[r]) = Dealt(r)
  BY <1>6, <1>7
<1>9. \A k \in 1..Len(cmds[r]) : cmds[r][k] = data[r][k]
  BY <1>7, <1>8
<1>10. ASSUME i = NUMBEROFROLE + Total(data) PROVE cmds[r] = data[r]
  BY <1>2, <1>6, <1>7, <1>10
<1> QED BY <1>1, <1>2, <1>6, <1>8, <1>9, <1>10

LEMMA PrefixByPoints ==
  ASSUME NEW s \in Seq(Command), NEW t \in Seq(Command), Len(s) <= Len(t),
         \A k \in 1..Len(s) : s[k] = t[k]
  PROVE  Seqs!IsPrefix(s, t)
<1>1. SubSeq(s, 1, Len(s)) = [k \in 1..Len(s) |-> s[k]]
  OBVIOUS
<1>2. SubSeq(t, 1, Len(s)) = [k \in 1..Len(s) |-> t[k]]
  OBVIOUS
<1> QED BY <1>1, <1>2 DEF Seqs!IsPrefix

(* What a VM gets is a prefix of its list in the experiment, and all of it *)
(* when the writer has come to the end of the file: then it ends with EXIT *)
(* (it is one of the lists that a VM may be given).                        *)
THEOREM LoadsWhatWasMade == Spec => []LoadedIsGenerated
<1>1. IInv => LoadedIsGenerated
  <2> SUFFICES ASSUME IInv PROVE LoadedIsGenerated
    OBVIOUS
  <2>1. \A r \in VMs : Seqs!IsPrefix(cmds[r], data[r])
    BY CmdsFacts, PrefixByPoints
  <2>2. ASSUME Loaded, out = <<>> PROVE \A r \in VMs : cmds[r] = data[r] /\ cmds[r] \in CmdLists
    <3>1. NUMBEROFROLE <= i /\ i = Len(file) /\ file \in Seq(FileRecord)
      BY <2>2 DEF IInv, ReaderInv, TypeOK, FileRecord
    <3>2. file \o out = file /\ file # <<>>
      BY <2>2, <3>1 DEF NUMBEROFROLE
    <3>3. file = Records(data)
      BY <3>2 DEF IInv, WriterInv
    <3>4. i = NUMBEROFROLE + Total(data)
      BY <3>1, <3>3, DataFacts, RecordsAre DEF IInv
    <3> QED BY <3>4, CmdsFacts, DataFacts DEF IInv
  <2> QED BY <2>1, <2>2 DEF LoadedIsGenerated
<1> QED BY <1>1, Inductive, PTL

--------------------------------------------------------------------------------
(* The size of the measures region.                                        *)

(* The commands of the given kinds among the first n, and their number. *)
OfKinds(l, n, kinds) == {k \in 1..n : l[k].cmd \in kinds}

CountOfFirst(l, n, kinds) == Cardinality(OfKinds(l, n, kinds))

LEMMA CountIs ==
  ASSUME NEW l \in Seq(Command), NEW kinds
  PROVE  Count(l, kinds) = CountOfFirst(l, Len(l), kinds)
<1>1. DOMAIN l = 1..Len(l)
  OBVIOUS
<1>2. {k \in DOMAIN l : l[k].cmd \in kinds} = OfKinds(l, Len(l), kinds)
  BY <1>1 DEF OfKinds
<1> QED BY <1>2 DEF Count, CountOfFirst

LEMMA CountSteps ==
  ASSUME NEW l \in Seq(Command), NEW kinds
  PROVE  /\ CountOfFirst(l, 0, kinds) = 0
         /\ \A n \in Nat : CountOfFirst(l, n, kinds) \in Nat
         /\ \A n \in 1..Len(l) :
              CountOfFirst(l, n, kinds)
                = CountOfFirst(l, n - 1, kinds) + (IF l[n].cmd \in kinds THEN 1 ELSE 0)
<1>1. OfKinds(l, 0, kinds) = {}
  BY DEF OfKinds
<1>2. CountOfFirst(l, 0, kinds) = 0
  BY <1>1, FS_EmptySet DEF CountOfFirst
<1>3. ASSUME NEW n \in Nat
      PROVE  IsFiniteSet(OfKinds(l, n, kinds)) /\ CountOfFirst(l, n, kinds) \in Nat
  <2>1. IsFiniteSet(1..n)
    BY FS_Interval
  <2>2. OfKinds(l, n, kinds) \subseteq 1..n
    BY DEF OfKinds
  <2>3. IsFiniteSet(OfKinds(l, n, kinds))
    BY <2>1, <2>2, FS_Subset
  <2> QED BY <2>3, FS_CardinalityType DEF CountOfFirst
<1>4. ASSUME NEW n \in 1..Len(l)
      PROVE  CountOfFirst(l, n, kinds)
               = CountOfFirst(l, n - 1, kinds) + (IF l[n].cmd \in kinds THEN 1 ELSE 0)
  <2>0. n - 1 \in Nat
    OBVIOUS
  <2>1. IsFiniteSet(OfKinds(l, n - 1, kinds)) /\ CountOfFirst(l, n - 1, kinds) \in Nat
    BY <1>3, <2>0
  <2>2. CASE l[n].cmd \in kinds
    <3>1. OfKinds(l, n, kinds) = OfKinds(l, n - 1, kinds) \cup {n}
      BY <2>2 DEF OfKinds
    <3>2. n \notin OfKinds(l, n - 1, kinds)
      BY DEF OfKinds
    <3>3. Cardinality(OfKinds(l, n - 1, kinds) \cup {n}) = Cardinality(OfKinds(l, n - 1, kinds)) + 1
      BY <2>1, <3>2, FS_AddElement
    <3> QED BY <2>2, <3>1, <3>3 DEF CountOfFirst
  <2>3. CASE l[n].cmd \notin kinds
    <3>1. OfKinds(l, n, kinds) = OfKinds(l, n - 1, kinds)
      BY <2>3 DEF OfKinds
    <3>2. CountOfFirst(l, n, kinds) = CountOfFirst(l, n - 1, kinds)
      BY <3>1 DEF CountOfFirst
    <3> QED BY <2>1, <2>3, <3>2
  <2> QED BY <2>2, <2>3
<1> QED BY <1>2, <1>3, <1>4

(* The stamps of a list whose commands are not repeated, counted by kind:  *)
(* what max_nb_of_measures counts.                                         *)
LEMMA StampsCounted ==
  ASSUME NEW l \in Seq(Command),
         \A k \in 1..Len(l) : l[k].cmd # "EXIT" => l[k].repeat = 1
  PROVE  Len(Expected(l)) = Count(l, {"MEASURE"}) + 2 * Count(l, {"READ", "WRITE"})
<1> DEFINE mes(n) == CountOfFirst(l, n, {"MEASURE"})
           acc(n) == CountOfFirst(l, n, {"READ", "WRITE"})
           len(n) == Len(StampsOfFirst(l, n))
           S == {n \in Nat : n <= Len(l) => len(n) = mes(n) + 2 * acc(n)}
<1>1. mes(0) = 0 /\ acc(0) = 0 /\ len(0) = 0
  BY CountSteps, StampsOfFirstSteps
<1>2. ASSUME NEW n \in 1..Len(l)
      PROVE  /\ mes(n) = mes(n - 1) + (IF l[n].cmd = "MEASURE" THEN 1 ELSE 0)
             /\ acc(n) = acc(n - 1) + (IF l[n].cmd \in {"READ", "WRITE"} THEN 1 ELSE 0)
             /\ len(n) = len(n - 1) + Width(l[n])
             /\ mes(n - 1) \in Nat /\ acc(n - 1) \in Nat /\ len(n - 1) \in Nat
  <2>1. n - 1 \in 0..Len(l) /\ n - 1 \in Nat /\ l[n] \in Command
    OBVIOUS
  <2>2. StampsOfFirst(l, n - 1) \in Seq(Stamp)
    BY <2>1, StampsOfFirstType
  <2>3. StampsOf(l[n]) \in Seq(Stamp) /\ Len(StampsOf(l[n])) = Width(l[n])
    BY <2>1, StampsOfType
  <2>4. StampsOfFirst(l, n) = StampsOfFirst(l, n - 1) \o StampsOf(l[n])
    BY StampsOfFirstSteps
  <2>5. Len(StampsOfFirst(l, n - 1) \o StampsOf(l[n]))
          = Len(StampsOfFirst(l, n - 1)) + Len(StampsOf(l[n]))
    BY <2>2, <2>3, ConcatType
  <2>6. len(n) = len(n - 1) + Width(l[n]) /\ len(n - 1) \in Nat
    BY <2>2, <2>3, <2>4, <2>5
  <2>7. /\ mes(n) = mes(n - 1) + (IF l[n].cmd \in {"MEASURE"} THEN 1 ELSE 0)
        /\ mes(n - 1) \in Nat
    BY <2>1, CountSteps
  <2>8. /\ acc(n) = acc(n - 1) + (IF l[n].cmd \in {"READ", "WRITE"} THEN 1 ELSE 0)
        /\ acc(n - 1) \in Nat
    BY <2>1, CountSteps
  <2> HIDE DEF mes, acc, len
  <2> QED BY <2>6, <2>7, <2>8
<1>3. ASSUME NEW n \in 1..Len(l)
      PROVE  Width(l[n]) = IF l[n].cmd = "MEASURE" THEN 1
                           ELSE IF l[n].cmd \in {"READ", "WRITE"} THEN 2 ELSE 0
  <2>1. l[n] \in Command
    OBVIOUS
  <2>2. l[n].cmd # "EXIT" => l[n].repeat = 1
    OBVIOUS
  <2> QED BY <2>1, <2>2, WidthOf
<1> HIDE DEF mes, acc, len
<1>4. 0 \in S
  BY <1>1
<1>5. ASSUME NEW n \in S PROVE n + 1 \in S
  <2> SUFFICES ASSUME n + 1 <= Len(l) PROVE len(n + 1) = mes(n + 1) + 2 * acc(n + 1)
    OBVIOUS
  <2>1. n + 1 \in 1..Len(l) /\ (n + 1) - 1 = n /\ len(n) = mes(n) + 2 * acc(n)
    OBVIOUS
  <2>2. /\ mes(n + 1) = mes(n) + (IF l[n+1].cmd = "MEASURE" THEN 1 ELSE 0)
        /\ acc(n + 1) = acc(n) + (IF l[n+1].cmd \in {"READ", "WRITE"} THEN 1 ELSE 0)
        /\ len(n + 1) = len(n) + Width(l[n+1])
        /\ mes(n) \in Nat /\ acc(n) \in Nat /\ len(n) \in Nat
    BY <1>2, <2>1
  <2>3. Width(l[n+1]) = IF l[n+1].cmd = "MEASURE" THEN 1
                        ELSE IF l[n+1].cmd \in {"READ", "WRITE"} THEN 2 ELSE 0
    BY <1>3, <2>1
  <2> QED BY <2>1, <2>2, <2>3
<1>6. S = Nat
  <2> HIDE DEF S
  <2>1. S \in SUBSET Nat
    BY DEF S
  <2> QED BY <1>4, <1>5, <2>1, NatInd
<1>7. len(Len(l)) = mes(Len(l)) + 2 * acc(Len(l))
  <2>1. Len(l) \in S
    BY <1>6
  <2> QED BY <2>1
<1>8. mes(Len(l)) = Count(l, {"MEASURE"}) /\ acc(Len(l)) = Count(l, {"READ", "WRITE"})
  BY CountIs DEF mes, acc
<1> QED BY <1>7, <1>8 DEF len, Expected

(* max_nb_of_measures bounds the count of each of the three lists. *)
LEMMA MaxBounds ==
  ASSUME NEW lists, Typed(lists), NEW r \in VMs
  PROVE  /\ Count(lists[r], {"MEASURE"}) + 2 * Count(lists[r], {"READ", "WRITE"})
              <= MaxNbOfMeasures(lists)
         /\ MaxNbOfMeasures(lists) \in Nat
<1> DEFINE nb(q) == Count(lists[q], {"MEASURE"}) + 2 * Count(lists[q], {"READ", "WRITE"})
           N == {nb(q) : q \in VMs}
<1>1. ASSUME NEW q \in VMs PROVE nb(q) \in Nat
  <2>1. lists[q] \in Seq(Command)
    BY DEF Typed
  <2>2. \A kinds : Count(lists[q], kinds) = CountOfFirst(lists[q], Len(lists[q]), kinds)
    BY <2>1, CountIs
  <2>3. ASSUME NEW kinds PROVE CountOfFirst(lists[q], Len(lists[q]), kinds) \in Nat
    <3>1. Len(lists[q]) \in Nat
      BY <2>1
    <3> QED BY <2>1, <3>1, CountSteps
  <2>4. Count(lists[q], {"MEASURE"}) \in Nat /\ Count(lists[q], {"READ", "WRITE"}) \in Nat
    BY <2>2, <2>3
  <2> QED BY <2>4
<1> HIDE DEF nb
<1>2. N = {nb(0), nb(1), nb(2)} /\ nb(0) \in Nat /\ nb(1) \in Nat /\ nb(2) \in Nat
  BY <1>1 DEF VMs, NUMBEROFROLE
<1>3. \E x \in N : \A y \in N : x >= y
  <2>1. nb(0) >= nb(1) \/ nb(1) >= nb(0)
    BY <1>2
  <2> HIDE DEF N
  <2> QED BY <1>2
<1>4. \A y \in N : Sets!Max(N) >= y
  BY <1>3 DEF Sets!Max
<1>5. MaxNbOfMeasures(lists) = Sets!Max(N)
  BY DEF MaxNbOfMeasures, nb
<1>6. nb(r) \in N
  OBVIOUS
<1>7. Sets!Max(N) \in Nat
  <2>1. Sets!Max(N) \in N
    BY <1>3 DEF Sets!Max
  <2> QED BY <1>2, <2>1
<1>8. nb(r) <= Sets!Max(N)
  BY <1>1, <1>4, <1>6, <1>7
<1> QED BY <1>5, <1>7, <1>8 DEF nb

(* When no experiment repeats a command, as those of experiments.py do not *)
(* (repeat is 1), the assertion of gen_measures keeps the stamps of every  *)
(* loaded list, cut or whole, inside the measures region.                  *)
THEOREM StampsHaveRoom ==
  ASSUME Repeat = 1
  PROVE  Spec => []MeasuresFit
<1>1. IInv => MeasuresFit
  <2> SUFFICES ASSUME IInv, Loaded, NEW r \in VMs PROVE Len(Expected(cmds[r])) <= Samples
    BY DEF MeasuresFit
  <2> DEFINE l == data[r]
             p == Len(cmds[r])
  <2>1. /\ l \in Seq(Command) /\ Len(l) \in Nat /\ cmds[r] \in Seq(Command)
        /\ p \in 0..Len(l) /\ \A k \in 1..p : cmds[r][k] = l[k]
    BY CmdsFacts
  <2>2. Expected(cmds[r]) = StampsOfFirst(l, p)
    <3>1. [k \in 1..p |-> StampsOf(cmds[r][k])] = [k \in 1..p |-> StampsOf(l[k])]
      BY <2>1
    <3> QED BY <3>1 DEF Expected, StampsOfFirst
  <2> HIDE DEF p
  <2>3. PICK rest \in Seq(Stamp) : Expected(l) = StampsOfFirst(l, p) \o rest
    <3>1. Len(l) \in p..Len(l)
      BY <2>1
    <3> QED BY <2>1, <3>1, StampsOfFirstExtend DEF Expected
  <2>4. StampsOfFirst(l, p) \in Seq(Stamp)
    BY <2>1, StampsOfFirstType
  <2>5. Len(StampsOfFirst(l, p) \o rest) = Len(StampsOfFirst(l, p)) + Len(rest)
    BY <2>4, ConcatType
  <2>6. Len(Expected(l)) <= MaxNbOfMeasures(data) /\ MaxNbOfMeasures(data) \in Nat
    <3>1. Typed(data) /\ Closed(l)
      BY DataFacts DEF IInv
    <3>2. \A k \in 1..Len(l) : l[k].cmd # "EXIT" => l[k].repeat = 1
      BY <3>1, ClosedFacts
    <3>3. Len(Expected(l)) = Count(l, {"MEASURE"}) + 2 * Count(l, {"READ", "WRITE"})
      BY <2>1, <3>2, StampsCounted
    <3> QED BY <3>1, <3>3, MaxBounds
  <2>7. MaxNbOfMeasures(data) < Samples
    <3>1. 1 \in 1..Len(file)
      <4>1. NUMBEROFROLE <= i /\ i = Len(file) /\ Len(file) \in Nat
        BY DEF IInv, ReaderInv, TypeOK
      <4> QED BY <4>1 DEF NUMBEROFROLE
    <3> QED BY <3>1, FileFacts DEF IInv, Fits
  <2>8. Len(StampsOfFirst(l, p)) \in Nat /\ Len(rest) \in Nat
    BY <2>4
  <2>9. Samples \in Nat
    BY SizesAssumption
  <2> DEFINE most == MaxNbOfMeasures(data)
             mine == Len(StampsOfFirst(l, p))
             owed == Len(rest)
  <2>10. /\ mine \in Nat /\ owed \in Nat /\ most \in Nat
         /\ mine + owed <= most /\ most < Samples
    BY <2>3, <2>5, <2>6, <2>7, <2>8
  <2> HIDE DEF most, mine, owed
  <2>11. mine <= Samples
    BY <2>9, <2>10
  <2> QED BY <2>2, <2>11 DEF mine
<1> QED BY <1>1, Inductive, PTL
================================================================================
