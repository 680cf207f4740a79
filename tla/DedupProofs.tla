------------------------------ MODULE DedupProofs ------------------------------
(***************************************************************************)
(* Proofs about the shared pages: whatever the fill has left in them, when *)
(* ksm_wait has counted as many merged pages as there are shared ones,     *)
(* each page is merged in both VMs, and the first write of a guest copies. *)
(***************************************************************************)
EXTENDS FiniteSetTheorems, FunctionTheorems, Dedup, TLAPS

--------------------------------------------------------------------------------
(* Contents and counts.                                                    *)

LEMMA PagesFinite ==
  /\ NbSharedPages \in Nat \ {0}
  /\ IsFiniteSet(Pages) /\ Cardinality(Pages) = NbSharedPages
<1>1. NbSharedPages \in Nat \ {0}
  BY PagesAssumption
<1>2. IsFiniteSet(0..(NbSharedPages - 1)) /\ Cardinality(0..(NbSharedPages - 1)) = NbSharedPages
  BY <1>1, FS_Interval
<1> QED BY <1>1, <1>2 DEF Pages

(* What a page holds as long as no guest has written to it. *)
Fill0(p) == <<Contents(p)>>

FillOf == [p \in Pages |-> Fill0(p)]

AllFills == {Fill0(p) : p \in Pages}

Held == {Holds(site) : site \in merged}

LEMMA FillsOnto == FillOf \in Surjection(Pages, AllFills)
  BY DEF FillOf, AllFills, Surjection

LEMMA Fills ==
  /\ IsFiniteSet(AllFills)
  /\ Cardinality(AllFills) \in Nat /\ Cardinality(AllFills) <= NbSharedPages
  /\ Cardinality(AllFills) = NbSharedPages => FillOf \in Injection(Pages, AllFills)
<1>1. /\ IsFiniteSet(AllFills)
      /\ Cardinality(AllFills) <= Cardinality(Pages)
      /\ Cardinality(AllFills) = Cardinality(Pages) => FillOf \in Injection(Pages, AllFills)
  BY FillsOnto, PagesFinite, FS_Surjection
<1> QED BY <1>1, PagesFinite, FS_CardinalityType

(* The merged pages hold what the fill has left. *)
LEMMA HeldFills ==
  ASSUME merged \subseteq {VICTIM, ATTACKER} \X Pages, merged \cap copied = {}
  PROVE  /\ \A site \in merged : Holds(site) = Fill0(site[2]) /\ site[2] \in Pages
         /\ Held \subseteq AllFills
<1>1. ASSUME NEW site \in merged
      PROVE  Holds(site) = Fill0(site[2]) /\ site[2] \in Pages
  <2>1. site \notin copied
    OBVIOUS
  <2>2. site[2] \in Pages
    OBVIOUS
  <2> QED BY <2>1, <2>2 DEF Holds, Fill0
<1> QED BY <1>1 DEF Held, AllFills

(* There are at most as many merged pages as shared ones. *)
LEMMA SharedBound ==
  ASSUME merged \subseteq {VICTIM, ATTACKER} \X Pages, merged \cap copied = {}
  PROVE  /\ PagesShared \in Nat /\ PagesShared <= NbSharedPages
         /\ IsFiniteSet(Held) /\ PagesShared = Cardinality(Held)
         /\ PagesShared = NbSharedPages =>
              Held = AllFills /\ FillOf \in Injection(Pages, AllFills)
<1>1. PagesShared = Cardinality(Held)
  BY DEF PagesShared, Held
<1>2. Held \in SUBSET AllFills
  BY HeldFills
<1>3. /\ IsFiniteSet(Held) /\ Cardinality(Held) <= Cardinality(AllFills)
      /\ Cardinality(AllFills) = Cardinality(Held) => AllFills = Held
  BY <1>2, Fills, FS_Subset
<1>4. Cardinality(Held) \in Nat
  BY <1>3, FS_CardinalityType
<1> QED BY <1>1, <1>3, <1>4, Fills, PagesFinite

(* As many merged pages as shared ones: each is merged in both VMs.        *)
LEMMA AllMerged ==
  ASSUME merged \subseteq {VICTIM, ATTACKER} \X Pages, MergedInv, copied = {},
         PagesShared >= NbSharedPages
  PROVE  {VICTIM, ATTACKER} \X Pages \subseteq merged
<1>1. Held = AllFills /\ FillOf \in Injection(Pages, AllFills)
  <2>1. PagesShared \in Nat /\ PagesShared <= NbSharedPages
    BY SharedBound DEF MergedInv
  <2>2. PagesShared = NbSharedPages
    BY <2>1, PagesFinite
  <2> QED BY <2>2, SharedBound DEF MergedInv
<1>2. ASSUME NEW p \in Pages, NEW q \in Pages, Contents(p) = Contents(q) PROVE p = q
  BY <1>1, <1>2 DEF Injection, IsInjective, FillOf, Fill0
<1>3. SUFFICES ASSUME NEW r \in {VICTIM, ATTACKER}, NEW p \in Pages PROVE <<r, p>> \in merged
  OBVIOUS
<1>4. PICK site \in merged : Holds(site) = Fill0(p)
  <2>1. Fill0(p) \in Held
    BY <1>1 DEF AllFills
  <2> QED BY <2>1 DEF Held
<1>5. site[2] = p
  BY <1>2, <1>4, HeldFills DEF MergedInv, Fill0
<1>6. PICK twin \in merged : twin # site /\ Contents(twin[2]) = Contents(site[2])
  BY DEF MergedInv
<1>7. twin[2] = p
  <2>1. twin[2] \in Pages
    OBVIOUS
  <2> QED BY <1>2, <1>5, <1>6, <2>1
<1>8. /\ site = <<site[1], p>> /\ site[1] \in {VICTIM, ATTACKER}
      /\ twin = <<twin[1], p>> /\ twin[1] \in {VICTIM, ATTACKER}
  BY <1>5, <1>7
<1>9. site[1] # twin[1]
  BY <1>6, <1>8
<1> QED BY <1>8, <1>9

--------------------------------------------------------------------------------
(* The inductive invariant.                                                *)

LEMMA InitInv ==
  ASSUME DedupInit
  PROVE  IInv
<1>0. NbSharedPages \in Nat \ {0} /\ UintRange \in Nat /\ UintRange > Size /\ Size \in Nat \ {0}
      /\ MaxFailures \in Nat
  BY PagesFinite, SizeAssumption, UintRangeAssumption, MaxFailuresAssumption
<1>1. DedupTypeOK
  BY <1>0 DEF DedupInit, FillInit, DedupTypeOK, FillTypeOK, NUMBEROFROLE
<1>2. StageInv /\ MergedInv /\ CountInv
  BY DEF DedupInit, StageInv, MergedInv, CountInv, GuestsRunning
<1> QED BY <1>1, <1>2 DEF IInv

LEMMA FillStepTypes ==
  ASSUME FillTypeOK, FillStep
  PROVE  FillTypeOK'
<1>0. UintRange \in Nat /\ UintRange > Size /\ Size \in Nat \ {0} /\ MaxFailures \in Nat
  BY SizeAssumption, UintRangeAssumption, MaxFailuresAssumption
<1>1. \A n \in Int : LengthAfter(n) \in 0..(UintRange - 1)
  <2>1. \A x \in Int : x % UintRange \in 0..(UintRange - 1)
    BY <1>0
  <2> QED BY <2>1 DEF FillTypeOK, LengthAfter
<1>2. CASE Fill
  <2>1. PICK n \in 1..(Size - s) : random' = random \cup 0..(n - 1) /\ s' = LengthAfter(n)
    BY <1>2 DEF Fill
  <2>2. n \in Int /\ n - 1 <= Size - 1
    BY <1>0, <2>1 DEF FillTypeOK
  <2>3. s' \in 0..(UintRange - 1)
    BY <1>1, <2>1, <2>2
  <2>4. random' \subseteq 0..(Size - 1)
    BY <1>0, <2>1, <2>2 DEF FillTypeOK
  <2> QED BY <1>2, <2>3, <2>4 DEF Fill, FillTypeOK
<1>3. CASE FillFails
  <2>1. s' \in 0..(UintRange - 1)
    BY <1>1, <1>3 DEF FillFails
  <2>2. failures' \in 0..MaxFailures
    BY <1>0, <1>3 DEF FillFails, FillTypeOK
  <2> QED BY <1>3, <2>1, <2>2 DEF FillFails, FillTypeOK
<1>4. CASE LoopEnds
  BY <1>4 DEF LoopEnds, FillTypeOK
<1> QED BY <1>2, <1>3, <1>4 DEF FillStep

(* Two sites that hold the same have not been written, or are one site. *)
LEMMA SameHolds ==
  ASSUME NEW x \in VMs \X Pages, NEW y \in VMs \X Pages, x # y, Holds(x) = Holds(y)
  PROVE  x \notin copied /\ y \notin copied /\ Contents(x[2]) = Contents(y[2])
<1>1. x = <<x[1], x[2]>> /\ y = <<y[1], y[2]>>
  OBVIOUS
<1>2. \A a, b, c : <<a, b>> # <<c>>
  OBVIOUS
<1>3. CASE x \in copied /\ y \in copied
  BY <1>3 DEF Holds
<1>4. CASE x \in copied /\ y \notin copied
  <2>1. Holds(x) = x /\ Holds(y) = <<Contents(y[2])>>
    BY <1>4 DEF Holds
  <2> QED BY <1>1, <1>2, <2>1
<1>5. CASE x \notin copied /\ y \in copied
  <2>1. Holds(y) = y /\ Holds(x) = <<Contents(x[2])>>
    BY <1>5 DEF Holds
  <2> QED BY <1>1, <1>2, <2>1
<1>6. CASE x \notin copied /\ y \notin copied
  BY <1>6 DEF Holds
<1> QED BY <1>3, <1>4, <1>5, <1>6

(* The count does not fall as long as nobody writes. *)
LEMMA SharedGrows ==
  ASSUME merged \subseteq {VICTIM, ATTACKER} \X Pages, merged \cap copied = {},
         (merged \subseteq {VICTIM, ATTACKER} \X Pages)', (merged \cap copied = {})',
         merged \subseteq merged', copied' = copied, random' = random
  PROVE  PagesShared <= PagesShared'
<1>1. Held \subseteq Held'
  BY DEF Held, Holds, Contents
<1>2. IsFiniteSet(Held)' /\ PagesShared' = Cardinality(Held)' /\ PagesShared = Cardinality(Held)
  <2>1. PagesShared = Cardinality(Held) /\ PagesShared' = Cardinality(Held)'
    BY DEF PagesShared, Held
  <2>2. Held' \subseteq AllFills'
    <3>1. ASSUME NEW site \in merged' PROVE Holds(site)' \in AllFills'
      <4>1. site \notin copied' /\ site[2] \in Pages
        OBVIOUS
      <4> QED BY <4>1 DEF Holds, AllFills, Fill0
    <3> QED BY <3>1 DEF Held
  <2>3. AllFills' = AllFills
    BY DEF AllFills, Fill0, Contents
  <2>4. IsFiniteSet(Held')
    <3>1. Held' \in SUBSET AllFills
      BY <2>2, <2>3
    <3> QED BY <3>1, Fills, FS_Subset
  <2> QED BY <2>1, <2>4
<1>3. Cardinality(Held) <= Cardinality(Held')
  <2>1. Held \in SUBSET Held'
    BY <1>1
  <2> QED BY <1>2, <2>1, FS_Subset
<1> QED BY <1>2, <1>3

LEMMA MergeStep ==
  ASSUME IInv, KsmMerges
  PROVE  IInv'
<1>1. PICK site \in (VMs \X Pages) \ merged, twin \in VMs \X Pages :
        /\ site # twin
        /\ Mergeable(site[1]) /\ Mergeable(twin[1])
        /\ Holds(site) = Holds(twin)
        /\ merged' = merged \cup {site, twin}
  BY DEF KsmMerges
<1>2. UNCHANGED <<fillvars, created, tm, nb_sp, printed, copied>>
  BY DEF KsmMerges
<1>3. site \notin copied /\ twin \notin copied /\ Contents(site[2]) = Contents(twin[2])
  BY <1>1, SameHolds
<1>4. merged' \subseteq {VICTIM, ATTACKER} \X Pages /\ merged' \cap copied = {}
  <2>1. {site, twin} \subseteq {VICTIM, ATTACKER} \X Pages
    BY <1>1 DEF Mergeable, VMs, VICTIM, ATTACKER, DEFENDER, NUMBEROFROLE
  <2> QED BY <1>1, <1>3, <2>1 DEF IInv, DedupTypeOK, MergedInv
<1>5. DedupTypeOK'
  BY <1>2, <1>4 DEF IInv, DedupTypeOK, FillTypeOK, fillvars
<1>6. StageInv'
  <2>1. created # 0
    BY <1>1 DEF Mergeable, VMs, NUMBEROFROLE
  <2> QED BY <1>2, <2>1 DEF IInv, StageInv, fillvars
<1>7. \A p : Contents(p)' = Contents(p)
  BY <1>2 DEF Contents, fillvars
<1>8. MergedInv'
  <2> SUFFICES ASSUME copied = {}, NEW x \in merged'
               PROVE  \E y \in merged' : y # x /\ Contents(y[2]) = Contents(x[2])
    BY <1>2, <1>4, <1>7 DEF MergedInv
  <2>1. CASE x \in merged
    <3>1. PICK y \in merged : y # x /\ Contents(y[2]) = Contents(x[2])
      BY <2>1 DEF IInv, MergedInv
    <3> QED BY <1>1, <3>1
  <2>2. CASE x = site \/ x = twin
    BY <1>1, <1>3, <2>2
  <2> QED BY <1>1, <2>1, <2>2
<1>9. CountInv'
  <2>1. PagesShared <= PagesShared'
    BY <1>1, <1>2, <1>4, SharedGrows DEF IInv, DedupTypeOK, MergedInv, fillvars
  <2>2. PagesShared \in Nat /\ PagesShared' \in Nat
    <3>1. PagesShared \in Nat
      BY SharedBound DEF IInv, DedupTypeOK, MergedInv
    <3>2. IsFiniteSet({Holds(x) : x \in merged}')
      <4>1. {Holds(x) : x \in merged}' \in SUBSET AllFills
        <5>1. ASSUME NEW x \in merged' PROVE Holds(x)' \in AllFills
          <6>1. x \notin copied' /\ x[2] \in Pages
            BY <1>2, <1>4
          <6> QED BY <1>7, <6>1 DEF Holds, AllFills, Fill0
        <5> QED BY <5>1
      <4> QED BY <4>1, Fills, FS_Subset
    <3>3. PagesShared' \in Nat
      BY <3>2, FS_CardinalityType DEF PagesShared
    <3> QED BY <3>1, <3>3
  <2>3. nb_sp \in Nat
    BY DEF IInv, DedupTypeOK
  <2>4. (tm \in {"sharing", "test"})' => nb_sp' <= PagesShared'
    BY <1>2, <2>1, <2>2, <2>3 DEF IInv, CountInv
  <2>5. (tm \in GuestsRunning)' => {VICTIM, ATTACKER} \X Pages \subseteq merged' \cup copied'
    BY <1>1, <1>2 DEF IInv, CountInv, GuestsRunning
  <2>6. ~(tm = "printing" /\ copied = {})
    <3>1. site \in {VICTIM, ATTACKER} \X Pages
      BY <1>1, <1>4
    <3> QED BY <1>1, <3>1 DEF IInv, CountInv, GuestsRunning
  <2> QED BY <1>2, <2>4, <2>5, <2>6 DEF CountInv
<1> QED BY <1>5, <1>6, <1>8, <1>9 DEF IInv

LEMMA FillPhase ==
  ASSUME IInv, FillShared
  PROVE  IInv'
<1>1. pc = "loop"
  BY DEF FillShared, FillStep, Fill, FillFails, LoopEnds, InLoop
<1>2. created = 0 /\ merged = {} /\ tm = "absent" /\ copied = {}
  <2>1. created = 0
    <3>1. created \in 0..NUMBEROFROLE /\ ~(created > 0)
      BY <1>1 DEF IInv, DedupTypeOK, StageInv
    <3> QED BY <3>1 DEF NUMBEROFROLE
  <2>2. tm = "absent"
    BY <2>1 DEF IInv, StageInv, NUMBEROFROLE
  <2> QED BY <2>1, <2>2 DEF IInv, StageInv, GuestsRunning
<1>3. UNCHANGED ksmvars
  BY DEF FillShared
<1>4. FillTypeOK'
  BY FillStepTypes DEF FillShared, IInv, DedupTypeOK
<1>5. DedupTypeOK'
  BY <1>3, <1>4 DEF IInv, DedupTypeOK, ksmvars
<1>6. StageInv' /\ MergedInv' /\ CountInv'
  BY <1>2, <1>3 DEF StageInv, MergedInv, CountInv, ksmvars, GuestsRunning
<1> QED BY <1>5, <1>6 DEF IInv

(* A step that neither merges nor writes keeps the contents and the count. *)
LEMMA SameCount ==
  ASSUME UNCHANGED <<fillvars, merged, copied>>
  PROVE  /\ PagesShared' = PagesShared
         /\ MergedInv => MergedInv'
<1>1. /\ \A p : Contents(p)' = Contents(p)
      /\ merged' = merged /\ copied' = copied
  BY DEF fillvars, Contents
<1>2. PagesShared' = PagesShared
  BY <1>1 DEF PagesShared, Holds
<1>3. MergedInv => MergedInv'
  BY <1>1 DEF MergedInv
<1> QED BY <1>2, <1>3

LEMMA MainStep ==
  ASSUME IInv, CreateVm \/ CreateTimeMaster
  PROVE  IInv'
<1>1. /\ UNCHANGED <<fillvars, nb_sp, printed, merged, copied>>
      /\ pc' = pc
  BY DEF CreateVm, CreateTimeMaster, fillvars
<1>2. FillTypeOK'
  BY <1>1 DEF IInv, DedupTypeOK, FillTypeOK, fillvars
<1>3. CASE CreateVm
  <2>1. created' \in 1..NUMBEROFROLE /\ tm' = tm /\ pc = "done"
    BY <1>3 DEF CreateVm, IInv, DedupTypeOK, NUMBEROFROLE
  <2>2. tm = "absent"
    BY <1>3 DEF CreateVm, IInv, StageInv, DedupTypeOK, NUMBEROFROLE
  <2>3. DedupTypeOK'
    BY <1>1, <1>2, <2>1 DEF IInv, DedupTypeOK, NUMBEROFROLE
  <2>4. StageInv'
    BY <1>1, <2>1, <2>2 DEF IInv, StageInv, NUMBEROFROLE
  <2>5. CountInv'
    BY <2>1, <2>2 DEF CountInv, GuestsRunning
  <2> QED BY <1>1, <2>3, <2>4, <2>5, SameCount DEF IInv
<1>4. CASE CreateTimeMaster
  <2>1. created = NUMBEROFROLE /\ created' = created /\ tm = "absent" /\ tm' = "read"
    BY <1>4 DEF CreateTimeMaster
  <2>2. DedupTypeOK'
    BY <1>1, <1>2, <2>1 DEF IInv, DedupTypeOK
  <2>3. StageInv'
    BY <1>1, <2>1 DEF IInv, StageInv, GuestsRunning
  <2>4. CountInv'
    BY <2>1 DEF CountInv, GuestsRunning
  <2> QED BY <1>1, <2>2, <2>3, <2>4, SameCount DEF IInv
<1> QED BY <1>3, <1>4

LEMMA TimeMasterStep ==
  ASSUME IInv, TimeMaster \/ Prints
  PROVE  IInv'
<1>1. UNCHANGED <<fillvars, created, merged, copied>>
  BY DEF TimeMaster, ReadShared, ReadSharing, WaitOn, WaitEnds, Prints, StartPrint, EndPrint
<1>2. /\ FillTypeOK' /\ pc' = pc
      /\ created' = created /\ merged' = merged /\ copied' = copied
  BY <1>1 DEF IInv, DedupTypeOK, FillTypeOK, fillvars
<1>3. PagesShared' = PagesShared /\ MergedInv'
  BY <1>1, SameCount DEF IInv
<1>4. /\ PagesShared \in 0..NbSharedPages /\ NbSharedPages \in Nat
      /\ nb_sp \in 0..NbSharedPages
      /\ 0..NbSharedPages \subseteq 0..(2 * NbSharedPages)
  <2>1. PagesShared \in Nat /\ PagesShared <= NbSharedPages
    BY SharedBound DEF IInv, DedupTypeOK, MergedInv
  <2> QED BY <2>1, PagesFinite DEF IInv, DedupTypeOK
<1>5. tm # "absent" /\ tm' \in {"read", "sharing", "test"} \cup GuestsRunning
  BY DEF TimeMaster, ReadShared, ReadSharing, WaitOn, WaitEnds, Prints, StartPrint, EndPrint,
         GuestsRunning
<1>6. StageInv'
  <2>1. tm \in GuestsRunning => tm' \in GuestsRunning
    BY DEF TimeMaster, ReadShared, ReadSharing, WaitOn, WaitEnds, Prints, StartPrint, EndPrint,
           GuestsRunning
  <2> QED BY <1>2, <1>5, <2>1 DEF IInv, StageInv
<1>7. CASE ReadShared
  <2>1. nb_sp' = PagesShared /\ printed' = printed /\ tm' = "sharing"
    BY <1>7 DEF ReadShared
  <2>2. DedupTypeOK'
    BY <1>2, <1>4, <1>5, <2>1 DEF IInv, DedupTypeOK
  <2>3. CountInv'
    BY <1>3, <1>4, <2>1 DEF CountInv, GuestsRunning
  <2> QED BY <1>3, <1>6, <2>2, <2>3 DEF IInv
<1>8. CASE ReadSharing
  <2>1. nb_sp' = nb_sp /\ tm = "sharing" /\ tm' = "test"
    BY <1>8 DEF ReadSharing
  <2>2. printed' = printed \/ printed' = [shared |-> nb_sp, sharing |-> PagesShared]
    BY <1>8 DEF ReadSharing, ksm_sharing_pages
  <2>3. {printed.shared, printed.sharing}' \subseteq {NotPrinted} \cup 0..(2 * NbSharedPages)
    BY <1>4, <2>2 DEF IInv, DedupTypeOK
  <2>4. DedupTypeOK'
    BY <1>2, <1>5, <2>1, <2>3 DEF IInv, DedupTypeOK
  <2>5. CountInv'
    BY <1>3, <2>1 DEF IInv, CountInv, GuestsRunning
  <2> QED BY <1>3, <1>6, <2>4, <2>5 DEF IInv
<1>9. CASE WaitOn
  <2>1. nb_sp' = nb_sp /\ printed' = printed /\ tm' = "read"
    BY <1>9 DEF WaitOn
  <2>2. DedupTypeOK'
    BY <1>2, <1>5, <2>1 DEF IInv, DedupTypeOK
  <2> QED BY <1>3, <1>6, <2>1, <2>2 DEF IInv, CountInv, GuestsRunning
<1>10. CASE WaitEnds
  <2>1. nb_sp' = nb_sp /\ printed' = printed /\ tm' = "running"
    BY <1>10 DEF WaitEnds
  <2>2. DedupTypeOK'
    BY <1>2, <1>5, <2>1 DEF IInv, DedupTypeOK
  <2>3. PagesShared >= NbSharedPages
    BY <1>4, <1>10 DEF WaitEnds, EnoughShared, IInv, CountInv
  <2>4. copied = {}
    BY <1>10 DEF WaitEnds, IInv, StageInv, GuestsRunning
  <2>5. {VICTIM, ATTACKER} \X Pages \subseteq merged
    BY <2>3, <2>4, AllMerged DEF IInv, DedupTypeOK
  <2> QED BY <1>2, <1>3, <1>6, <2>1, <2>2, <2>5 DEF IInv, CountInv
<1>11. CASE StartPrint
  <2>1. /\ nb_sp' = PagesShared /\ printed' = printed
        /\ tm' = "printing" /\ tm \in GuestsRunning
    BY <1>11 DEF StartPrint, GuestsRunning
  <2>2. DedupTypeOK'
    BY <1>2, <1>4, <1>5, <2>1 DEF IInv, DedupTypeOK
  <2> QED BY <1>2, <1>3, <1>6, <2>1, <2>2 DEF IInv, CountInv
<1>12. CASE EndPrint
  <2>1. nb_sp' = nb_sp /\ tm' = "running" /\ tm \in GuestsRunning
    BY <1>12 DEF EndPrint, GuestsRunning
  <2>2. \/ printed' = [shared |-> nb_sp, sharing |-> PagesShared]
        \/ printed' = [shared |-> PagesShared, sharing |-> nb_sp]
    BY <1>12 DEF EndPrint, ksm_sharing_pages
  <2>3. {printed.shared, printed.sharing}' \subseteq {NotPrinted} \cup 0..(2 * NbSharedPages)
    BY <1>4, <2>2
  <2>4. DedupTypeOK'
    BY <1>2, <1>5, <2>1, <2>3 DEF IInv, DedupTypeOK
  <2> QED BY <1>2, <1>3, <1>6, <2>1, <2>4 DEF IInv, CountInv
<1> QED BY <1>7, <1>8, <1>9, <1>10, <1>11, <1>12 DEF TimeMaster, Prints

LEMMA GuestStep ==
  ASSUME IInv, NEW r \in VMs, NEW p \in Pages, GuestWrites(r, p)
  PROVE  IInv' /\ <<r, p>> \in merged
<1>1. /\ UNCHANGED <<fillvars, created, tm, nb_sp, printed>>
      /\ tm \in GuestsRunning /\ pc' = pc
      /\ copied' = copied \cup {<<r, p>>} /\ merged' = merged \ {<<r, p>>}
  BY DEF GuestWrites, fillvars
<1>2. <<r, p>> \in {VICTIM, ATTACKER} \X Pages /\ <<r, p>> \notin copied
  BY DEF GuestWrites, VMs, VICTIM, ATTACKER, DEFENDER, NUMBEROFROLE
<1>3. <<r, p>> \in merged
  BY <1>1, <1>2 DEF IInv, CountInv
<1>4. FillTypeOK'
  BY <1>1 DEF IInv, DedupTypeOK, FillTypeOK, fillvars
<1>5. DedupTypeOK'
  BY <1>1, <1>2, <1>4 DEF IInv, DedupTypeOK
<1>6. StageInv'
  BY <1>1 DEF IInv, StageInv, DedupTypeOK, NUMBEROFROLE
<1>7. MergedInv'
  BY <1>1 DEF IInv, MergedInv
<1>8. CountInv'
  BY <1>1 DEF IInv, CountInv, GuestsRunning
<1> QED BY <1>3, <1>5, <1>6, <1>7, <1>8 DEF IInv

LEMMA StepInv ==
  ASSUME IInv, [Next]_vars
  PROVE  IInv'
<1>1. CASE UNCHANGED vars
  <2>1. UNCHANGED <<fillvars, created, tm, nb_sp, printed, merged, copied>>
    BY <1>1 DEF vars, ksmvars
  <2>2. PagesShared' = PagesShared /\ MergedInv'
    BY <2>1, SameCount DEF IInv
  <2> QED BY <2>1, <2>2 DEF IInv, DedupTypeOK, FillTypeOK, StageInv, CountInv, fillvars
<1>2. CASE KsmMerges
  BY <1>2, MergeStep
<1>3. CASE \E r \in VMs, p \in Pages : GuestWrites(r, p)
  BY <1>3, GuestStep
<1> QED BY <1>1, <1>2, <1>3, FillPhase, MainStep, TimeMasterStep DEF Next

--------------------------------------------------------------------------------
(* The theorems.                                                           *)

(***************************************************************************)
(* The fill precedes the VMs, the wait and the writes; until a guest       *)
(* writes no site is merged alone; and when the guests run each of the     *)
(* sites that may be merged has been.                                      *)
(***************************************************************************)
THEOREM Inductive == Spec => []IInv
<1>1. DedupInit => IInv
  BY InitInv
<1>2. IInv /\ [Next]_vars => IInv'
  BY StepInv
<1> QED BY <1>1, <1>2, PTL DEF Spec

(***************************************************************************)
(* The counts of KSM stay within the shared pages, and the region of the   *)
(* defender, which main does not make mergeable, is never merged.          *)
(***************************************************************************)
THEOREM TypeCorrect == Spec => []DedupTypeOK
<1>1. IInv => DedupTypeOK
  BY DEF IInv
<1> QED BY <1>1, Inductive, PTL

(***************************************************************************)
(* The first write of a VM to a shared page pays for a copy, for any       *)
(* number of pages, whatever the fill has left in them, and in whatever    *)
(* order ksmd finds the twins: ksm_wait goes by a number only.             *)
(***************************************************************************)
THEOREM FirstWritesCopy == Spec => FirstWriteCopies
<1> DEFINE Copies == \A site \in VMs \X Pages :
                       site \notin copied /\ site \in copied' => site \in merged
<1>1. IInv /\ [Next]_vars => [Copies]_vars
  <2> SUFFICES ASSUME IInv, [Next]_vars PROVE Copies
    OBVIOUS
  <2>1. CASE copied' = copied
    BY <2>1
  <2>2. CASE \E r \in VMs, p \in Pages : GuestWrites(r, p)
    <3>1. PICK r \in VMs, p \in Pages : GuestWrites(r, p)
      BY <2>2
    <3>2. copied' = copied \cup {<<r, p>>}
      BY <3>1 DEF GuestWrites
    <3> QED BY <3>1, <3>2, GuestStep
  <2> QED BY <2>1, <2>2
          DEF Next, vars, ksmvars, FillShared, CreateVm, CreateTimeMaster, KsmMerges,
              TimeMaster, ReadShared, ReadSharing, WaitOn, WaitEnds,
              Prints, StartPrint, EndPrint
<1> QED BY <1>1, Inductive, PTL DEF Spec, FirstWriteCopies

--------------------------------------------------------------------------------
(* What ksm_wait prints as "sharing".                                      *)

(* After a whole fill each page holds random data of its own. *)
LEMMA FilledContents ==
  ASSUME Filled, NEW p \in Pages
  PROVE  Contents(p) = p
<1> DEFINE N == NbSharedPages
           U == UnitsPerPage
<1>1. N \in Nat \ {0} /\ U \in Nat \ {0} /\ Size = N * U
  BY PagesAssumption
<1>2. p \in Nat /\ p + 1 <= N
  BY <1>1 DEF Pages
<1> HIDE DEF N, U
<1>3. p * U \in Nat /\ p * U + U <= N * U
  BY <1>1, <1>2, SMT
<1>4. (p * U) \div U = p
  BY <1>1, <1>2, SMT
<1>5. p * U \in random
  BY <1>1, <1>3 DEF Filled
<1> QED BY <1>4, <1>5 DEF Contents, U

(* No page is merged in one VM only, so that each counts for two sites. *)
LEMMA TwoSites ==
  ASSUME IInv, Filled, copied = {}
  PROVE  PagesSharing = PagesShared
<1> DEFINE P == {site[2] : site \in merged}
           f == [p \in P |-> Fill0(p)]
           R == {VICTIM, ATTACKER}
<1>1. /\ merged \subseteq R \X Pages
      /\ \A site \in merged :
           \E twin \in merged : twin # site /\ Contents(twin[2]) = Contents(site[2])
      /\ \A site \in merged : Holds(site) = Fill0(site[2])
  BY HeldFills DEF IInv, DedupTypeOK, MergedInv
<1>2. P \in SUBSET Pages
  BY <1>1
<1>3. merged = R \X P
  <2>1. merged \subseteq R \X P
    BY <1>1
  <2>2. ASSUME NEW r \in R, NEW p \in P PROVE <<r, p>> \in merged
    <3>1. PICK site \in merged : site[2] = p
      BY <2>2
    <3>2. PICK twin \in merged : twin # site /\ Contents(twin[2]) = Contents(site[2])
      BY <1>1
    <3>3. site[2] \in Pages /\ twin[2] \in Pages
      BY <1>1
    <3>4. twin[2] = p
      BY <3>1, <3>2, <3>3, FilledContents
    <3>5. /\ site = <<site[1], p>> /\ site[1] \in R
          /\ twin = <<twin[1], p>> /\ twin[1] \in R
      BY <1>1, <3>1, <3>4
    <3> QED BY <3>2, <3>5
  <2> QED BY <2>1, <2>2
<1>4. f \in Bijection(P, Held)
  <2>1. ASSUME NEW p \in P PROVE Fill0(p) \in Held
    <3>1. PICK site \in merged : site[2] = p
      BY <2>1
    <3> QED BY <1>1, <3>1 DEF Held
  <2>2. ASSUME NEW h \in Held PROVE \E p \in P : f[p] = h
    <3>1. PICK site \in merged : Holds(site) = h
      BY <2>2 DEF Held
    <3> QED BY <1>1, <3>1
  <2>3. ASSUME NEW p \in P, NEW q \in P, f[p] = f[q] PROVE p = q
    <3>1. Fill0(p) = <<p>> /\ Fill0(q) = <<q>>
      BY <1>2, FilledContents DEF Fill0
    <3> QED BY <2>3, <3>1
  <2>4. f \in [P -> Held]
    BY <2>1
  <2> HIDE DEF f
  <2> QED BY <2>2, <2>3, <2>4, Fun_IsBij
<1> HIDE DEF P, f
<1>5. /\ IsFiniteSet(P) /\ Cardinality(P) \in Nat
      /\ Cardinality(Held) = Cardinality(P)
  <2>1. IsFiniteSet(P)
    BY <1>2, PagesFinite, FS_Subset
  <2>2. ExistsBijection(P, Held)
    BY <1>4 DEF ExistsBijection
  <2> QED BY <2>1, <2>2, FS_Bijection, FS_CardinalityType
<1>6. IsFiniteSet(R) /\ Cardinality(R) = 2
  <2>1. IsFiniteSet({VICTIM}) /\ Cardinality({VICTIM}) = 1
    BY FS_Singleton
  <2>2. R = {VICTIM} \cup {ATTACKER} /\ ATTACKER \notin {VICTIM}
    BY DEF VICTIM, ATTACKER
  <2> HIDE DEF R
  <2> QED BY <2>1, <2>2, FS_AddElement
<1> HIDE DEF R
<1>7. Cardinality(merged) = 2 * Cardinality(P)
  BY <1>3, <1>5, <1>6, FS_Product
<1>8. PagesShared = Cardinality(P)
  BY <1>5 DEF PagesShared, Held
<1> QED BY <1>5, <1>7, <1>8 DEF PagesSharing

(***************************************************************************)
(* The "sharing" that ksm_wait and time_master print comes from the file   *)
(* of the shared pages; after a whole fill, and as long as no guest has    *)
(* written, it is what the right file would have given.                    *)
(***************************************************************************)
THEOREM SharingIsRight == Spec => SharingRightUntilCopied
<1> DEFINE Right == printed' # printed /\ Filled /\ copied = {} => printed'.sharing = PagesSharing
<1>1. IInv /\ [Next]_vars => [Right]_vars
  <2> SUFFICES ASSUME IInv, [Next]_vars, printed' # printed, Filled, copied = {}
               PROVE  printed'.sharing = PagesSharing
    OBVIOUS
  <2>1. PagesSharing = PagesShared
    BY TwoSites
  <2>2. ReadSharing \/ EndPrint
    BY DEF Next, vars, ksmvars, FillShared, CreateVm, CreateTimeMaster, KsmMerges,
           TimeMaster, ReadShared, WaitOn, WaitEnds, Prints, StartPrint, GuestWrites
  <2>3. CASE ReadSharing
    BY <2>1, <2>3 DEF ReadSharing, ksm_sharing_pages
  <2>4. CASE EndPrint
    <3>1. nb_sp = PagesShared
      BY <2>4 DEF EndPrint, IInv, CountInv
    <3> QED BY <2>1, <2>4, <3>1 DEF EndPrint, ksm_sharing_pages
  <2> QED BY <2>2, <2>3, <2>4
<1> QED BY <1>1, Inductive, PTL DEF Spec, SharingRightUntilCopied
================================================================================
