------------------------------- MODULE MemoryMap --------------------------------
(***************************************************************************)
(* The memory of a VM: the regions of common/common.h laid out one behind  *)
(* the other, the page tables that init_pages_tables writes, the memory    *)
(* slots and the assertions of vm_init, and where the accesses of a guest  *)
(* then go.  The vcpu walks the tables from cr3 = VM_MEM_PT_ADDR through   *)
(* the slot of the page tables (external); every entry is present and      *)
(* writable, or zero.                                                      *)
(*                                                                         *)
(* Entries and regions are counted in pages, accesses in bytes.  A page    *)
(* holds Entries words of AccessWidth bytes (512 of 8 in the code).        *)
(***************************************************************************)
EXTENDS ScaCommands

CONSTANTS
  Entries,        (* words in a page, entries in a page table  *)
  AccessWidth,    (* sizeof(uint64_t)                          *)
  NbPd,           (* NB_PT_PD_PAGES                            *)
  RunPages,       (* VM_MEM_RUN_SIZE, in pages                 *)
  ExitCodeAddr,   (* VM_EXIT_RETURN_CODE_ADDR                  *)
  NbSamples, NbOwnPages, NbSharedPages

PageBytes == Entries * AccessWidth

Region == {"RUN", "MMIO", "PT", "MEASURES", "OWN", "SHARED"}

(* The mutant: a last page that is not full is forgotten. *)
MeasuresPagesDown == NbSamples \div Entries

MeasuresPages == (NbSamples + Entries - 1) \div Entries

(* The page of the region of the page tables where the PT entries begin. *)
PteOverPd == 1 + NbPd

PtePage == 3 + NbPd

(* The mutant: the page that stays free behind the directories is left out. *)
PtPagesWithoutFree == 1 + 1 + NbPd + NbPd * Entries

PtPages == 1 + 1 + NbPd + NbPd * Entries + 1

(* VM_MEM_..._ADDR: each region begins where the one before it ends. *)
MmioAddr     == RunPages
PtAddr       == MmioAddr + 1
MeasuresAddr == PtAddr + PtPages
OwnAddr      == MeasuresAddr + MeasuresPages
SharedAddr   == OwnAddr + NbOwnPages

Base == [RUN |-> 0, MMIO |-> MmioAddr, PT |-> PtAddr,
         MEASURES |-> MeasuresAddr, OWN |-> OwnAddr, SHARED |-> SharedAddr]

Size == [RUN |-> RunPages, MMIO |-> 1, PT |-> PtPages,
         MEASURES |-> MeasuresPages, OWN |-> NbOwnPages, SHARED |-> NbSharedPages]

PagesOf(region) == Base[region] .. (Base[region] + Size[region] - 1)

BytesOf(region) ==
  (Base[region] * PageBytes) .. ((Base[region] + Size[region]) * PageBytes - 1)

(* The pages that the PT entries of NbPd directories map: 4 GiB. *)
Limit == NbPd * Entries * Entries

ASSUME SizesAssumption ==
  /\ {Entries, AccessWidth, NbPd, RunPages, NbSamples, NbOwnPages, NbSharedPages}
       \subseteq Nat \ {0}
  /\ Entries >= 4 /\ NbPd <= Entries
  /\ ExitCodeAddr \in 0..(RunPages * PageBytes - AccessWidth)

ASSUME LayoutFits == SharedAddr + NbSharedPages <= Limit

VARIABLES
  role,     (* vm->vm_role                                            *)
  pc,       (* where vm_init is; "run": the guest runs                *)
  level, i, (* the loop of init_pages_tables, and its counter         *)
  table,    (* the words written from the base of the page tables on, *)
            (* beyond the end of their region if it comes to that     *)
  slot,     (* the number of the slot that is set next                *)
  slots,    (* the regions whose memory slot KVM has accepted         *)
  access    (* the last access of the guest                           *)

vars == <<role, pc, level, i, table, slot, slots, access>>

(* An entry that is still zero. *)
NotPresent == -1

NoAccess == [by |-> "nobody", region |-> "RUN", at |-> 0, write |-> FALSE]

Levels == 1..4

Init ==
  /\ role \in Role
  /\ pc = "tables"
  /\ level = 1 /\ i = 0
  /\ table = [w \in 0..(PtPages * Entries - 1) |-> NotPresent]
  /\ slot = 0 /\ slots = {}
  /\ access = NoAccess

--------------------------------------------------------------------------------
(* init_pages_tables: of PML4, PDPT, PD and PT, how many entries are       *)
(* written, the page of the region where the first stands, and the page it *)
(* points to.                                                              *)

Count == <<1, NbPd, NbPd * Entries, NbPd * Entries * Entries>>

FirstPage == <<0, 1, 2, PtePage>>

PointsTo == <<PtAddr + 1, PtAddr + 2, PtAddr + 3 + NbPd, 0>>

(* The mutant: one PDPT entry less. *)
MoreEntriesButLastPd == i < Count[level] - (IF level = 2 THEN 1 ELSE 0)

MoreEntries == i < Count[level]

WriteEntry ==
  /\ pc = "tables"
  /\ MoreEntries
  /\ LET word == FirstPage[level] * Entries + i
     IN table' = [w \in DOMAIN table \cup {word} |->
                    IF w = word THEN PointsTo[level] + i ELSE table[w]]
  /\ i' = i + 1
  /\ UNCHANGED <<role, pc, level, slot, slots, access>>

LevelDone ==
  /\ pc = "tables"
  /\ ~MoreEntries
  /\ i' = 0
  /\ IF level < 4
     THEN level' = level + 1 /\ UNCHANGED pc
     ELSE pc' = "slots" /\ UNCHANGED level
  /\ UNCHANGED <<role, table, slot, slots, access>>

--------------------------------------------------------------------------------
(* The memory slots                                                        *)

SlotRegion == <<"RUN", "MMIO", "PT", "MEASURES", "OWN", "SHARED">>

(* The regions that a role has a slot for. *)
SlotsOf(r) == IF r = DEFENDER THEN Region \ {"SHARED"} ELSE Region

(* A slot that KVM refuses is reported, and vm_init goes on. *)
SetSlot ==
  /\ pc = "slots"
  /\ slot < Len(SlotRegion)
  /\ LET region == SlotRegion[slot + 1]
     IN slots' \in {slots} \cup {slots \cup ({region} \cap SlotsOf(role))}
  /\ slot' = slot + 1
  /\ UNCHANGED <<role, pc, level, i, table, access>>

SlotsDone ==
  /\ pc = "slots"
  /\ slot = Len(SlotRegion)
  /\ pc' = "asserts"
  /\ UNCHANGED <<role, level, i, table, slot, slots, access>>

--------------------------------------------------------------------------------
(* Translation, and the assertions at the end of vm_init                   *)

(* Long mode: four levels, the first at cr3. *)
Cr3 == PtAddr

(* The entry that the walk of the vcpu reads from a page of guest memory. *)
Entry(page, k) ==
  IF "PT" \in slots /\ page \in PagesOf("PT")
  THEN table[(page - PtAddr) * Entries + k]
  ELSE NotPresent

(* The pages that an entry spans: of a PT, a PD, the PDPT, the PML4. *)
Span == <<1, Entries, Entries * Entries, Entries * Entries * Entries>>

Digit(linear, n) == (linear \div Span[n + 1]) % Entries

Translate(linear) ==
  LET pdpt == Entry(Cr3, Digit(linear, 3))
      pd   == Entry(pdpt, Digit(linear, 2))
      pt   == Entry(pd, Digit(linear, 1))
  IN Entry(pt, Digit(linear, 0))

(* The mutant: only the last of the four assertions is there. *)
AssertsOfLimit == Translate(Limit) = NotPresent

Asserts ==
  /\ \A page \in {MeasuresAddr, OwnAddr, SharedAddr} : Translate(page) = page
  /\ Translate(Limit) = NotPresent

Assert ==
  /\ pc = "asserts"
  /\ pc' = IF Asserts THEN "run" ELSE "aborted"
  /\ UNCHANGED <<role, level, i, table, slot, slots, access>>

--------------------------------------------------------------------------------
(* The accesses of a guest, each of AccessWidth bytes                      *)

AccessOf(by, region, at, write) ==
  [by |-> by, region |-> region, at |-> at, write |-> write]

FirstByte(region) == Base[region] * PageBytes

(* The first instruction, the call of wait_action (rsp = STACK_TOP_ADDR),  *)
(* the store of exit_halt.                                                 *)
RunAccess ==
  {AccessOf("fetch", "RUN", 0, FALSE),
   AccessOf("push", "RUN", RunPages * PageBytes - AccessWidth, TRUE),
   AccessOf("exit_halt", "RUN", ExitCodeAddr, TRUE)}

(* target, value, wait and repeat of the command *)
ParameterAccess ==
  {AccessOf("parameter", "MMIO", FirstByte("MMIO") + k * AccessWidth, FALSE) : k \in 0..3}

StampAccess ==
  {AccessOf("stamp", "MEASURES", FirstByte("MEASURES") + k * AccessWidth, TRUE)
     : k \in 0..(NbSamples - 1)}

(* Every list reads the base of a region; victim and attacker then read,   *)
(* and the attacker writes, at base + randrange(0, size): any byte of it.  *)
TargetAccess ==
  UNION {
    {AccessOf("target", region, FirstByte(region), FALSE)}
      \cup {AccessOf("target", region, at, FALSE) :
              at \in IF role = DEFENDER THEN {} ELSE BytesOf(region)}
      \cup {AccessOf("target", region, at, TRUE) :
              at \in IF role = ATTACKER THEN BytesOf(region) ELSE {}}
    : region \in {"OWN", "SHARED"}}

Accesses == RunAccess \cup ParameterAccess \cup StampAccess \cup TargetAccess

GuestAccess ==
  /\ pc = "run"
  /\ access' \in Accesses
  /\ UNCHANGED <<role, pc, level, i, table, slot, slots>>

BytesAt(a) == a.at .. (a.at + AccessWidth - 1)

(* What becomes of a byte: the guest cannot translate it and dies, no slot *)
(* takes it (KVM_EXIT_MMIO, for a fetch KVM_EXIT_INTERNAL_ERROR; slot 1 is *)
(* read-only), or a slot serves it.                                        *)
Served(byte, write) ==
  LET page  == Translate(byte \div PageBytes)
      takes == {region \in slots : page \in PagesOf(region) /\ ~(write /\ region = "MMIO")}
  IN CASE page = NotPresent -> "shutdown"
       [] page # NotPresent /\ takes = {} -> "exit"
       [] OTHER -> CHOOSE region \in takes : TRUE

ServedBy(a) == {Served(byte, a.write) : byte \in BytesAt(a)}

--------------------------------------------------------------------------------
Stopped == pc = "aborted" /\ UNCHANGED vars

Next == WriteEntry \/ LevelDone \/ SetSlot \/ SlotsDone \/ Assert \/ GuestAccess \/ Stopped

Spec == Init /\ [][Next]_vars

--------------------------------------------------------------------------------
(* Properties                                                              *)

(* The clause of the table says that nothing is written outside its region. *)
TypeOK ==
  /\ role \in Role
  /\ pc \in {"tables", "slots", "asserts", "run", "aborted"}
  /\ level \in Levels /\ i \in 0..Count[level]
  /\ table \in [0..(PtPages * Entries - 1) -> {NotPresent} \cup 0..(Limit - 1)]
  /\ slot \in 0..Len(SlotRegion) /\ slots \subseteq SlotsOf(role)
  /\ access.region \in Region

(***************************************************************************)
(* No entry is written over another: the four levels and the page left     *)
(* free between the directories and the tables (0x3000 + NB_PT_PD_PAGES    *)
(* pages) do not overlap in the region of the page tables.                 *)
(***************************************************************************)
EntriesWrittenOnce ==
  [][\A w \in DOMAIN table : table[w] # NotPresent => table'[w] = table[w]]_vars

(***************************************************************************)
(* Once vm_init has returned, the guest sees its physical memory at the    *)
(* same addresses up to 4 GiB and nothing above ("4Gb identity mapped",    *)
(* vm.c:308), at every page and not just the four that vm_init asserts,    *)
(* and whichever slots KVM has refused.                                    *)
(***************************************************************************)
IdentityMapped ==
  pc = "run" /\ access = NoAccess =>
    \A linear \in 0..(Entries * Span[4] - 1) :
      Translate(linear) = IF linear < Limit THEN linear ELSE NotPresent

(***************************************************************************)
(* Of the slots that KVM may refuse, the assertions notice that of the     *)
(* page tables, and no other: without it no guest runs, and nothing else   *)
(* aborts the process.                                                     *)
(***************************************************************************)
AssertsGuardTables ==
  /\ pc = "run" => "PT" \in slots
  /\ pc = "aborted" => "PT" \notin slots

(* An access that begins in the last bytes of its region leaves it. *)
Within(a) == BytesAt(a) \subseteq BytesOf(a.region)

(***************************************************************************)
(* What the guests and ScaCommands take for granted: code, stack, exit     *)
(* word, parameters and each of the NB_SAMPLES stamps are served by the    *)
(* region they are meant for, and a target is translated and served        *)
(* exactly when Mapped and Backed say so.  A slot that KVM refused turns   *)
(* the accesses into exits; it never gives them to another region.         *)
(***************************************************************************)
AccessesServed ==
  LET a == access
      expected == IF a.region \in slots THEN {a.region} ELSE {"exit"}
  IN pc = "run" /\ a # NoAccess =>
       /\ a.by # "target" => ServedBy(a) = expected
       /\ a.by = "target" /\ Within(a) =>
            /\ ServedBy(a) = expected
            /\ Mapped(a.region)
            /\ slots = SlotsOf(role) =>
                 (ServedBy(a) = {a.region} <=> Backed(role, a.region))

(***************************************************************************)
(* "attacker randomly read his own pages" (experiments.py:41): an access   *)
(* drawn for a region is served by that region, all slots being set.       *)
(***************************************************************************)
AccessStaysInRegion ==
  pc = "run" /\ slots = Region /\ access # NoAccess => ServedBy(access) = {access.region}

--------------------------------------------------------------------------------
(* The inductive invariant.                                                *)

(* How many entries of a level have been written. *)
Written(l) ==
  IF l < level \/ pc # "tables" THEN Count[l] ELSE IF l = level THEN i ELSE 0

(* The entries written so far are in their places, and nothing else is.    *)
TablesInv ==
  /\ \A l \in Levels : \A k \in 0..(Written(l) - 1) :
       table[FirstPage[l] * Entries + k] = PointsTo[l] + k
  /\ \A w \in DOMAIN table :
       \/ table[w] = NotPresent
       \/ \E l \in Levels : \E k \in 0..(Written(l) - 1) : w = FirstPage[l] * Entries + k

AccessInv == access # NoAccess => pc = "run" /\ access \in Accesses

IInv == TypeOK /\ TablesInv /\ AssertsGuardTables /\ AccessInv
================================================================================
