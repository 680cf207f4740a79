--------------------------------- MODULE Dedup ----------------------------------
(***************************************************************************)
(* The shared pages from the random fill to the copies that the writes of  *)
(* the guests cause: init_shared_pages fills one buffer, vm_init copies it *)
(* into the private mapping of each VM and makes that of victim and        *)
(* attacker mergeable, ksmd merges equal pages, ksm_wait polls the number  *)
(* of pages it has merged, and when it returns the guests write.           *)
(*                                                                         *)
(* ksmd is external.  It merges two mergeable pages of the same contents,  *)
(* pages_shared counts the pages it keeps, pages_sharing the further sites *)
(* mapped to them, and a write to a merged page gives the writer a copy.   *)
(* The host shares nothing else (Vmm has a host that does), and a page     *)
(* stays below max_page_sharing.                                           *)
(***************************************************************************)
EXTENDS RandomFill, ScaCommands, FiniteSets

CONSTANTS
  NbSharedPages,   (* NB_SHARED_PAGES               *)
  UnitsPerPage     (* units of the fill in one page *)

ASSUME PagesAssumption ==
  /\ NbSharedPages \in Nat \ {0} /\ UnitsPerPage \in Nat \ {0}
  /\ Size = NbSharedPages * UnitsPerPage

Pages == 0..(NbSharedPages - 1)

VMs == 0..(NUMBEROFROLE - 1)

VARIABLES
  created,   (* how many VMs have been through vm_init                    *)
  tm,        (* where the time master is                                  *)
  nb_sp,     (* the count that the time master read last                  *)
  printed,   (* the counts it printed last; printed.shared is last_val    *)
  merged,    (* the sites <<VM, page>> that are mapped to a merged page   *)
  copied     (* the sites a guest has written: the page is its own again  *)

ksmvars == <<created, tm, nb_sp, printed, merged, copied>>
vars    == <<fillvars, ksmvars>>

(* No count has been printed. *)
NotPrinted == -1

DedupInit ==
  /\ FillInit
  /\ created = 0
  /\ tm = "absent"
  /\ nb_sp = 0
  /\ printed = [shared |-> NotPrinted, sharing |-> NotPrinted]
  /\ merged = {} /\ copied = {}

--------------------------------------------------------------------------------
(* The contents of the pages and the counts of the kernel                  *)

(* What stands in a page of the buffer: random data of its own, or what    *)
(* malloc handed out, the same zeroes in every page.                       *)
Blank == -1

Contents(p) ==
  IF \E u \in random : u \div UnitsPerPage = p THEN p ELSE Blank

(* The mutant: the region of the defender is mergeable too. *)
MergeableAll(r) == r < created

(* MADV_MERGEABLE *)
Mergeable(r) == r < created /\ r # DEFENDER

(* No two sites agree that a guest has written (a random value at a random *)
(* address, or the value of a command).                                    *)
Holds(site) == IF site \in copied THEN site ELSE <<Contents(site[2])>>

PagesShared == Cardinality({Holds(site) : site \in merged})

PagesSharing == Cardinality(merged) - PagesShared

(* ksm_sharing_pages reads the file of ksm_shared_pages. *)
ksm_sharing_pages == PagesShared

(* ksmd merges a page with another, which may be merged already. *)
KsmMerges ==
  /\ \E site \in (VMs \X Pages) \ merged, twin \in VMs \X Pages :
       /\ site # twin
       /\ Mergeable(site[1]) /\ Mergeable(twin[1])
       /\ Holds(site) = Holds(twin)
       /\ merged' = merged \cup {site, twin}
  /\ UNCHANGED <<fillvars, created, tm, nb_sp, printed, copied>>

--------------------------------------------------------------------------------
(* main                                                                    *)

FillShared == FillStep /\ UNCHANGED ksmvars

(* vm_init: memcpy and madvise. *)
CreateVm ==
  /\ pc = "done"
  /\ created < NUMBEROFROLE
  /\ created' = created + 1
  /\ UNCHANGED <<fillvars, tm, nb_sp, printed, merged, copied>>

CreateTimeMaster ==
  /\ created = NUMBEROFROLE
  /\ tm = "absent"
  /\ tm' = "read"
  /\ UNCHANGED <<fillvars, created, nb_sp, printed, merged, copied>>

--------------------------------------------------------------------------------
(* time_master                                                             *)

(* ksm_wait reads the count that it goes by, and then, while ksmd works    *)
(* on, the other one; it prints both when the first has grown.             *)
ReadShared ==
  /\ tm = "read"
  /\ nb_sp' = PagesShared
  /\ tm' = "sharing"
  /\ UNCHANGED <<fillvars, created, printed, merged, copied>>

ReadSharing ==
  /\ tm = "sharing"
  /\ printed' = IF printed.shared < nb_sp
                 THEN [shared |-> nb_sp, sharing |-> ksm_sharing_pages] ELSE printed
  /\ tm' = "test"
  /\ UNCHANGED <<fillvars, created, nb_sp, merged, copied>>

(* The mutants: one page fewer will do, or one more is asked for. *)
OnePageFewer == nb_sp >= NbSharedPages - 1

OnePageMore == nb_sp > NbSharedPages

EnoughShared == nb_sp >= NbSharedPages

WaitOn ==
  /\ tm = "test"
  /\ ~EnoughShared
  /\ tm' = "read"
  /\ UNCHANGED <<fillvars, created, nb_sp, printed, merged, copied>>

(* ksm_wait returns; behind the barrier, where the VM threads wait. *)
WaitEnds ==
  /\ tm = "test"
  /\ EnoughShared
  /\ tm' = "running"
  /\ UNCHANGED <<fillvars, created, nb_sp, printed, merged, copied>>

(* One of the ten prints while the guests run.  Both counts are arguments  *)
(* of one call: C leaves open which of them is read first.                 *)
StartPrint ==
  /\ tm = "running"
  /\ nb_sp' = PagesShared
  /\ tm' = "printing"
  /\ UNCHANGED <<fillvars, created, printed, merged, copied>>

EndPrint ==
  /\ tm = "printing"
  /\ printed' \in {[shared |-> nb_sp, sharing |-> ksm_sharing_pages],
                   [shared |-> PagesShared, sharing |-> nb_sp]}
  /\ tm' = "running"
  /\ UNCHANGED <<fillvars, created, nb_sp, merged, copied>>

Prints == StartPrint \/ EndPrint

TimeMaster == ReadShared \/ ReadSharing \/ WaitOn \/ WaitEnds

--------------------------------------------------------------------------------
GuestsRunning == {"running", "printing"}

(* A WRITE command of a guest to a page of its slot 5: the first one takes *)
(* the copy, the next find it.                                             *)
GuestWrites(r, p) ==
  /\ tm \in GuestsRunning
  /\ r # DEFENDER
  /\ <<r, p>> \notin copied
  /\ copied' = copied \cup {<<r, p>>}
  /\ merged' = merged \ {<<r, p>>}
  /\ UNCHANGED <<fillvars, created, tm, nb_sp, printed>>

Next ==
  \/ FillShared \/ CreateVm \/ CreateTimeMaster
  \/ KsmMerges \/ TimeMaster \/ Prints
  \/ \E r \in VMs, p \in Pages : GuestWrites(r, p)

(* The host schedules main, the time master and ksmd; commands may end. *)
Fairness ==
  /\ WF_vars(FillShared) /\ WF_vars(CreateVm) /\ WF_vars(CreateTimeMaster)
  /\ WF_vars(KsmMerges) /\ WF_vars(TimeMaster)

Spec == DedupInit /\ [][Next]_vars /\ Fairness

--------------------------------------------------------------------------------
(* Properties                                                              *)

DedupTypeOK ==
  /\ FillTypeOK
  /\ created \in 0..NUMBEROFROLE
  /\ tm \in {"absent", "read", "sharing", "test"} \cup GuestsRunning
  /\ nb_sp \in 0..NbSharedPages
  /\ {printed.shared, printed.sharing} \subseteq {NotPrinted} \cup 0..(2 * NbSharedPages)
  /\ merged \subseteq {VICTIM, ATTACKER} \X Pages
  /\ copied \subseteq {VICTIM, ATTACKER} \X Pages

(***************************************************************************)
(* "goal : evaluate COW time" (exp2 in experiments.py): the first write of *)
(* a VM to a shared page always pays for a copy.  The wait knows only the  *)
(* number of merged pages; that each of them is merged, in both VMs,       *)
(* follows because the defender's region is not mergeable and the buffer   *)
(* holds as many different pages as the wait asks for.                     *)
(***************************************************************************)
FirstWriteCopies ==
  [][\A site \in VMs \X Pages :
       site \notin copied /\ site \in copied' => site \in merged]_vars

(***************************************************************************)
(* The number that ksm_wait and time_master print as "sharing" comes from  *)
(* the wrong file; it is right as long as no guest has written, because    *)
(* then every merged page has two sites, and a whole fill.                 *)
(***************************************************************************)
SharingRightUntilCopied ==
  [][printed' # printed /\ Filled /\ copied = {} => printed'.sharing = PagesSharing]_vars

(***************************************************************************)
(* A buffer that was filled as a whole, by however many calls, gets the    *)
(* guests running: the wait for KSM ends.                                  *)
(***************************************************************************)
WholeFillStarts == (pc = "done" /\ Filled) ~> (tm \in GuestsRunning)

(***************************************************************************)
(* "time master : waiting KSM memory deduplication..." (vmm-thread.c:105), *)
(* of pages filled "with random data" (vmm.c:204): the wait ends.          *)
(***************************************************************************)
WaitForKsmEnds == <>(tm \in GuestsRunning)

--------------------------------------------------------------------------------
(* The inductive invariant.                                                *)

(* main creates the VMs when the fill has ended, then the time master; the *)
(* guests write when the wait is over.                                     *)
StageInv ==
  /\ created > 0 => pc = "done"
  /\ created = 0 => merged = {}
  /\ tm # "absent" => created = NUMBEROFROLE
  /\ copied # {} => tm \in GuestsRunning

(* No site is merged alone, until a guest writes.                          *)
MergedInv ==
  /\ merged \cap copied = {}
  /\ copied = {} =>
       \A site \in merged :
         \E twin \in merged : twin # site /\ Contents(twin[2]) = Contents(site[2])

(* The count that ksm_wait goes by is not too high; when the guests run,   *)
(* each site that may be merged has been, and the count stands until one   *)
(* of them writes.                                                         *)
CountInv ==
  /\ tm \in {"sharing", "test"} => nb_sp <= PagesShared
  /\ tm \in GuestsRunning => {VICTIM, ATTACKER} \X Pages \subseteq merged \cup copied
  /\ tm = "printing" /\ copied = {} => nb_sp = PagesShared

IInv == DedupTypeOK /\ StageInv /\ MergedInv /\ CountInv
================================================================================
