# vmm-sca in TLA+

Specifications of the side-channel test bench `vmm-sca`: a small VMM on Linux KVM that runs three
bare-metal guests (victim, attacker, defender), hands each of them a list of commands (read, write,
measure, ...), lets the guests take time stamps around their memory accesses and saves the stamps.
What a measurement is worth depends on things a test hardly reaches: that every stamp belongs to the
command it is filed under, that guests start only after KSM has merged the shared pages, that nothing
is saved or unmapped while a guest still writes, that an address a command names reaches the memory it
is meant to reach. These are the properties stated here. TLC checks
them on small instances, and TLAPS proves every one of them that is not a liveness property for all instances.

Paths below are relative to the repository.

## 1. The system

| Component | Code | State | Operations | Interacts with |
|---|---|---|---|---|
| Command generators | `tools/experiments.py`, `tools/gen_measures.py` | the lists of an experiment, the command file | `exp0`..`exp4`, `max_nb_of_measures`, `write_cmd` | the VMM, through the file |
| Command input | `vmm/measures_io.c` (`load_commands`) | `vm->cmds`, `vm->nb_cmd` | headers, allocation, append | main |
| Main | `vmm/vmm.c` | the three `vm`, thread ids, the barrier, the buffer of shared pages | open KSM, fill, load, create, join, save, destroy, exit | all threads (create, join), files |
| VM construction | `vmm/vm.c` | memory regions and slots, page tables, vcpu registers | `vm_init`, `translate_vm_addr`, `vm_destroy` | KVM, main, time master |
| VM thread and handlers | `vmm/vmm-thread.c` (`run_vm`), `vmm/vmm-handlers.c` | `ret`, `cmd`, `nb_timestamp`, the `kvm_run` page | one case per exit reason, the final check | its guest, through `KVM_RUN`, the MMIO page and the measures region; the barrier |
| Guests | `guests/vm_common.c` (`wait_action`, `exit_halt`) | the stamp pointer, the loop counter, parameters just loaded | ask, switch, loop, stamp, access, halt | its VM thread |
| Time master | `vmm/vmm-thread.c` (`time_master`) | - | wait for KSM, barrier, translate an address of VM 0 | KSM, barrier, the vcpu mutex of VM 0 |
| KSM interface | `vmm/ksm.c` | files under `/sys/kernel/mm/ksm` | the counts, `ksm_wait` | the host's ksmd |
| Measures output | `vmm/measures_io.c` (`save_measures`) | the pointers `_cmd`, `_m`, the file | one record per command | main |
| Plots | `tools/print_measures.py` | - | reads the output file | - |

**Behaviours that are hard**, each with its line under `hazards` in `PROJECT.json`:

- *One VM.* Thread and guest are coroutines over `KVM_RUN`. The stamps a command will take are charged to
  `nb_timestamp` before they are taken; parameters live in one page that both sides touch; nobody compares
  the command pointer with `nb_cmd`; a signal leaves `KVM_RUN` anywhere and leaves its trace in `ret`.
- *All of them.* A barrier of four, a wait without limit before it (for a count
  that says how many pages are merged, not which), results of main's first steps that are not tested, joins that order reading and
  unmapping the regions after the guests' last write, a time master that needs a mutex held by a guest.
- *Files.* A writer that dies, headers that are trusted, two pointers that must stay in step, results
  that are dropped.
- *Numbers.* `-1` added to an unsigned counter, host-wide counts compared with own ones, four levels of
  page tables laid out by hand in one region, regions that each begin where the one before ends.

What makes each component correct: the VM thread serves exactly its list, each stamp in its place, and
reports the truth; the lifecycle starts nobody early, frees and saves nothing early, and ends; the output
says of a command what that command did; the input gives each VM exactly its list; the shared pages are
all merged, in both VMs, before a guest touches them; the memory map is the identity and its regions are disjoint.

## 2. The modules

```
ScaCommands            commands, stamps, what a list is expected to leave
 |- CommandStream      abstract: what the VMM promises of one VM
 |- VmThread           run_vm + handlers + guest             (MCVmThread, VmThreadProofs)
 |     implements CommandStream
 |- Vmm                main, barrier, threads, time master, KSM   (MCVmm, VmmProofs)
 |     each of its VMs steps as CommandStream
 |- SaveMeasures       save_measures                         (MCSaveMeasures, SaveMeasuresProofs)
 |- CommandFile        generators, file, load_commands       (MCCommandFile, CommandFileProofs)
 |- Dedup              shared pages: fill, copy, merge, wait, copy-on-write   (MCDedup, DedupProofs)
 |     goes on from RandomFill, the loop around getrandom
 '- MemoryMap          regions, page tables, slots, where accesses go         (MCMemoryMap, MemoryMapProofs)

StampFacts             lemmas about the operators of ScaCommands on lists of stamps
 '- Induction          induction over the natural numbers, for a set
```

`ScaCommands` declares the roles, the values, and `CmdLists`, the lists a VM may be given, with the one
assumption that the whole project rests on: a list is not empty, ends with EXIT and has EXIT nowhere
else. `CommandFile` shows where it comes from: its run instantiates `CmdLists` with all lists the
generators make (so that TLC evaluates the assumption on them), and its invariant says that what is
loaded from a whole file is one of them.

An address is abstracted to where it lies: `OWN`, `SHARED`, `BEYOND` the 4 GiB of the page tables, or
`NULL`. A stamp records what the guest was doing when it took it: the primitive, target and value it
had loaded, and the rank of the stamp within its command. The time itself is left out, so that "the
stamp of another command" becomes visible. `MemoryMap` has the real addresses, on a small scale, and shows that
`Mapped` and `Backed`, the two operators the other modules use of an address, say what page tables and slots do.

### VmThread

State and code: `pc` is the place in `run_vm` (before `KVM_RUN`, inside it, in the switch on the exit
reason, at the label `check`, done), `gpc` the place of the guest in `wait_action`. `next` is the distance the
pointer `cmd` has moved, `ret` and `nb_timestamp` are the locals; `exit_reason` and `data` are in the
`kvm_run` page, `mmio` is the parameter page, `measures` the region (its length is the guest's pointer
`measures`), `i` and `loaded` are the locals of the guest.

| Action | Code |
|---|---|
| `KvmRun` | the ioctl; KVM completes the pending `inb`, `outb` or access first |
| `Interrupt` | `KVM_RUN` returns -1, `exit_reason` is `KVM_EXIT_INTR` |
| `GuestAsk`, `GuestSwitch`, `GuestLoopEnd` | `inb(PMIO_READ_CMD)`, the switch, the end of a loop |
| `GuestMeasure`, `GuestStampBefore`, `GuestAccess`, `GuestAccessUnbacked`, `GuestFault`, `GuestStampAfter` | the three loops |
| `GuestPuts`, `GuestHalt` | the default case, `exit_halt` |
| `GuestBreaks`, `GuestStuck` | KVM can no longer run the guest, and says so at every `KVM_RUN` |
| `HandleCommand`, `HandlePrint`, `HandleOutput` | `handle_pmio`, `handle_mmio` |
| `HandleStop`, `HandleOther`, `Check` | HLT and SHUTDOWN, default, the end of `run_vm` |

One VM is the whole component: after the barrier its thread shares nothing with another one's.

### Vmm

`mpc` and `v` are the place and the loop counter of main, `ksm` the files of KSM it has opened (five, of which three
are read), `distinct` how many different pages the buffer of shared pages holds (0: no buffer), `tpc[r]` the place of each thread (`handler`: in `run_vm` outside the ioctl; `kvm`: inside,
holding the vcpu mutex; `stuck`: KVM can no longer run the guest), `tm` the time master, `merged` how many
shared pages KSM has merged, `code` the exit code of the process, those of SIGSEGV and SIGABRT included. The steps before the
first VM keep what the code tests and what it does not: `KsmInit` always goes on, `KsmEnabled` reads a stream that
may be NULL, `InitSharedPages` goes on with a NULL buffer and with one that getrandom filled in part, `CopyCrashes` meets the NULL buffer,
`CreateFails` is an `exit(1)` and `AssertFails` an assertion of `vm_init`. `JoinVm` and `JoinCrashes` are the two ends of
reading the stack of a thread that is gone. The exchange of a thread with its guest is cut down to
the command stream (`pos`, `taken`, `log`, `status`), which `VmThread` is shown to implement; a halt or a crash, and the
final check, end it. `BarrierOpens` releases all four at once and every one then moves in its own time.
`Save` is one step: only main runs by then, and `SaveMeasures` has its steps. What it writes is `Recorded`: the stamps that
the walk takes, one for a MEASURE and two for an access whatever the repeat, none behind a PRINT or an unknown command.

### SaveMeasures, CommandFile

`SaveMeasures` has the two pointers `_cmd` and `_m` and the two loop counters as they are in the code, and
starts from any measures that a guest can have left, a guest that crashed in an access included.
`CommandFile` goes from an experiment to the loaded lists: the size assertion, one step per written
record, a writer that may end at any record, one step per header and per command read.

### RandomFill and Dedup

`RandomFill` is the loop in `init_shared_pages` and `vm_init`, with getrandom delivering any part of what is asked, or
failing. `Dedup` goes on from the buffer it leaves: a page holds random data of its own (distinct from any other) or
what malloc handed out; `CreateVm` copies the buffer and makes the copies of victim and attacker mergeable;
`KsmMerges` merges any two mergeable pages of equal contents; `ReadShared`, `ReadSharing`, `WaitOn` and `WaitEnds` are the
loop of `ksm_wait`, which reads the two counts one after the other while ksmd works on and keeps the first in `nb_sp` until
it tests it; `StartPrint` and `EndPrint` are one of the ten prints of the time master, which reads its counts in any order
(arguments of one call); `GuestWrites` is a write of a guest, which takes the page out of `merged`. `Vmm` counts merged
pages and adds those of other processes; `Dedup` has their contents on a host where nobody else shares.

### MemoryMap

`vm_init` in the order of the code: `WriteEntry` and `LevelDone` are the four loops of `init_pages_tables` (`level`, `i`),
`table` the words they write, from the region of the tables: a write anywhere else would add a word to its domain (`TypeOK`); `SetSlot` sets one memory slot, or does not when KVM refuses, which
the code only reports; `Assert` is the four assertions; then `GuestAccess` makes one access after another: the first
instruction, the stack, the exit word, the four parameters, every stamp up to `NB_SAMPLES`, and for the victim and
the attacker any target that an experiment can draw. The page walk (`Translate`, from `Cr3`) reads the entries through
the slots, as the vcpu does, and `Served` says which slot takes a byte. A page has `Entries` words of `AccessWidth` bytes
(512 of 8 in the code), all other sizes are constants as in `common.h`.

## 3. What the runs check

`PROJECT.json` lists the runs; every property of a passing run has a mutant of the code (an operator
beside the original) under which TLC finds it violated. Each passing run also checks the inductive invariant of its
module (`IInv`; `ThreadInv` for `vm_thread`), on which the proofs of section 4 rest.

| Run | Result | What it shows |
|---|---|---|
| `vm_thread` | holds | Stamps are taken once, in order, with their own parameters (`MeasuresAsExpected`); parameters are stable while a command is served, over exits and interrupts (`ParametersStable`); charged and taken stamps agree whenever the guest asks (`StampsAccounted`); no read beyond the list (`CommandInBounds`); the reported status is true (`ExitStatusTruthful`); the thread ends, unless KVM can no longer run its guest (`Termination`); it implements `CommandStream` (`ImplementsStream`) |
| `vmm` | holds | No guest starts before all pages are merged, *on a host where KSM shares nothing else* (`DedupBeforeRun`); regions outlive their users (`RegionsOutliveUsers`); what is saved is final, and whole for a list without PRINT, unknown commands and repeats (`SavedIsFinal`); what fails at the start without a test in main - a file of KSM that is read, the buffer, and on such a host its fill - gets no guest running, and once guests have run only the read of a dead stack in a join ends the process by a signal (`FailedStartRunsNoGuest`); each VM steps as its command stream (`StreamsKept`); the process ends, or hangs in one of two ways: everybody waits for `ksm_wait` after a short fill (`StuckInKsmWait`), or only main waits, for a guest that KVM can no longer run (`StuckInJoin`) (`ProcessEnds`) |
| `save` | holds | Records tell the truth also for crashed guests (`RecordsAreTrue`), in order and without duplicates (`OrderKept`), the walk ends (`SaveReturns`), and no command is dropped before the first PRINT or unknown command of its VM (`NoneDroppedBefore`), which generated lists do not have |
| `command_file` | holds | Allocations suffice in spite of trusted headers (`WithinAllocation`), VMs get their lists or, after a dead writer, a prefix (`LoadedIsGenerated`), stamps fit the region (`MeasuresFit`) |
| `dedup` | holds | The fill ends (`FillEnds`); a buffer that was filled as a whole gets the guests running (`WholeFillStarts`); the first write of a VM to a page pays for a copy (`FirstWriteCopies`); the sharing count, read from the wrong file, is right until a guest has written (`SharingRightUntilCopied`) |
| `memory_map` | holds | No table entry is written over another (`EntriesWrittenOnce`); memory is identity mapped at every page up to the limit and not above (`IdentityMapped`); of the refused slots the assertions notice exactly that of the page tables (`AssertsGuardTables`); every access goes to its own region or, its slot being refused, exits (`AccessesServed`) |
| `vmm_busy_host` | violated | `ksm_wait` compares a host-wide count: one page shared by another process lets the guests start early |
| `vmm_shown` | violated | the status main prints is read from the stack of a thread that has ended (it may also be a SIGSEGV, `JoinCrashes`) |
| `save_print` | violated | `default: continue` leaves `_cmd` behind, all later records of the VM are lost |
| `command_file_truncated` | violated | a truncated file is loaded as shorter lists, with success |
| `dedup_short` | violated | after a short read or a failure of getrandom two shared pages are equal, and `ksm_wait` never returns |
| `memory_map_straddle` | violated | an 8-byte access at one of the last seven bytes of a region reaches beyond it |

The violated runs are the findings of `PROJECT.json`, each with the line of the code and the words it
departs from.

**Bounds.** `vm_thread`: all lists of up to `MaxBody = 2` commands and EXIT, over eleven commands (every
primitive and an unknown byte; repeat 0, 1 and 2; own, shared and unmapped targets), for the three roles,
with up to `MaxInterrupts = 2` interrupted `KVM_RUN`s. The state that one command hands to the next is
the MMIO page, the locals of the guest and the two counters, so that pairs of commands show every
interference between neighbours; the proofs cover longer lists. `vmm`: three VMs as in the code, `NbSharedPages = 2`,
three lists: one that reads beyond the regions and crashes its guest, one that writes a shared page, and one with a PRINT
before a MEASURE, which is not saved whole; any combination for the three VMs, any subset of the five files of KSM, a buffer
of 0, 1 or 2 different pages. `save`: ten lists, any combination for the three
VMs. `command_file`: one or two iterations of each experiment, two values, room for 20 stamps, which
all experiments fit but one, at the boundary. `dedup`: three shared pages (two that can be equal and one that is
not) of two units, a counter of sixteen values, one failure of getrandom. `memory_map`: eight entries in a page and two
directories, so that the limit (128 pages) lies well below what four levels can address (4096), as in the code, tables and
regions lie below it, and the last page of stamps is not full; every subset of refused slots and each role.

**Fairness.** `VmThread`: the host schedules the thread, or its guest inside `KVM_RUN`; nothing is assumed
of interrupts but that they are finitely many. `Vmm`: weak fairness of main, of each thread, of the
release of the barrier, of the time master and of ksmd (main has checked that KSM runs; the pages of the
two mergeable regions are equal, so ksmd goes on merging them until each different page is merged); nothing is assumed of a KVM that breaks a guest.
`Dedup`: weak fairness of main, the time master and ksmd, none of the guests' writes. Weak fairness suffices: nobody
competes for the vcpu mutex after the victim has stopped for good. `SaveMeasures` is
sequential code: its steps are taken. The other specifications carry no liveness property.

## 4. What is proved

Every invariant and every action property of the passing runs, and both refinements, are theorems: they hold for all
values of the constants that satisfy the named assumptions. Each `...Proofs` module has a theorem `Inductive` (the
invariant `IInv` of its component, with one lemma for each action or group of actions), from which the others follow.

| Module | Theorems | Under |
|---|---|---|
| `VmThreadProofs` | `TypeCorrect`, `CommandsStayInBounds`, `ParametersStayStable`, `StampsAreAccounted`, `ExitStatusIsTruthful`, `ThreadInvariant`, `MeasuresAreExpected`, `Refinement` (of `CommandStream`) | any lists that end with EXIT, any role, values and number of interrupts |
| `VmmProofs` | `TypeCorrect`, `RegionsOutlive`, `FailedStartIsFatal`, `SavedMeasuresAreFinal`, `DedupPrecedesRun`, `Refinement` (each VM, of `CommandStream`) | any lists, any number of shared pages, any fill of the buffer; `DedupPrecedesRun`, and the clause of `FailedStartIsFatal` about a short fill, for `OtherPages = 0`; the file of `SavedMeasuresAreFinal` is whole for lists that are `Recordable` |
| `SaveMeasuresProofs` | `TypeCorrect`, `RecordsInOrder`, `NoRecordDropped`, `TrueRecords` | any lists and anything the guests can have left; `TrueRecords` for `RepeatOnce` |
| `CommandFileProofs` | `ExperimentsEndWithExit`, `TypeCorrect`, `NoOverrun`, `LoadsWhatWasMade`, `StampsHaveRoom` | any iterations and sizes; `StampsHaveRoom` for `Repeat = 1` |
| `DedupProofs` | `TypeCorrect`, `FirstWritesCopy`, `SharingIsRight` | any number and size of pages, any number of failures of getrandom |
| `MemoryMapProofs` | `TypeCorrect`, `EntriesAreWrittenOnce`, `AssertionsGuardTables`, `MemoryIsIdentityMapped`, `AccessesAreServed` | page tables of any number of entries, directories and pages in a region that fit the limit |

**Assumptions.** On the constants: `RoleAssumption`, `NoValueAssumption`, `CmdListsAssumption` and those in the modules that
declare the constants (sizes are positive numbers, the regions lie below the limit). TLC evaluates all of them. The proofs of
`CommandFile` also take `GeneratedAssumption`, that the lists of the experiments are among `CmdLists`: the set is a parameter
so that the other modules need not know the generators, and `ExperimentsEndWithExit` proves that adding them keeps
`CmdListsAssumption`. Some theorems have a hypothesis of their own, each the domain in which the code keeps the property, and none
is stronger than what the run checks:

- `OtherPages = 0`: no other process shares pages. With one page of another process the property fails (`vmm_busy_host`), and the wait of a bench whose buffer was filled in part may end.
- `Recordable`: the list has no PRINT and no unknown command, and measures nothing more than once, as the lists of the experiments.
  Of other lists `save_measures` may drop stamps with result 0 (`save_print`); what `SavedIsFinal` then says is that the file
  holds what the walk takes from the final log.
- `RepeatOnce`: no command is measured more than once. `save_measures` reads one stamp of a MEASURE and two of an access
  whatever the repeat, and every experiment repeats once.
- `Repeat = 1`: the same of the generator, whose count of stamps ignores the repeat.

**VM thread.** `CommandInBounds` alone is not inductive: that the guest asks only while commands are left
follows from where it is in its loop and from the command it last served not being EXIT. `IInv` has
`ControlInv` (where the thread stands fixes where its guest may be) and `ServiceInv` (for each place of
the guest, which command it is at, that its parameters are in the MMIO page, and how many of the charged
stamps are still owed). Owed stamps, `nb_timestamp - Len(measures)`, tie the counter of the VMM to the
region of the guest: they rise by `Width(c)` when `c` is answered and fall by one with each stamp, and
are zero again when the guest asks. Each action has one case, and in it one step per conjunct; `Frame`
carries the conjuncts over steps that touch neither counter, region nor parameters.
For the refinement `taken` maps to `Width(Cur) - Owed`: stamps are `Take` (`StampIsTake`), answers are `Fetch`
(`AnswerIsFetch`), the check is `Succeed` or `Fail`, everything else stutters (`StreamStutter`).
`ThreadInv` adds `StampsInv`, what the region holds: the stamps of the commands before the current one and the first of the
current one (`StampsUpTo`). It is carried by the refinement and not by the code, as a stream writes only with `Take`.

**Lists of stamps.** `Expected` flattens a list of lists. That it grows by the stamps of one command with each command
(`StampsOfFirstSteps` in `StampFacts`) is proved from the recursive function behind `FlattenSeq`, and what holds for each prefix of
a list by `NatInd`, an induction principle that quantifies over sets of numbers and not over operators, derived from the
well-foundedness of `<`. `StampTaken`, `CommandFetched` and `ListServed` say how `StampsUpTo` moves with a stamp, a command and the end.

**The whole run.** The place of main fixes which threads exist, which regions are mapped and what has been saved (`MainInv`);
the place of the time master on which side of the barrier all threads are (`BarrierInv`, which is why the barrier needs all
four in one step); `UntestedInv` follows a failure that main does not test to the step that crashes, and bounds the merged pages by the different ones, so that
a short fill never gets the time master to the barrier (unless other processes share pages); `CrashInv` leaves one step that can be
killed by a signal once guests have run. `RegionsOutliveUsers` holds
in no step on its own: `mapped` changes in `DestroyVm`, long after `JoinVm` has made sure that nobody uses it. That the steps before
the first VM leave all threads absent, and that `create` leaves those from `v` on absent, had to be added for the induction.
`StreamInv` is `StampsInv` for each of the three VMs; `SavedIsFinal` needs it together with `MainInv`, `SavedInv` (the file holds what the
walk takes from the logs, which no longer change) and `RecordedWhole` (from a `Recordable` list the walk takes everything).

**Output and input.** The walk of `save_measures` is right as long as the index `cmd` and the loop counter `i` agree;
`WalkInv` says that they part only at a command that cannot be recorded, and that `m` has then counted exactly the stamps of
the commands before `cmd`. In `CommandFile` the file and what is still to be written make up one sequence, `Records` of
the experiment, at every moment (`WriterInv`), whether or not the writer has died; `DealtInv` says of every position in it
how many commands each VM has been given (`Dealt`; the commands of a role stand behind `Before` others).
Prefixes and allocation follow from the same clause.

**Shared pages.** `FirstWriteCopies` is about which pages are merged, and `ksm_wait` knows a number. `MergedInv` says that
every merged site has another merged site of equal contents until a guest writes. There are at most as many different contents as
pages; if the count of merged contents reaches the number of pages, then all contents occur, all are different (a surjection between
finite sets of equal size is injective), so the twin of a site is the same page in the other VM, and every site is merged (`AllMerged`).
The count may have been read long before the test: `CountInv` says that it can only have become too small (`SharedGrows`), and that it
no longer changes between the two reads of a print unless a guest writes.
`SharingIsRight` counts the other way: after a whole fill, merged sites are pairs of a VM and a merged page (`TwoSites`).

**Memory map.** `TablesInv` says which words have been written so far and that all others are zero. The levels do not overlap
(`LevelsApart`), so the next word is always free (`NextWordFree`), which is `EntriesWrittenOnce`. When the loops have ended, the digits
of a page number (`Digits`) lead the walk through one entry per level to the page itself below the limit (`WalkMapped`) and to a
zero entry above it (`NoEntry`), hence `Identity`, and the assertions of `vm_init` fail exactly without the slot of the tables
(`AssertsAsGuard`). `TypeCorrect` says that no word outside the region of the tables is ever written: the domain of `table` would grow.
`AccessesServed` follows as the regions are disjoint and each access of the program lies in one (`AccessShape`).

**Only model-checked.** `Termination`, `ProcessEnds`, `SaveReturns`, `FillEnds`, `WholeFillStarts`: liveness, which needs `ENABLED`.
The properties of the violated runs, which do not hold. Nothing else that a run checks.

## 5. What is not modelled

- Time: the field `wait`, `usleep`, the value of `rdtsc`.
- The values behind an access: what a guest reads is not recorded by the code. (Which region serves it is `MemoryMap`,
  whether a write copies a page is `Dedup`.)
- `KVM_RUN` errors other than a signal that leave `exit_reason` as it was: `run_vm` would handle an exit twice.
- The ports no guest uses (`PMIO_READ`, `0xffaa` to `0xffac`), the interrupt code of the guests, which is never called, the
  console text, `ksm_max_shared_pages` and the number of unshared pages, which are only printed.
- Segments, control register flags and the copy of the guest's code in `vm_init`; the parsing of the arguments.
- Huge pages: KSM and getrandom see pages of 4 KiB; a chain of more than `max_page_sharing` sites of one page.
- `repeat` is a natural number: `2*cmd->repeat` wraps at 2^31, far beyond the measures region. `save_measures` takes the
  repeat for 1, as in every experiment ("unused", `tools/experiments.py:231`): with a larger one, which guest and handler do
  honour, its records would hold the stamps of other commands; the lists of the run `save` have none.
- What `save_measures` has written when it fails in the middle: `Vmm` leaves the file as it was (`SaveMeasures` has the walk).
- The stdio buffer of the output file: main drops the result of `save_measures`, which does not close its file, and exits
  with 0 also when nothing could be saved; `SavedIsFinal` says no more than that saving was tried.
- A command for an unknown role in the file: reported and dropped by the code, written by no generator.
- A limit of the measures region in `VmThread`; `MeasuresFit` bounds it from the generator's side, for the repeat of 1 that
  every experiment uses (the generator's check does not count repeats; `Repeat = 2` in `MCCommandFile.cfg` shows it).
- `save_commands` (unused), plots, build files.

External, modelled from how the code uses them: KVM (completion of I/O, the vcpu mutex, interrupts, the page
walk and the slots), ksmd and its counts, getrandom, malloc, the C library's files, pthread barrier and join.

## 6. Plan

Done, in this order: `ScaCommands`, `CommandStream`, `VmThread` and its proofs, `SaveMeasures`, `Vmm`, `RandomFill`,
`CommandFile`, `Dedup`, `MemoryMap`, the steps of main before the barrier and the persistent exits in `Vmm` and `VmThread`;
then the proofs of `Vmm`, `SaveMeasures`, `CommandFile`, `Dedup` and `MemoryMap`, and that of `MeasuresAsExpected`.
To come, the most important first:

1. `KVM_RUN` errors that leave the exit reason as it was.
2. That `SaveMeasures` on the regions that `Vmm` leaves, and `Vmm` on the lists that `CommandFile` leaves, compose: the
   `inputs` of one are the results of the other, for which the theorems above give the two halves.
3. `save_measures` with repeats: where exactly its records go wrong.
