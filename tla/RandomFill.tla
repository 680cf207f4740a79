------------------------------ MODULE RandomFill -------------------------------
(***************************************************************************)
(* The loop that fills a region with random data, once in                  *)
(* init_shared_pages for the pages to be shared and once in vm_init for    *)
(* the own pages of a VM.  getrandom is external: asked for n units, it    *)
(* delivers n or, when a signal comes in the middle, fewer; or it fails    *)
(* (-1), when the signal comes first or the entropy pool is not ready, at  *)
(* most MaxFailures times in a behaviour.                                  *)
(*                                                                         *)
(* The unit is arbitrary: a byte in the code, a piece of the region here.  *)
(* Module Dedup goes on from the end of the loop.                          *)
(***************************************************************************)
EXTENDS Integers

CONSTANTS
  Size,         (* of the region, in units                          *)
  UintRange,    (* how many values the counter _s, a uint, can have *)
  MaxFailures

ASSUME SizeAssumption == Size \in Nat \ {0}
ASSUME UintRangeAssumption == UintRange \in Nat /\ UintRange > Size
ASSUME MaxFailuresAssumption == MaxFailures \in Nat

VARIABLES
  s,          (* _s: what getrandom has returned so far, summed up *)
  random,     (* the units that hold random data                   *)
  failures,   (* how often getrandom has failed                    *)
  pc          (* "loop" or "done"                                  *)

fillvars == <<s, random, failures, pc>>

FillTypeOK ==
  /\ s \in 0..(UintRange - 1)
  /\ random \subseteq 0..(Size - 1)
  /\ failures \in 0..MaxFailures
  /\ pc \in {"loop", "done"}

FillInit ==
  /\ s = 0
  /\ random = {}
  /\ failures = 0
  /\ pc = "loop"

InLoop == pc = "loop" /\ s < Size

(* The mutant: _s is assigned, not summed up. *)
LengthAssigned(n) == n % UintRange

(* The counter after a call that returned n. *)
LengthAfter(n) == (s + n) % UintRange

(* Every call writes at the start of the region. *)
Fill ==
  /\ InLoop
  /\ \E n \in 1..(Size - s) :
       /\ random' = random \cup 0..(n - 1)
       /\ s' = LengthAfter(n)
  /\ UNCHANGED <<failures, pc>>

(* The -1 is added to _s like a length. *)
FillFails ==
  /\ InLoop
  /\ failures < MaxFailures
  /\ failures' = failures + 1
  /\ s' = LengthAfter(-1)
  /\ UNCHANGED <<random, pc>>

LoopEnds ==
  /\ pc = "loop"
  /\ ~InLoop
  /\ pc' = "done"
  /\ UNCHANGED <<s, random, failures>>

FillStep == Fill \/ FillFails \/ LoopEnds

Filled == random = 0..(Size - 1)

(* The loop ends, however the data is split over short reads and failures: *)
(* every delivery moves _s on, and a failure takes back one unit or leaves *)
(* the loop.                                                               *)
FillEnds == <>(pc = "done")
================================================================================
