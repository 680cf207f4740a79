---------------------------- MODULE MemoryMapProofs ----------------------------
(***************************************************************************)
(* Proofs about the memory of a VM, for page tables of any size: the       *)
(* entries of the four levels do not overlap, the tables that              *)
(* init_pages_tables leaves map the pages below the limit to themselves    *)
(* and nothing above, and the assertions of vm_init hold exactly when KVM  *)
(* has accepted the slot of the page tables.                               *)
(***************************************************************************)
EXTENDS MemoryMap, TLAPS

--------------------------------------------------------------------------------
(* Arithmetic of the layout.                                               *)

LEMMA Sizes ==
  /\ Entries \in Nat /\ Entries >= 4 /\ AccessWidth \in Nat /\ AccessWidth >= 1
  /\ NbPd \in Nat /\ NbPd >= 1 /\ NbPd <= Entries
  /\ RunPages \in Nat /\ RunPages >= 1 /\ NbSamples \in Nat /\ NbSamples >= 1
  /\ NbOwnPages \in Nat /\ NbOwnPages >= 1 /\ NbSharedPages \in Nat /\ NbSharedPages >= 1
  /\ ExitCodeAddr \in 0..(RunPages * PageBytes - AccessWidth)
BY SizesAssumption

LEMMA DivBounds ==
  ASSUME NEW x \in Nat, NEW m \in Nat \ {0}
  PROVE  /\ x \div m \in Nat /\ x % m \in 0..(m - 1)
         /\ x = (x \div m) * m + (x % m)
BY SMT

(* The last page of stamps need not be full, but it is there. *)
LEMMA StampPages ==
  /\ MeasuresPages \in Nat /\ MeasuresPages >= 1
  /\ NbSamples <= MeasuresPages * Entries
<1> DEFINE n == NbSamples + Entries - 1
           q == n \div Entries
           r == n % Entries
<1>1. /\ n \in Nat /\ n = NbSamples + Entries - 1 /\ Entries \in Nat \ {0}
      /\ NbSamples \in Nat /\ NbSamples >= 1
  BY Sizes
<1>2. q \in Nat /\ r \in 0..(Entries - 1) /\ n = q * Entries + r
  <2> HIDE DEF n
  <2> QED BY <1>1, DivBounds
<1> HIDE DEF n, q, r
<1>3. NbSamples <= q * Entries
  BY <1>1, <1>2
<1>4. q >= 1
  BY <1>1, <1>2, <1>3, SMT
<1> QED BY <1>2, <1>3, <1>4 DEF MeasuresPages, q, n

LEMMA Addresses ==
  /\ MmioAddr = RunPages /\ PtAddr = RunPages + 1
  /\ PtPages \in Nat /\ PtPages = 3 + NbPd + NbPd * Entries
  /\ MeasuresAddr = PtAddr + PtPages /\ OwnAddr = MeasuresAddr + MeasuresPages
  /\ SharedAddr = OwnAddr + NbOwnPages /\ SharedAddr + NbSharedPages <= Limit
  /\ {PtAddr, MeasuresAddr, OwnAddr, SharedAddr} \subseteq Nat
  /\ Limit \in Nat /\ Limit = NbPd * Entries * Entries
  /\ NbPd * Entries \in Nat
<1>1. NbPd * Entries \in Nat /\ Limit \in Nat
  BY Sizes DEF Limit
<1>2. PtPages \in Nat /\ PtPages = 3 + NbPd + NbPd * Entries
  BY Sizes, <1>1 DEF PtPages
<1>3. SharedAddr + NbSharedPages <= Limit
  BY LayoutFits
<1> QED BY Sizes, StampPages, <1>1, <1>2, <1>3
        DEF MmioAddr, PtAddr, MeasuresAddr, OwnAddr, SharedAddr, Limit

(* Where the words of the four levels begin, and how many there are. *)
FirstWord(l) == FirstPage[l] * Entries

LEMMA LevelValues ==
  /\ FirstWord(1) = 0 /\ Count[1] = 1 /\ PointsTo[1] = PtAddr + 1
  /\ FirstWord(2) = Entries /\ Count[2] = NbPd /\ PointsTo[2] = PtAddr + 2
  /\ FirstWord(3) = 2 * Entries /\ Count[3] = NbPd * Entries
  /\ PointsTo[3] = PtAddr + 3 + NbPd
  /\ FirstWord(4) = (3 + NbPd) * Entries /\ Count[4] = NbPd * Entries * Entries
  /\ PointsTo[4] = 0
BY Sizes DEF FirstWord, FirstPage, Count, PointsTo, PtePage

LEMMA LevelTypes ==
  ASSUME NEW l \in Levels
  PROVE  FirstWord(l) \in Nat /\ Count[l] \in Nat \ {0} /\ PointsTo[l] \in Nat
<1>1. /\ NbPd * Entries \in Nat \ {0} /\ NbPd * Entries * Entries \in Nat \ {0}
      /\ (3 + NbPd) * Entries \in Nat
  BY Sizes, SMT
<1>2. l = 1 \/ l = 2 \/ l = 3 \/ l = 4
  BY DEF Levels
<1> QED BY <1>1, <1>2, LevelValues, Sizes, Addresses

(* The levels do not overlap. *)
LEMMA LevelsApart ==
  ASSUME NEW l \in Levels
  PROVE  /\ FirstWord(l) + Count[l] <= PtPages * Entries
         /\ \A m \in Levels : l < m => FirstWord(l) + Count[l] <= FirstWord(m)
<1> DEFINE pe == NbPd * Entries
           pee == NbPd * Entries * Entries
           te == (3 + NbPd) * Entries
           all == PtPages * Entries
<1>1. /\ pe \in Nat /\ pee \in Nat /\ te \in Nat /\ all \in Nat
      /\ te = 3 * Entries + pe /\ all = te + pee
  BY Sizes, Addresses, SMT
<1>2. l = 1 \/ l = 2 \/ l = 3 \/ l = 4
  BY DEF Levels
<1>3. /\ FirstWord(1) = 0 /\ Count[1] = 1 /\ FirstWord(2) = Entries /\ Count[2] = NbPd
      /\ FirstWord(3) = 2 * Entries /\ Count[3] = pe /\ FirstWord(4) = te /\ Count[4] = pee
  BY LevelValues
<1>4. PtPages * Entries = all
  OBVIOUS
<1>5. \A m \in Levels : m = 1 \/ m = 2 \/ m = 3 \/ m = 4
  BY DEF Levels
<1> HIDE DEF pe, pee, te, all
<1>6. FirstWord(l) + Count[l] <= PtPages * Entries
  BY <1>1, <1>2, <1>3, <1>4, Sizes
<1>7. \A m \in Levels : l < m => FirstWord(l) + Count[l] <= FirstWord(m)
  BY <1>1, <1>2, <1>3, <1>5, Sizes
<1> QED BY <1>6, <1>7

(* Every entry points into the mapped pages. *)
LEMMA PointsBelowLimit ==
  ASSUME NEW l \in Levels, NEW k \in 0..(Count[l] - 1)
  PROVE  PointsTo[l] + k \in 0..(Limit - 1)
<1>1. l = 1 \/ l = 2 \/ l = 3 \/ l = 4
  BY DEF Levels
<1>2. /\ PtAddr + PtPages <= Limit /\ NbPd * Entries \in Nat
      /\ PtPages = 3 + NbPd + NbPd * Entries /\ PtAddr \in Nat /\ Limit \in Nat
      /\ Limit = NbPd * Entries * Entries
  BY Addresses, Sizes, StampPages
<1>3. k \in Nat /\ k <= Count[l] - 1
  BY LevelTypes
<1> QED BY <1>1, <1>2, <1>3, LevelValues, Sizes

--------------------------------------------------------------------------------
(* init_pages_tables.                                                      *)

LEMMA InitInv ==
  ASSUME Init
  PROVE  IInv
<1>1. /\ Limit \in Nat /\ \A l \in Levels : Count[l] \in Nat \ {0}
  BY Addresses, LevelTypes
<1>2. TypeOK
  <2>1. table \in [0..(PtPages * Entries - 1) -> {NotPresent} \cup 0..(Limit - 1)]
    BY DEF Init
  <2>2. Len(SlotRegion) = 6
    BY DEF SlotRegion
  <2>3. level \in Levels /\ i \in 0..Count[level]
    <3>1. level = 1 /\ i = 0 /\ 1 \in Levels
      BY DEF Init, Levels
    <3> QED BY <1>1, <3>1
  <2> QED BY <2>1, <2>2, <2>3 DEF Init, TypeOK, Region, NoAccess
<1>3. TablesInv
  <2>1. ASSUME NEW l \in Levels PROVE Written(l) = 0
    BY DEF Init, Written, Levels
  <2>2. \A w \in DOMAIN table : table[w] = NotPresent
    BY DEF Init
  <2> QED BY <2>1, <2>2 DEF TablesInv
<1> QED BY <1>2, <1>3 DEF IInv, Init, AssertsGuardTables, AccessInv

LEMMA WrittenBounds ==
  ASSUME TypeOK, NEW l \in Levels
  PROVE  Written(l) \in 0..Count[l]
<1>1. Count[l] \in Nat /\ (l = level => i \in 0..Count[l])
  BY LevelTypes DEF TypeOK
<1> QED BY <1>1 DEF Written

(* The word that is written next has not been written before.              *)
LEMMA NextWordFree ==
  ASSUME IInv, WriteEntry
  PROVE  /\ FirstWord(level) + i \in DOMAIN table
         /\ table' = [table EXCEPT ![FirstWord(level) + i] = PointsTo[level] + i]
         /\ table[FirstWord(level) + i] = NotPresent
         /\ \A l \in Levels : \A k \in 0..(Written(l) - 1) :
              FirstWord(l) + k # FirstWord(level) + i
<1>1. /\ pc = "tables" /\ level \in Levels /\ i \in 0..(Count[level] - 1)
      /\ FirstWord(level) \in Nat /\ Count[level] \in Nat
      /\ FirstWord(level) + Count[level] <= PtPages * Entries
      /\ DOMAIN table = 0..(PtPages * Entries - 1)
  BY LevelTypes, LevelsApart DEF WriteEntry, MoreEntries, IInv, TypeOK
<1>2. PtPages * Entries \in Nat
  BY Sizes, Addresses, SMT
<1>3. FirstWord(level) + i \in DOMAIN table
  BY <1>1, <1>2
<1>4. ASSUME NEW l \in Levels, NEW k \in 0..(Written(l) - 1)
      PROVE  FirstWord(l) + k # FirstWord(level) + i
  <2>1. FirstWord(l) \in Nat /\ Count[l] \in Nat /\ l \in Nat /\ level \in Nat
    <3>1. FirstWord(l) \in Nat /\ Count[l] \in Nat
      BY LevelTypes
    <3>2. l \in Nat /\ level \in Nat
      BY <1>1 DEF Levels
    <3> QED BY <3>1, <3>2
  <2>2. CASE l < level
    <3>1. Written(l) = Count[l]
      BY <2>2 DEF Written
    <3>2. FirstWord(l) + Count[l] <= FirstWord(level)
      BY <1>1, <2>2, LevelsApart
    <3> QED BY <1>1, <2>1, <3>1, <3>2
  <2>3. CASE l = level
    <3>1. Written(l) = i
      BY <1>1, <2>1, <2>3 DEF Written
    <3> QED BY <1>1, <2>1, <2>3, <3>1
  <2>4. CASE l > level
    <3>1. Written(l) = 0
      BY <1>1, <2>1, <2>4 DEF Written
    <3> QED BY <3>1
  <2> QED BY <2>1, <2>2, <2>3, <2>4
<1>5. table[FirstWord(level) + i] = NotPresent
  <2>1. \/ table[FirstWord(level) + i] = NotPresent
        \/ \E l \in Levels : \E k \in 0..(Written(l) - 1) :
             FirstWord(level) + i = FirstWord(l) + k
    BY <1>3 DEF IInv, TablesInv, FirstWord
  <2> QED BY <1>4, <2>1
<1>6. table' = [table EXCEPT ![FirstWord(level) + i] = PointsTo[level] + i]
  <2>1. table' = [w \in DOMAIN table \cup {FirstWord(level) + i} |->
                    IF w = FirstWord(level) + i THEN PointsTo[level] + i ELSE table[w]]
    BY DEF WriteEntry, FirstWord
  <2>2. DOMAIN table \cup {FirstWord(level) + i} = DOMAIN table
    BY <1>3
  <2>3. table = [w \in DOMAIN table |-> table[w]]
    BY DEF IInv, TypeOK
  <2> QED BY <2>1, <2>2, <2>3
<1> QED BY <1>3, <1>4, <1>5, <1>6

LEMMA WriteStep ==
  ASSUME IInv, WriteEntry
  PROVE  IInv'
<1> DEFINE w0 == FirstWord(level) + i
<1>1. /\ pc = "tables" /\ level \in Levels /\ i \in 0..(Count[level] - 1)
      /\ Count[level] \in Nat /\ PointsTo[level] \in Nat
      /\ table' = [table EXCEPT ![w0] = PointsTo[level] + i] /\ i' = i + 1
      /\ UNCHANGED <<role, pc, level, slot, slots, access>>
  BY LevelTypes, NextWordFree DEF WriteEntry, MoreEntries, IInv, TypeOK, FirstWord
<1>2. /\ w0 \in DOMAIN table
      /\ \A l \in Levels : \A k \in 0..(Written(l) - 1) : FirstWord(l) + k # w0
  BY NextWordFree
<1>3. PointsTo[level] + i \in 0..(Limit - 1)
  BY <1>1, PointsBelowLimit
<1> HIDE DEF w0
<1>4. TypeOK'
  <2>1. table' \in [0..(PtPages * Entries - 1) -> {NotPresent} \cup 0..(Limit - 1)]
    BY <1>1, <1>2, <1>3 DEF IInv, TypeOK
  <2>2. i' \in 0..Count[level]
    BY <1>1
  <2> QED BY <1>1, <2>1, <2>2 DEF IInv, TypeOK
<1>5. ASSUME NEW l \in Levels
      PROVE  Written(l)' = IF l = level THEN Written(l) + 1 ELSE Written(l)
  BY <1>1 DEF Written, Levels
<1>6. Written(level) = i
  BY <1>1 DEF Written, Levels
<1>7. \A l \in Levels : Written(l) \in Nat /\ FirstWord(l) \in Nat
  BY WrittenBounds, LevelTypes DEF IInv
<1>8. DOMAIN table' = DOMAIN table
  BY <1>1
<1>9. ASSUME NEW l \in Levels, NEW k \in 0..(Written(l)' - 1)
      PROVE  table'[FirstPage[l] * Entries + k] = PointsTo[l] + k
  <2>1. CASE l = level /\ k = i
    BY <1>1, <1>2, <2>1 DEF FirstWord, w0
  <2>2. CASE ~(l = level /\ k = i)
    <3>1. k \in 0..(Written(l) - 1)
      BY <1>1, <1>5, <1>6, <1>7, <2>2
    <3>2. FirstWord(l) + k # w0 /\ table[FirstWord(l) + k] = PointsTo[l] + k
      BY <1>2, <3>1 DEF IInv, TablesInv, FirstWord
    <3>3. FirstWord(l) + k \in DOMAIN table
      <4>1. /\ FirstWord(l) + Count[l] <= PtPages * Entries /\ Count[l] \in Nat
            /\ FirstWord(l) \in Nat /\ Written(l) \in 0..Count[l]
        BY LevelTypes, LevelsApart, WrittenBounds DEF IInv
      <4>2. PtPages * Entries \in Nat
        BY Sizes, Addresses, SMT
      <4> QED BY <3>1, <4>1, <4>2 DEF IInv, TypeOK
    <3> QED BY <1>1, <3>2, <3>3 DEF FirstWord
  <2> QED BY <2>1, <2>2
<1>10. ASSUME NEW w \in DOMAIN table', table'[w] # NotPresent
       PROVE  \E l \in Levels : \E k \in 0..(Written(l)' - 1) : w = FirstPage[l] * Entries + k
  <2>1. CASE w = w0
    <3>1. i \in 0..(Written(level)' - 1)
      BY <1>1, <1>5, <1>6
    <3> QED BY <1>1, <2>1, <3>1 DEF w0, FirstWord
  <2>2. CASE w # w0
    <3>1. table[w] # NotPresent /\ w \in DOMAIN table
      BY <1>1, <1>8, <1>10, <2>2
    <3>2. PICK l \in Levels : \E k \in 0..(Written(l) - 1) : w = FirstPage[l] * Entries + k
      BY <3>1 DEF IInv, TablesInv
    <3>3. PICK k \in 0..(Written(l) - 1) : w = FirstPage[l] * Entries + k
      BY <3>2
    <3>4. k \in 0..(Written(l)' - 1)
      BY <1>5, <1>7
    <3> QED BY <3>3, <3>4
  <2> QED BY <2>1, <2>2
<1>11. TablesInv'
  BY <1>9, <1>10 DEF TablesInv
<1> QED BY <1>1, <1>4, <1>11 DEF IInv, AssertsGuardTables, AccessInv

LEMMA LevelStep ==
  ASSUME IInv, LevelDone
  PROVE  IInv'
<1>1. /\ pc = "tables" /\ level \in Levels /\ Count[level] \in Nat /\ i = Count[level]
      /\ i' = 0 /\ UNCHANGED <<role, table, slot, slots, access>>
  BY LevelTypes DEF LevelDone, MoreEntries, IInv, TypeOK
<1>2. \/ level < 4 /\ level' = level + 1 /\ pc' = pc
      \/ level = 4 /\ level' = level /\ pc' = "slots"
  BY <1>1 DEF LevelDone, Levels
<1>3. level' \in Levels
  BY <1>1, <1>2 DEF Levels
<1>4. TypeOK'
  <2>1. i' \in 0..Count[level']
    BY <1>1, <1>3, LevelTypes
  <2> QED BY <1>1, <1>2, <1>3, <2>1 DEF IInv, TypeOK
<1>5. ASSUME NEW l \in Levels
      PROVE  Written(l)' = Written(l)
  BY <1>1, <1>2 DEF Written, Levels
<1>6. TablesInv'
  BY <1>1, <1>5 DEF IInv, TablesInv
<1> QED BY <1>1, <1>2, <1>4, <1>6 DEF IInv, AssertsGuardTables, AccessInv

--------------------------------------------------------------------------------
(* The walk of the vcpu.                                                   *)

(* An entry of a level, once all are written. *)
LEMMA EntryAt ==
  ASSUME IInv, pc # "tables", "PT" \in slots,
         NEW l \in Levels, NEW k \in 0..(Count[l] - 1)
  PROVE  table[FirstWord(l) + k] = PointsTo[l] + k
<1>1. Written(l) = Count[l]
  BY DEF Written
<1> QED BY <1>1 DEF IInv, TablesInv, FirstWord

(* The words between the levels are zero. *)
LEMMA FreeWord ==
  ASSUME IInv, pc # "tables", NEW w \in DOMAIN table,
         \A l \in Levels : w \notin FirstWord(l)..(FirstWord(l) + Count[l] - 1)
  PROVE  table[w] = NotPresent
<1>1. SUFFICES ASSUME NEW l \in Levels, NEW k \in 0..(Written(l) - 1),
                      w = FirstPage[l] * Entries + k
               PROVE  FALSE
  BY DEF IInv, TablesInv
<1>2. Written(l) = Count[l] /\ FirstWord(l) \in Nat /\ Count[l] \in Nat
  BY LevelTypes DEF Written
<1> QED BY <1>1, <1>2 DEF FirstWord

(* The word of the entry that a walk reads from page n of the tables. *)
LEMMA EntryInTables ==
  ASSUME "PT" \in slots, NEW n \in 0..(PtPages - 1), NEW k
  PROVE  Entry(PtAddr + n, k) = table[n * Entries + k]
<1>1. PtAddr \in Nat /\ PtPages \in Nat
  BY Addresses
<1>2. PtAddr + n \in PagesOf("PT")
  BY <1>1 DEF PagesOf, Base, Size
<1> DEFINE page == PtAddr + n
<1>3. page - PtAddr = n
  BY <1>1
<1>4. Entry(page, k) = table[(page - PtAddr) * Entries + k]
  BY <1>2 DEF Entry
<1> HIDE DEF page
<1>5. Entry(page, k) = table[n * Entries + k]
  BY <1>3, <1>4
<1> QED BY <1>5 DEF page

LEMMA EntryAbsent ==
  ASSUME NEW k
  PROVE  Entry(NotPresent, k) = NotPresent
<1>1. NotPresent \notin PagesOf("PT")
  BY Addresses DEF PagesOf, Base, Size, NotPresent
<1> QED BY <1>1 DEF Entry

(* The digits of an address in base Entries. *)
LEMMA Digits ==
  ASSUME NEW x \in 0..(Entries * Span[4] - 1)
  PROVE  /\ \A n \in 0..3 : Digit(x, n) \in 0..(Entries - 1)
         /\ x = ((Digit(x, 3) * Entries + Digit(x, 2)) * Entries + Digit(x, 1)) * Entries
                  + Digit(x, 0)
<1> DEFINE E == Entries
           a == x \div E
           b == x \div (E * E)
           c == x \div (E * E * E)
<1>1. E \in Nat \ {0} /\ x \in Nat /\ x < E * (E * E * E)
  BY Sizes DEF Span
<1>2. /\ Span[1] = 1 /\ Span[2] = E /\ Span[3] = E * E /\ Span[4] = E * E * E
      /\ E * E \in Nat \ {0} /\ E * E * E \in Nat \ {0}
  BY <1>1, SMT DEF Span
<1>3. /\ Digit(x, 0) = x % E /\ Digit(x, 1) = a % E
      /\ Digit(x, 2) = b % E /\ Digit(x, 3) = c % E
  <2>1. x \div 1 = x
    BY <1>1, SMT
  <2> QED BY <1>2, <2>1 DEF Digit
<1>4. a \in Nat /\ x = a * E + (x % E) /\ x % E \in 0..(E - 1)
  BY <1>1, DivBounds
<1>5. b \in Nat /\ b = a \div E
  BY <1>1, <1>2, SMT
<1>6. c \in Nat /\ c = b \div E
  BY <1>1, <1>2, SMT
<1> HIDE DEF E, a, b, c
<1>7. a = b * E + (a % E) /\ a % E \in 0..(E - 1)
  BY <1>1, <1>4, <1>5, DivBounds
<1>8. b = c * E + (b % E) /\ b % E \in 0..(E - 1)
  BY <1>1, <1>5, <1>6, DivBounds
<1>9. c < E
  BY <1>1, <1>2, SMT DEF c
<1>10. c % E = c
  BY <1>1, <1>6, <1>9, SMT
<1>11. \A n \in 0..3 : Digit(x, n) \in 0..(E - 1)
  <2>1. c \in 0..(E - 1)
    BY <1>1, <1>6, <1>9
  <2>2. /\ Digit(x, 0) \in 0..(E - 1) /\ Digit(x, 1) \in 0..(E - 1)
        /\ Digit(x, 2) \in 0..(E - 1) /\ Digit(x, 3) \in 0..(E - 1)
    BY <1>3, <1>4, <1>7, <1>8, <1>10, <2>1
  <2>3. \A n \in 0..3 : n = 0 \/ n = 1 \/ n = 2 \/ n = 3
    OBVIOUS
  <2> QED BY <2>2, <2>3
<1>12. x = ((Digit(x, 3) * E + Digit(x, 2)) * E + Digit(x, 1)) * E + Digit(x, 0)
  BY <1>3, <1>4, <1>7, <1>8, <1>10
<1> QED BY <1>11, <1>12 DEF E

(* The words that follow the one of the PML4, and those of the PDPT.       *)
LEMMA NoEntry ==
  ASSUME IInv, pc # "tables",
         NEW w \in 0..(2 * Entries - 1),
         w \in 1..(Entries - 1) \/ w >= Entries + NbPd
  PROVE  table[w] = NotPresent
<1>1. \A l \in Levels : l = 1 \/ l = 2 \/ l = 3 \/ l = 4
  BY DEF Levels
<1>2. /\ FirstWord(1) = 0 /\ Count[1] = 1 /\ FirstWord(2) = Entries /\ Count[2] = NbPd
      /\ FirstWord(3) = 2 * Entries /\ FirstWord(4) >= 2 * Entries
      /\ FirstWord(4) \in Nat
  BY LevelValues, Sizes, SMT
<1>3. \A l \in Levels : FirstWord(l) \in Nat /\ Count[l] \in Nat
  BY LevelTypes
<1>4. ASSUME NEW l \in Levels PROVE w \notin FirstWord(l)..(FirstWord(l) + Count[l] - 1)
  BY <1>1, <1>2, <1>3, Sizes
<1>5. w \in DOMAIN table
  <2>1. 2 * Entries <= PtPages * Entries /\ PtPages * Entries \in Nat
    <3>1. NbPd * Entries \in Nat /\ PtPages \in Nat /\ 2 <= PtPages
      BY Sizes, Addresses
    <3> QED BY Sizes, <3>1, SMT
  <2> QED BY Sizes, <2>1 DEF IInv, TypeOK
<1> QED BY <1>4, <1>5, FreeWord

(* The walk of a page of the mapped gigabytes. *)
LEMMA WalkMapped ==
  ASSUME IInv, pc # "tables", "PT" \in slots,
         NEW d2 \in 0..(NbPd - 1), NEW d1 \in 0..(Entries - 1), NEW d0 \in 0..(Entries - 1)
  PROVE  Entry(Entry(Entry(Entry(Cr3, 0), d2), d1), d0) = (d2 * Entries + d1) * Entries + d0
<1> DEFINE E == Entries
           m == d2 * E + d1
           k == m * E + d0
           pe == NbPd * E
           n == 3 + NbPd + m
<1>1. /\ E \in Nat /\ E >= 4 /\ NbPd \in Nat /\ NbPd >= 1
      /\ d2 \in Nat /\ d2 + 1 <= NbPd /\ d1 \in Nat /\ d1 + 1 <= E /\ d0 \in Nat /\ d0 + 1 <= E
  BY Sizes
<1>2. /\ d2 * E \in Nat /\ d2 * E + E <= pe /\ pe \in Nat
      /\ m \in Nat /\ m = d2 * E + d1
      /\ n \in Nat /\ n = 3 + NbPd + m
  <2> HIDE DEF E
  <2> QED BY <1>1, SMT
<1>3. m + 1 <= pe
  <2> HIDE DEF m, pe, E
  <2> QED BY <1>1, <1>2
<1>4. m * E \in Nat /\ m * E + E <= pe * E /\ pe * E \in Nat /\ k \in Nat /\ k = m * E + d0
  <2> HIDE DEF m, pe, E
  <2> QED BY <1>1, <1>2, <1>3, SMT
<1>5. /\ PtPages \in Nat /\ PtPages = 3 + NbPd + pe /\ PtAddr \in Nat
      /\ FirstWord(2) = E /\ FirstWord(3) = 2 * E /\ FirstWord(4) = (3 + NbPd) * E
      /\ FirstWord(1) = 0 /\ PointsTo[1] = PtAddr + 1 /\ PointsTo[2] = PtAddr + 2
      /\ PointsTo[3] = PtAddr + 3 + NbPd /\ PointsTo[4] = 0
      /\ Count[1] = 1 /\ Count[2] = NbPd /\ Count[3] = pe /\ Count[4] = pe * E
      /\ 1 \in Levels /\ 2 \in Levels /\ 3 \in Levels /\ 4 \in Levels
  BY LevelValues, Addresses DEF Levels
<1>6. (2 + d2) * E + d1 = 2 * E + m /\ n * E + d0 = (3 + NbPd) * E + k
  <2>1. (2 + d2) * E + d1 = 2 * E + m
    <3> HIDE DEF E
    <3> QED BY <1>1, SMT
  <2>2. n * E + d0 = (3 + NbPd) * E + k
    <3> HIDE DEF E, m
    <3> QED BY <1>1, <1>2, SMT
  <2> QED BY <2>1, <2>2
<1> HIDE DEF E, m, k, pe, n
<1>7. /\ 0 \in 0..(Count[1] - 1) /\ d2 \in 0..(Count[2] - 1)
      /\ m \in 0..(Count[3] - 1) /\ k \in 0..(Count[4] - 1)
      /\ {0, 1, 2 + d2, n} \subseteq 0..(PtPages - 1)
  BY <1>1, <1>2, <1>3, <1>4, <1>5
<1>8. Entry(Cr3, 0) = PtAddr + 1
  <2>1. Entry(PtAddr + 0, 0) = table[0 * Entries + 0]
    BY <1>7, EntryInTables
  <2>2. PtAddr + 0 = PtAddr /\ 0 * Entries + 0 = FirstWord(1) + 0
    BY <1>5, Sizes
  <2>3. table[FirstWord(1) + 0] = PointsTo[1] + 0
    BY <1>5, <1>7, EntryAt
  <2> QED BY <1>5, <2>1, <2>2, <2>3 DEF Cr3
<1>9. Entry(PtAddr + 1, d2) = PtAddr + (2 + d2)
  <2>1. Entry(PtAddr + 1, d2) = table[1 * Entries + d2]
    BY <1>7, EntryInTables
  <2>2. 1 * Entries + d2 = FirstWord(2) + d2
    BY <1>1, <1>5 DEF E
  <2>3. table[FirstWord(2) + d2] = PointsTo[2] + d2
    BY <1>5, <1>7, EntryAt
  <2> QED BY <1>1, <1>5, <2>1, <2>2, <2>3
<1>10. Entry(PtAddr + (2 + d2), d1) = PtAddr + n
  <2>1. Entry(PtAddr + (2 + d2), d1) = table[(2 + d2) * Entries + d1]
    BY <1>7, EntryInTables
  <2>2. (2 + d2) * Entries + d1 = FirstWord(3) + m
    BY <1>5, <1>6 DEF E
  <2>3. table[FirstWord(3) + m] = PointsTo[3] + m
    BY <1>5, <1>7, EntryAt
  <2> QED BY <1>1, <1>2, <1>5, <2>1, <2>2, <2>3
<1>11. Entry(PtAddr + n, d0) = k
  <2>1. Entry(PtAddr + n, d0) = table[n * Entries + d0]
    BY <1>7, EntryInTables
  <2>2. n * Entries + d0 = FirstWord(4) + k
    BY <1>5, <1>6 DEF E
  <2>3. table[FirstWord(4) + k] = PointsTo[4] + k
    BY <1>5, <1>7, EntryAt
  <2> QED BY <1>4, <1>5, <2>1, <2>2, <2>3
<1> QED BY <1>8, <1>9, <1>10, <1>11 DEF k, m, E

(* Identity below the limit, nothing above it. *)
LEMMA Identity ==
  ASSUME IInv, pc # "tables", "PT" \in slots, NEW x \in 0..(Entries * Span[4] - 1)
  PROVE  Translate(x) = IF x < Limit THEN x ELSE NotPresent
<1> DEFINE E == Entries
           d3 == Digit(x, 3)
           d2 == Digit(x, 2)
           d1 == Digit(x, 1)
           d0 == Digit(x, 0)
<1>1. /\ {d0, d1, d2, d3} \subseteq 0..(E - 1)
      /\ x = ((d3 * E + d2) * E + d1) * E + d0
  BY Digits
<1>2. Translate(x) = Entry(Entry(Entry(Entry(Cr3, d3), d2), d1), d0)
  BY DEF Translate
<1>3. /\ E \in Nat /\ E >= 4 /\ NbPd \in Nat /\ NbPd >= 1 /\ NbPd <= E /\ Limit = NbPd * E * E
  BY Sizes, Addresses
<1>4. PtPages \in Nat /\ PtPages >= 2 /\ PtAddr \in Nat
  BY Addresses, Sizes
<1> HIDE DEF d0, d1, d2, d3
<1>5. Entry(Cr3, d3) = table[d3]
  <2>1. Entry(PtAddr + 0, d3) = table[0 * Entries + d3]
    BY <1>4, EntryInTables
  <2>2. PtAddr + 0 = PtAddr /\ 0 * Entries + d3 = d3
    BY <1>1, <1>3, <1>4
  <2> QED BY <2>1, <2>2 DEF Cr3
<1>6. CASE d3 # 0
  <2>1. table[d3] = NotPresent
    <3>1. d3 \in 0..(2 * Entries - 1) /\ d3 \in 1..(Entries - 1)
      BY <1>1, <1>3, <1>6
    <3> QED BY <3>1, NoEntry
  <2>2. Limit <= x
    <3>1. d3 * E + d2 >= E
      <4> HIDE DEF E
      <4>1. d3 \in Nat /\ d3 >= 1 /\ d2 \in Nat
        BY <1>1, <1>3, <1>6
      <4>2. d3 * E >= E /\ d3 * E \in Nat
        BY <1>3, <4>1, SMT
      <4> QED BY <1>3, <4>1, <4>2
    <3>2. d3 * E + d2 \in Nat /\ d3 * E + d2 >= NbPd
      <4> HIDE DEF E
      <4> QED BY <1>1, <1>3, <3>1, SMT
    <3> DEFINE y == d3 * E + d2
    <3> HIDE DEF y, E
    <3>3. y * E >= NbPd * E /\ y * E \in Nat /\ NbPd * E \in Nat
      BY <1>3, <3>2, SMT DEF y
    <3>4. y * E + d1 >= NbPd * E /\ y * E + d1 \in Nat
      BY <1>1, <3>3
    <3>5. (y * E + d1) * E >= NbPd * E * E /\ (y * E + d1) * E \in Nat /\ NbPd * E * E \in Nat
      BY <1>3, <3>3, <3>4, SMT
    <3> QED BY <1>1, <1>3, <3>5 DEF y
  <2>3. x \in Nat /\ Limit \in Nat
    BY Addresses, <1>1
  <2> QED BY <1>2, <1>5, <2>1, <2>2, <2>3, EntryAbsent
<1>7. CASE d3 = 0
  <2>1. x = (d2 * E + d1) * E + d0
    <3> HIDE DEF E
    <3> QED BY <1>1, <1>3, <1>7
  <2>2. CASE d2 < NbPd
    <3>1. d2 \in 0..(NbPd - 1)
      BY <1>1, <1>3, <2>2
    <3>2. Translate(x) = x
      BY <1>1, <1>2, <1>7, <2>1, <3>1, WalkMapped
    <3>3. x < Limit
      <4> HIDE DEF E
      <4>1. d2 * E + E <= NbPd * E /\ d2 * E \in Nat /\ NbPd * E \in Nat
        BY <1>1, <1>3, <2>2, SMT
      <4>2. d2 * E + d1 \in Nat /\ d2 * E + d1 + 1 <= NbPd * E
        BY <1>1, <1>3, <4>1
      <4> DEFINE y == d2 * E + d1
                 z == NbPd * E
      <4> HIDE DEF y, z
      <4>3. y * E + E <= z * E /\ y * E \in Nat /\ z * E \in Nat
        BY <1>3, <4>1, <4>2, SMT DEF y, z
      <4> QED BY <1>1, <1>3, <2>1, <4>3 DEF y, z
    <3> QED BY <3>2, <3>3
  <2>3. CASE ~(d2 < NbPd)
    <3>1. table[d3] = PtAddr + 1
      <4>1. 1 \in Levels /\ 0 \in 0..(Count[1] - 1) /\ FirstWord(1) + 0 = 0 /\ PointsTo[1] + 0 = PtAddr + 1
        BY LevelValues, <1>4 DEF Levels
      <4>2. table[FirstWord(1) + 0] = PointsTo[1] + 0
        BY <4>1, EntryAt
      <4> QED BY <1>7, <4>1, <4>2
    <3>2. Entry(PtAddr + 1, d2) = table[1 * Entries + d2]
      BY <1>4, EntryInTables
    <3>3. table[1 * Entries + d2] = NotPresent
      <4>1. /\ 1 * Entries + d2 \in 0..(2 * Entries - 1)
            /\ 1 * Entries + d2 >= Entries + NbPd
        BY <1>1, <1>3, <2>3
      <4> QED BY <4>1, NoEntry
    <3>4. Translate(x) = NotPresent
      BY <1>2, <1>5, <3>1, <3>2, <3>3, EntryAbsent
    <3>5. Limit <= x
      <4> HIDE DEF E
      <4>1. d2 * E >= NbPd * E /\ d2 * E \in Nat /\ NbPd * E \in Nat
        BY <1>1, <1>3, <2>3, SMT
      <4>2. d2 * E + d1 \in Nat /\ d2 * E + d1 >= NbPd * E
        BY <1>1, <4>1
      <4> DEFINE y == d2 * E + d1
                 z == NbPd * E
      <4> HIDE DEF y, z
      <4>3. y * E >= z * E /\ y * E \in Nat /\ z * E \in Nat
        BY <1>3, <4>1, <4>2, SMT DEF y, z
      <4> QED BY <1>1, <1>3, <2>1, <4>3 DEF y, z
    <3>6. x \in Nat /\ Limit \in Nat
      BY Addresses, <1>1
    <3> QED BY <3>4, <3>5, <3>6
  <2> QED BY <2>2, <2>3
<1> QED BY <1>6, <1>7

--------------------------------------------------------------------------------
(* The slots, the assertions and the accesses.                             *)

LEMMA AddressesMapped ==
  /\ {MeasuresAddr, OwnAddr, SharedAddr, Limit} \subseteq 0..(Entries * Span[4] - 1)
  /\ \A a \in {MeasuresAddr, OwnAddr, SharedAddr} : a < Limit
<1> DEFINE E == Entries
           e3 == E * E * E
<1>1. E \in Nat /\ E >= 4 /\ NbPd \in Nat /\ NbPd >= 1 /\ NbPd <= E
  BY Sizes
<1>2. Span[4] = e3
  BY DEF Span
<1>3. /\ Limit \in Nat /\ Limit = NbPd * E * E
      /\ {MeasuresAddr, OwnAddr, SharedAddr} \subseteq Nat
  BY Addresses
<1>4. \A a \in {MeasuresAddr, OwnAddr, SharedAddr} : a < Limit
  BY Addresses, Sizes, StampPages
<1> HIDE DEF E
<1>5. e3 \in Nat /\ e3 >= 1 /\ Limit <= e3
  <2>1. NbPd * E <= E * E /\ NbPd * E \in Nat /\ E * E \in Nat /\ E * E >= 1
    BY <1>1, SMT
  <2> DEFINE y == NbPd * E
             z == E * E
  <2> HIDE DEF y, z
  <2>2. y * E <= z * E /\ z * E >= 1 /\ z * E \in Nat
    BY <1>1, <2>1, SMT DEF y, z
  <2> QED BY <1>3, <2>2 DEF y, z
<1> HIDE DEF e3
<1>6. E * e3 >= e3 + 1 /\ E * e3 \in Nat
  BY <1>1, <1>5, SMT
<1>7. Limit \in 0..(E * e3 - 1)
  BY <1>3, <1>5, <1>6
<1>8. {MeasuresAddr, OwnAddr, SharedAddr} \subseteq 0..(E * e3 - 1)
  BY <1>3, <1>4, <1>7, <1>6
<1> QED BY <1>2, <1>4, <1>7, <1>8 DEF E

(* vm_init aborts exactly when KVM has refused the slot of the tables. *)
LEMMA AssertsAsGuard ==
  ASSUME IInv, pc # "tables"
  PROVE  Asserts <=> "PT" \in slots
<1>1. CASE "PT" \in slots
  <2>1. \A a \in {MeasuresAddr, OwnAddr, SharedAddr} : Translate(a) = a
    BY <1>1, Identity, AddressesMapped
  <2>2. Translate(Limit) = NotPresent
    <3>1. ~(Limit < Limit)
      BY Addresses
    <3> QED BY <1>1, <3>1, Identity, AddressesMapped
  <2> QED BY <1>1, <2>1, <2>2 DEF Asserts
<1>2. CASE "PT" \notin slots
  <2>1. \A page, k : Entry(page, k) = NotPresent
    BY <1>2 DEF Entry
  <2>2. Translate(MeasuresAddr) = NotPresent
    BY <2>1 DEF Translate
  <2>3. MeasuresAddr # NotPresent
    BY Addresses DEF NotPresent
  <2> QED BY <1>2, <2>2, <2>3 DEF Asserts
<1> QED BY <1>1, <1>2

LEMMA SlotStep ==
  ASSUME IInv, SetSlot \/ SlotsDone \/ Assert
  PROVE  IInv'
<1>1. /\ pc \in {"slots", "asserts"}
      /\ UNCHANGED <<role, level, i, table, access>>
  BY DEF SetSlot, SlotsDone, Assert
<1>2. pc' \in {"slots", "asserts", "run", "aborted"}
  BY DEF SetSlot, SlotsDone, Assert
<1>3. TablesInv'
  <2>1. ASSUME NEW l \in Levels PROVE Written(l)' = Written(l)
    BY <1>1, <1>2 DEF Written
  <2> QED BY <1>1, <2>1 DEF IInv, TablesInv
<1>4. access = NoAccess
  BY <1>1 DEF IInv, AccessInv
<1>5. TypeOK'
  <2>1. slot' \in 0..Len(SlotRegion) /\ slots' \subseteq SlotsOf(role)
    <3>1. Len(SlotRegion) = 6
      BY DEF SlotRegion
    <3> QED BY <3>1 DEF SetSlot, SlotsDone, Assert, IInv, TypeOK
  <2> QED BY <1>1, <1>2, <2>1 DEF IInv, TypeOK
<1>6. AssertsGuardTables'
  <2>1. CASE Assert
    BY <1>1, <2>1, AssertsAsGuard DEF Assert, AssertsGuardTables
  <2>2. CASE SetSlot \/ SlotsDone
    BY <2>2 DEF SetSlot, SlotsDone, AssertsGuardTables
  <2> QED BY <2>1, <2>2
<1> QED BY <1>1, <1>3, <1>4, <1>5, <1>6 DEF IInv, AccessInv

LEMMA AccessRegions ==
  ASSUME NEW a \in Accesses
  PROVE  a.region \in Region
BY DEF Accesses, RunAccess, ParameterAccess, StampAccess, TargetAccess, AccessOf, Region

(* The accesses of a role do not change. *)
LEMMA SameAccesses ==
  ASSUME role' = role
  PROVE  Accesses' = Accesses
<1>1. TargetAccess' = TargetAccess
  BY DEF TargetAccess, AccessOf, FirstByte, BytesOf, Base, Size
<1>2. /\ RunAccess' = RunAccess /\ ParameterAccess' = ParameterAccess
      /\ StampAccess' = StampAccess
  BY DEF RunAccess, ParameterAccess, StampAccess, AccessOf, FirstByte, Base, Size
<1> QED BY <1>1, <1>2 DEF Accesses

LEMMA AccessStep ==
  ASSUME IInv, GuestAccess
  PROVE  IInv'
<1>1. /\ pc = "run" /\ access' \in Accesses
      /\ UNCHANGED <<role, pc, level, i, table, slot, slots>>
  BY DEF GuestAccess
<1>2. TypeOK'
  <2>1. access'.region \in Region
    BY <1>1, AccessRegions
  <2> QED BY <1>1, <2>1 DEF IInv, TypeOK
<1>3. TablesInv'
  BY <1>1 DEF IInv, TablesInv, Written
<1>4. AccessInv'
  BY <1>1, SameAccesses DEF AccessInv
<1> QED BY <1>1, <1>2, <1>3, <1>4 DEF IInv, AssertsGuardTables

LEMMA StepInv ==
  ASSUME IInv, [Next]_vars
  PROVE  IInv'
<1>1. CASE UNCHANGED vars
  <2>1. UNCHANGED <<role, pc, level, i, table, slot, slots, access>>
    BY <1>1 DEF vars
  <2>2. TypeOK' /\ AssertsGuardTables'
    BY <2>1 DEF IInv, TypeOK, AssertsGuardTables
  <2>3. TablesInv'
    BY <2>1 DEF IInv, TablesInv, Written
  <2>4. AccessInv'
    BY <2>1, SameAccesses DEF IInv, AccessInv
  <2> QED BY <2>2, <2>3, <2>4 DEF IInv
<1> QED BY <1>1, WriteStep, LevelStep, SlotStep, AccessStep DEF Next, Stopped

--------------------------------------------------------------------------------
(* Where the accesses go.                                                  *)

LEMMA RegionsApart ==
  ASSUME NEW region \in Region
  PROVE  /\ Base[region] \in Nat /\ Size[region] \in Nat
         /\ Base[region] + Size[region] <= Limit
         /\ \A other \in Region : other # region => PagesOf(other) \cap PagesOf(region) = {}
<1>1. \A r \in Region :
        r = "RUN" \/ r = "MMIO" \/ r = "PT" \/ r = "MEASURES" \/ r = "OWN" \/ r = "SHARED"
  BY DEF Region
<1>2. /\ Base["RUN"] = 0 /\ Size["RUN"] = RunPages
      /\ Base["MMIO"] = RunPages /\ Size["MMIO"] = 1
      /\ Base["PT"] = PtAddr /\ Size["PT"] = PtPages
      /\ Base["MEASURES"] = MeasuresAddr /\ Size["MEASURES"] = MeasuresPages
      /\ Base["OWN"] = OwnAddr /\ Size["OWN"] = NbOwnPages
      /\ Base["SHARED"] = SharedAddr /\ Size["SHARED"] = NbSharedPages
  BY Addresses DEF Base, Size
<1>3. \A r \in Region : Base[r] \in Nat /\ Size[r] \in Nat /\ Base[r] + Size[r] <= Limit
  BY <1>1, <1>2, Addresses, Sizes, StampPages
<1>4. \A r, q \in Region : r # q => Base[r] + Size[r] <= Base[q] \/ Base[q] + Size[q] <= Base[r]
  BY <1>1, <1>2, Addresses, Sizes, StampPages
<1>5. ASSUME NEW other \in Region, other # region
      PROVE  PagesOf(other) \cap PagesOf(region) = {}
  BY <1>3, <1>4, <1>5 DEF PagesOf
<1> QED BY <1>3, <1>5

LEMMA PageOfByte ==
  ASSUME NEW region \in Region, NEW byte \in BytesOf(region)
  PROVE  byte \div PageBytes \in PagesOf(region)
<1> DEFINE m == PageBytes
           b == Base[region]
           n == Base[region] + Size[region]
<1>1. m \in Nat \ {0}
  BY Sizes, SMT DEF PageBytes
<1>2. /\ b \in Nat /\ n \in Nat
      /\ b = Base[region] /\ n = Base[region] + Size[region]
      /\ Base[region] \in Nat /\ Size[region] \in Nat
  BY RegionsApart
<1>3. byte \in (b * m) .. (n * m - 1)
  BY DEF BytesOf
<1> HIDE DEF m, b, n
<1>4. b * m \in Nat /\ n * m \in Nat
  BY <1>1, <1>2, SMT
<1>5. byte \in Nat /\ b * m <= byte /\ byte < n * m
  BY <1>3, <1>4
<1> DEFINE q == byte \div m
<1>6. q \in Nat /\ b <= q /\ q < n
  BY <1>1, <1>2, <1>5, SMT
<1> HIDE DEF q
<1>7. q = byte \div PageBytes
  BY DEF m, q
<1>8. q \in PagesOf(region)
  BY <1>2, <1>6 DEF PagesOf
<1> QED BY <1>7, <1>8

(* A byte of a region is served by that region, or exits. *)
LEMMA ByteServed ==
  ASSUME IInv, pc = "run", NEW region \in Region, NEW byte \in BytesOf(region),
         NEW write \in BOOLEAN, write => region # "MMIO"
  PROVE  Served(byte, write) = IF region \in slots THEN region ELSE "exit"
<1> DEFINE page == byte \div PageBytes
           takes == {r \in slots : page \in PagesOf(r) /\ ~(write /\ r = "MMIO")}
<1>1. page \in PagesOf(region)
  BY PageOfByte
<1>2. page \in 0..(Limit - 1) /\ Limit \in Nat
  BY <1>1, RegionsApart, Addresses DEF PagesOf
<1>3. Translate(page) = page
  <2>1. Limit < Entries * Span[4] /\ Entries * Span[4] \in Int
    <3>1. Limit \in 0..(Entries * Span[4] - 1)
      BY AddressesMapped
    <3>2. Entries * Span[4] \in Int
      BY Sizes, SMT DEF Span
    <3> QED BY <3>1, <3>2
  <2>2. page \in 0..(Entries * Span[4] - 1) /\ page < Limit
    BY <1>2, <2>1
  <2> QED BY <2>2, Identity DEF IInv, AssertsGuardTables
<1>4. page # NotPresent
  BY <1>2 DEF NotPresent
<1>5. slots \subseteq Region
  BY DEF IInv, TypeOK, SlotsOf
<1> HIDE DEF page
<1>6. takes = IF region \in slots THEN {region} ELSE {}
  <2>1. ASSUME NEW r \in slots, page \in PagesOf(r) PROVE r = region
    BY <1>1, <1>5, <2>1, RegionsApart
  <2> QED BY <1>1, <2>1
<1>7. /\ takes = {} => Served(byte, write) = "exit"
      /\ takes # {} => Served(byte, write) = CHOOSE r \in takes : TRUE
  BY <1>3, <1>4 DEF Served, page
<1> QED BY <1>6, <1>7

(* What the program counts on lies in its region. *)
LEMMA AccessShape ==
  ASSUME NEW a \in Accesses
  PROVE  /\ a.at \in Nat /\ a.region \in Region /\ a.write \in BOOLEAN
         /\ a.write => a.region # "MMIO"
         /\ a.by # "target" => Within(a)
         /\ a.by = "target" => a.region \in {"OWN", "SHARED"}
<1> DEFINE pb == PageBytes
<1>1. /\ pb \in Nat /\ pb = Entries * AccessWidth
      /\ RunPages * pb \in Nat /\ RunPages * pb >= pb /\ pb >= 4 * AccessWidth
  <2>1. /\ Entries * AccessWidth \in Nat
        /\ Entries * AccessWidth >= 4 * AccessWidth
    BY Sizes, SMT
  <2>2. pb \in Nat /\ pb = Entries * AccessWidth
    BY <2>1 DEF PageBytes
  <2> HIDE DEF pb
  <2>3. RunPages * pb \in Nat /\ RunPages * pb >= pb
    BY <2>2, Sizes, SMT
  <2> QED BY <2>1, <2>2, <2>3
<1>2. \A region \in Region :
        /\ FirstByte(region) \in Nat
        /\ BytesOf(region) = FirstByte(region) .. (FirstByte(region) + Size[region] * pb - 1)
        /\ Size[region] * pb \in Nat
  <2> SUFFICES ASSUME NEW region \in Region
               PROVE  /\ FirstByte(region) \in Nat
                      /\ BytesOf(region) =
                           FirstByte(region) .. (FirstByte(region) + Size[region] * pb - 1)
                      /\ Size[region] * pb \in Nat
    OBVIOUS
  <2> DEFINE b == Base[region]
             n == Size[region]
  <2>1. b \in Nat /\ n \in Nat
    BY RegionsApart
  <2>2. FirstByte(region) = b * pb /\ BytesOf(region) = (b * pb) .. ((b + n) * pb - 1)
    BY DEF FirstByte, BytesOf
  <2> HIDE DEF b, n, pb
  <2>3. b * pb \in Nat /\ n * pb \in Nat /\ (b + n) * pb = b * pb + n * pb
    BY <1>1, <2>1, SMT
  <2> QED BY <2>2, <2>3 DEF n
<1>3. CASE a \in RunAccess
  <2>1. /\ a.region = "RUN" /\ a.write \in BOOLEAN /\ a.by # "target"
        /\ \/ a.at = 0
           \/ a.at = RunPages * pb - AccessWidth
           \/ a.at = ExitCodeAddr
    <3>1. CASE a = AccessOf("fetch", "RUN", 0, FALSE)
      BY <3>1 DEF AccessOf
    <3>2. CASE a = AccessOf("push", "RUN", RunPages * PageBytes - AccessWidth, TRUE)
      BY <3>2 DEF AccessOf
    <3>3. CASE a = AccessOf("exit_halt", "RUN", ExitCodeAddr, TRUE)
      BY <3>3 DEF AccessOf
    <3> QED BY <1>3, <3>1, <3>2, <3>3 DEF RunAccess
  <2>2. Base["RUN"] = 0 /\ Size["RUN"] = RunPages /\ FirstByte("RUN") = 0
    <3>1. Base["RUN"] = 0 /\ Size["RUN"] = RunPages
      BY DEF Base, Size
    <3> QED BY <1>1, <3>1 DEF FirstByte
  <2>3. BytesOf("RUN") = 0 .. (RunPages * pb - 1)
    <3>1. /\ "RUN" \in Region
          /\ 0 + RunPages * pb - 1 = RunPages * pb - 1
      <4> HIDE DEF pb
      <4> QED BY <1>1 DEF Region
    <3> QED BY <1>2, <2>2, <3>1
  <2>4. a.at \in Nat /\ a.at + AccessWidth <= RunPages * pb
    <3>1. ExitCodeAddr \in 0..(RunPages * pb - AccessWidth)
      BY Sizes
    <3> HIDE DEF pb
    <3> QED BY <1>1, <2>1, <3>1, Sizes
  <2>5. Within(a)
    <3> HIDE DEF pb
    <3> QED BY <1>1, <2>1, <2>3, <2>4, Sizes DEF Within, BytesAt
  <2> QED BY <2>1, <2>4, <2>5 DEF Region
<1>4. CASE a \in ParameterAccess
  <2>1. PICK k \in 0..3 : a = AccessOf("parameter", "MMIO", FirstByte("MMIO") + k * AccessWidth, FALSE)
    BY <1>4 DEF ParameterAccess
  <2>2. /\ a.region = "MMIO" /\ a.write = FALSE /\ a.by = "parameter"
        /\ a.at = FirstByte("MMIO") + k * AccessWidth
    BY <2>1 DEF AccessOf
  <2>3. k * AccessWidth \in Nat /\ k * AccessWidth + AccessWidth <= pb
    <3> HIDE DEF pb
    <3>1. k = 0 \/ k = 1 \/ k = 2 \/ k = 3
      OBVIOUS
    <3> QED BY <1>1, <3>1, Sizes
  <2>4. BytesOf("MMIO") = FirstByte("MMIO") .. (FirstByte("MMIO") + pb - 1) /\ FirstByte("MMIO") \in Nat
    <3>1. Size["MMIO"] = 1 /\ "MMIO" \in Region
      BY DEF Size, Region
    <3> HIDE DEF pb
    <3> QED BY <1>1, <1>2, <3>1
  <2>5. Within(a) /\ a.at \in Nat
    <3> HIDE DEF pb
    <3> QED BY <1>1, <2>2, <2>3, <2>4, Sizes DEF Within, BytesAt
  <2> QED BY <2>2, <2>5 DEF Region
<1>5. CASE a \in StampAccess
  <2>1. PICK k \in 0..(NbSamples - 1) :
          a = AccessOf("stamp", "MEASURES", FirstByte("MEASURES") + k * AccessWidth, TRUE)
    BY <1>5 DEF StampAccess
  <2>2. /\ a.region = "MEASURES" /\ a.write = TRUE /\ a.by = "stamp"
        /\ a.at = FirstByte("MEASURES") + k * AccessWidth
    BY <2>1 DEF AccessOf
  <2>3. k * AccessWidth \in Nat /\ k * AccessWidth + AccessWidth <= MeasuresPages * pb
    <3> DEFINE me == MeasuresPages * Entries
    <3>1. k \in Nat /\ k + 1 <= me /\ me \in Nat
      BY StampPages, Sizes
    <3>2. MeasuresPages * pb = me * AccessWidth
      BY StampPages, Sizes, SMT DEF PageBytes
    <3> HIDE DEF me, pb
    <3>3. k * AccessWidth \in Nat /\ k * AccessWidth + AccessWidth <= me * AccessWidth
      BY <3>1, Sizes, SMT
    <3> QED BY <3>2, <3>3
  <2>4. /\ BytesOf("MEASURES") =
             FirstByte("MEASURES") .. (FirstByte("MEASURES") + MeasuresPages * pb - 1)
        /\ FirstByte("MEASURES") \in Nat /\ MeasuresPages * pb \in Nat
    <3>1. Size["MEASURES"] = MeasuresPages /\ "MEASURES" \in Region
      BY DEF Size, Region
    <3> HIDE DEF pb
    <3> QED BY <1>2, <3>1
  <2>5. Within(a) /\ a.at \in Nat
    <3> DEFINE mp == MeasuresPages * pb
               ka == k * AccessWidth
    <3>1. /\ ka \in Nat /\ ka + AccessWidth <= mp /\ mp \in Nat
          /\ a.at = FirstByte("MEASURES") + ka
          /\ BytesOf("MEASURES") = FirstByte("MEASURES") .. (FirstByte("MEASURES") + mp - 1)
      BY <2>2, <2>3, <2>4
    <3> HIDE DEF mp, ka
    <3> QED BY <2>2, <2>4, <3>1, Sizes DEF Within, BytesAt
  <2> QED BY <2>2, <2>5 DEF Region
<1>6. CASE a \in TargetAccess
  <2>1. PICK region \in {"OWN", "SHARED"} :
          \/ a = AccessOf("target", region, FirstByte(region), FALSE)
          \/ \E at \in BytesOf(region) : a = AccessOf("target", region, at, FALSE)
          \/ \E at \in BytesOf(region) : a = AccessOf("target", region, at, TRUE)
    BY <1>6 DEF TargetAccess
  <2>2. /\ a.region = region /\ a.by = "target" /\ a.write \in BOOLEAN
        /\ a.at = FirstByte(region) \/ a.at \in BytesOf(region)
    <3>1. CASE a = AccessOf("target", region, FirstByte(region), FALSE)
      BY <3>1 DEF AccessOf
    <3>2. CASE \E at \in BytesOf(region) : a = AccessOf("target", region, at, FALSE)
      BY <3>2 DEF AccessOf
    <3>3. CASE \E at \in BytesOf(region) : a = AccessOf("target", region, at, TRUE)
      BY <3>3 DEF AccessOf
    <3> QED BY <2>1, <3>1, <3>2, <3>3
  <2>3. region \in Region
    BY DEF Region
  <2>4. a.at \in Nat
    <3> HIDE DEF pb
    <3> QED BY <1>2, <2>2, <2>3
  <2> QED BY <2>2, <2>3, <2>4
<1> QED BY <1>3, <1>4, <1>5, <1>6 DEF Accesses

LEMMA Served1 ==
  ASSUME IInv, pc = "run", NEW a \in Accesses, Within(a)
  PROVE  ServedBy(a) = IF a.region \in slots THEN {a.region} ELSE {"exit"}
<1>1. /\ a.at \in Nat /\ a.region \in Region /\ a.write \in BOOLEAN
      /\ a.write => a.region # "MMIO"
  BY AccessShape
<1>2. \A byte \in BytesAt(a) :
        Served(byte, a.write) = IF a.region \in slots THEN a.region ELSE "exit"
  BY <1>1, ByteServed DEF Within
<1>3. a.at \in BytesAt(a)
  BY <1>1, Sizes DEF BytesAt
<1> QED BY <1>2, <1>3 DEF ServedBy

--------------------------------------------------------------------------------
(* The theorems.                                                           *)

(***************************************************************************)
(* The entries written so far are in their places and nothing else is,     *)
(* and a guest runs only with the slot of its page tables.                 *)
(***************************************************************************)
THEOREM Inductive == Spec => []IInv
<1>1. Init => IInv
  BY InitInv
<1>2. IInv /\ [Next]_vars => IInv'
  BY StepInv
<1> QED BY <1>1, <1>2, PTL DEF Spec

(***************************************************************************)
(* init_pages_tables stays within the region of the page tables and writes *)
(* nothing but page numbers below the limit.                               *)
(***************************************************************************)
THEOREM TypeCorrect == Spec => []TypeOK
<1>1. IInv => TypeOK
  BY DEF IInv
<1> QED BY <1>1, Inductive, PTL

(***************************************************************************)
(* Of the slots that KVM may refuse, the assertions of vm_init notice that *)
(* of the page tables, and no other.                                       *)
(***************************************************************************)
THEOREM AssertionsGuardTables == Spec => []AssertsGuardTables
<1>1. IInv => AssertsGuardTables
  BY DEF IInv
<1> QED BY <1>1, Inductive, PTL

(***************************************************************************)
(* A running guest sees its physical memory at the same addresses up to    *)
(* the limit and nothing above, at every page, for tables of any number of *)
(* entries and directories, and whichever slots KVM has refused.           *)
(***************************************************************************)
THEOREM MemoryIsIdentityMapped == Spec => []IdentityMapped
<1>1. IInv => IdentityMapped
  BY Identity DEF IInv, AssertsGuardTables, IdentityMapped
<1> QED BY <1>1, Inductive, PTL

(***************************************************************************)
(* No entry of a page table is written over another.                       *)
(***************************************************************************)
THEOREM EntriesAreWrittenOnce == Spec => EntriesWrittenOnce
<1> DEFINE Once == \A w \in DOMAIN table : table[w] # NotPresent => table'[w] = table[w]
<1>1. IInv /\ [Next]_vars => [Once]_vars
  <2> SUFFICES ASSUME IInv, [Next]_vars PROVE Once
    OBVIOUS
  <2>1. CASE WriteEntry
    <3>1. /\ FirstWord(level) + i \in DOMAIN table
          /\ table[FirstWord(level) + i] = NotPresent
      BY <2>1, NextWordFree
    <3>2. table' = [table EXCEPT ![FirstWord(level) + i] = PointsTo[level] + i]
      BY <2>1, NextWordFree
    <3> QED BY <3>1, <3>2 DEF IInv, TypeOK
  <2>2. CASE table' = table
    BY <2>2
  <2> QED BY <2>1, <2>2 DEF Next, vars, LevelDone, SetSlot, SlotsDone, Assert, GuestAccess, Stopped
<1> QED BY <1>1, Inductive, PTL DEF Spec, EntriesWrittenOnce

(***************************************************************************)
(* Code, stack, exit word, parameters and each of the NB_SAMPLES stamps    *)
(* are served by the region they are meant for, and a target within its    *)
(* region exactly when Backed says so; a slot that KVM refused turns the   *)
(* accesses into exits and never gives them to another region.             *)
(***************************************************************************)
THEOREM AccessesAreServed == Spec => []AccessesServed
<1>1. IInv => AccessesServed
  <2> SUFFICES ASSUME IInv, pc = "run", access # NoAccess PROVE AccessesServed
    BY DEF AccessesServed
  <2> DEFINE a == access
  <2>1. a \in Accesses
    BY DEF IInv, AccessInv
  <2>2. /\ a.region \in Region
        /\ a.by # "target" => Within(a)
        /\ a.by = "target" => a.region \in {"OWN", "SHARED"}
    BY <2>1, AccessShape
  <2>3. Within(a) => ServedBy(a) = IF a.region \in slots THEN {a.region} ELSE {"exit"}
    BY <2>1, Served1
  <2>4. a.by = "target" => Mapped(a.region)
    BY <2>2 DEF Mapped
  <2>5. a.by = "target" /\ slots = SlotsOf(role) =>
          (a.region \in slots <=> Backed(role, a.region))
    BY <2>2, <2>4 DEF Backed, SlotsOf, Region
  <2>6. {a.region} # {"exit"}
    BY <2>2 DEF Region
  <2> HIDE DEF a
  <2> QED BY <2>2, <2>3, <2>4, <2>5, <2>6 DEF AccessesServed, a
<1> QED BY <1>1, Inductive, PTL
================================================================================
