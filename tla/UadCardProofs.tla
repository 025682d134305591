--------------------------- MODULE UadCardProofs ---------------------------
(***************************************************************************)
(* Facts about the card's words and writes that the proofs about the       *)
(* driver and about the VFIO tools share.                                  *)
(***************************************************************************)
EXTENDS UadCard, TLAPS

\* The words the host code writes to the DMA control register are DMA words.
LEMMA CardWords ==
  /\ COLD_RESET \in DmaWord /\ RESET_GLOBAL \in DmaWord
  /\ GLOBAL_ONLY \in DmaWord /\ ALL_DSPS \in DmaWord
  /\ \A d \in DSPS :
       /\ EnableUpTo(d) \in DmaWord
       /\ [ALL_DSPS EXCEPT !.enable = DSPS \ {d}] \in DmaWord
       /\ [[ALL_DSPS EXCEPT !.enable = DSPS \ {d}] EXCEPT !.reset = {d}] \in DmaWord
<1> USE CardAssumption DEF DmaWord
<1>1. /\ COLD_RESET \in DmaWord /\ RESET_GLOBAL \in DmaWord
      /\ GLOBAL_ONLY \in DmaWord /\ ALL_DSPS \in DmaWord
  BY DEF COLD_RESET, RESET_GLOBAL, GLOBAL_ONLY, ALL_DSPS
<1>2. ASSUME NEW d \in DSPS PROVE EnableUpTo(d) \in DmaWord
  <2>1. 0 .. d \subseteq DSPS
    BY DEF DSPS
  <2> QED BY <2>1 DEF EnableUpTo
<1>3. ASSUME NEW d \in DSPS
      PROVE  /\ [ALL_DSPS EXCEPT !.enable = DSPS \ {d}] \in DmaWord
             /\ [[ALL_DSPS EXCEPT !.enable = DSPS \ {d}] EXCEPT !.reset = {d}] \in DmaWord
  BY DEF ALL_DSPS
<1> QED BY <1>1, <1>2, <1>3

\* Each kind of register write keeps the types of the card.
LEMMA WriteTypes ==
  ASSUME CardTypeOK
  PROVE  /\ \A v \in DmaWord : WriteDma(v) => CardTypeOK'
         /\ \A s \in DescSlots, g \in 0 .. MaxGen : WriteDesc(s, g) => CardTypeOK'
         /\ \A x \in RingIds, i \in 0 .. Entries : WriteIndexes(x, i) => CardTypeOK'
         /\ \A x \in RingIds : ClearRing(x) => CardTypeOK'
         /\ DisableInterrupts => CardTypeOK'
         /\ CardStep => CardTypeOK'
         /\ UNCHANGED cardVars => CardTypeOK'
<1> USE CardAssumption DEF CardTypeOK
<1>1. ASSUME NEW v \in DmaWord, WriteDma(v) PROVE CardTypeOK'
  <2>1. dmaCtl' \in DmaWord
    BY <1>1 DEF WriteDma
  <2>2. idx' \in [RingIds -> IdxWord]
    BY <1>1 DEF WriteDma, IdxWord
  <2> QED BY <1>1, <2>1, <2>2 DEF WriteDma
<1>2. ASSUME NEW s \in DescSlots, NEW g \in 0 .. MaxGen, WriteDesc(s, g)
      PROVE CardTypeOK'
  BY <1>2 DEF WriteDesc
<1>3. ASSUME NEW x \in RingIds, NEW i \in 0 .. Entries, WriteIndexes(x, i)
      PROVE CardTypeOK'
  BY <1>3 DEF WriteIndexes, IdxWord
<1>4. ASSUME NEW x \in RingIds, ClearRing(x) PROVE CardTypeOK'
  <2>1. desc' \in [DescSlots -> 0 .. MaxGen]
    BY <1>4 DEF ClearRing
  <2>2. idx' \in [RingIds -> IdxWord]
    BY <1>4, 0 \in 0 .. Entries DEF ClearRing, IdxWord
  <2> QED BY <1>4, <2>1, <2>2 DEF ClearRing
<1>5. DisableInterrupts => CardTypeOK'
  BY DEF DisableInterrupts
<1>6. CardStep => CardTypeOK'
  BY DEF CardStep, ReadyFlip, LinkLoss
<1>7. UNCHANGED cardVars => CardTypeOK'
  BY DEF cardVars
<1> QED BY <1>1, <1>2, <1>3, <1>4, <1>5, <1>6, <1>7

\* The enable shadow before the first DSP and after the last one.
LEMMA Shadows ==
  /\ EnableUpTo(0 - 1) = GLOBAL_ONLY
  /\ EnableUpTo(NDsp - 1) = ALL_DSPS
<1>1. 0 .. (0 - 1) = {}
  OBVIOUS
<1> QED BY <1>1 DEF EnableUpTo, GLOBAL_ONLY, ALL_DSPS, DSPS

\* Every DSP has a descriptor word.
LEMMA SomeSlot == ASSUME NEW d \in DSPS PROVE \E s \in DescSlots : s[1] = d
<1>1. <<d, 0, 0, 0>> \in DescSlots /\ <<d, 0, 0, 0>>[1] = d
  BY CardAssumption DEF DescSlots, RINGS, PAGES, HALVES
<1> QED BY <1>1

----------------------------------------------------------------------------
(* The engines that can run.                                               *)

EnginesOf(w) == {d \in DSPS : w.global /\ d \in w.enable /\ d \notin w.reset}
Engines == IF linked THEN EnginesOf(dmaCtl) ELSE {}

\* The engines that each word of the register lets run.
LEMMA CardEngines ==
  /\ EnginesOf(COLD_RESET) = {} /\ EnginesOf(RESET_GLOBAL) = {}
  /\ EnginesOf(GLOBAL_ONLY) = {} /\ EnginesOf(ALL_DSPS) = DSPS
  /\ \A d \in DSPS :
       /\ EnginesOf(EnableUpTo(d)) = 0 .. d
       /\ EnginesOf(EnableUpTo(d - 1)) = 0 .. d - 1
       /\ EnginesOf([ALL_DSPS EXCEPT !.enable = DSPS \ {d}]) = DSPS \ {d}
       /\ EnginesOf([[ALL_DSPS EXCEPT !.enable = DSPS \ {d}] EXCEPT !.reset = {d}]) = DSPS \ {d}
<1>1. /\ EnginesOf(COLD_RESET) = {} /\ EnginesOf(RESET_GLOBAL) = {}
      /\ EnginesOf(GLOBAL_ONLY) = {} /\ EnginesOf(ALL_DSPS) = DSPS
  BY DEF EnginesOf, COLD_RESET, RESET_GLOBAL, GLOBAL_ONLY, ALL_DSPS
<1>2. ASSUME NEW d \in DSPS
      PROVE  EnginesOf(EnableUpTo(d)) = 0 .. d /\ EnginesOf(EnableUpTo(d - 1)) = 0 .. d - 1
  BY <1>2, CardAssumption DEF EnginesOf, EnableUpTo, DSPS
<1>3. ASSUME NEW d \in DSPS
      PROVE  /\ EnginesOf([ALL_DSPS EXCEPT !.enable = DSPS \ {d}]) = DSPS \ {d}
             /\ EnginesOf([[ALL_DSPS EXCEPT !.enable = DSPS \ {d}] EXCEPT !.reset = {d}])
                  = DSPS \ {d}
  BY <1>3 DEF EnginesOf, ALL_DSPS
<1> QED BY <1>1, <1>2, <1>3

\* The engines of the refinement mappings, in these terms.
LEMMA MappedEngines == {d \in DSPS : EngineLive(d)} = Engines
BY DEF Engines, EnginesOf, EngineLive

----------------------------------------------------------------------------
(* The index words.                                                        *)

IdxOK == idx \in [RingIds -> IdxWord]

LEMMA SmallMod == ASSUME NEW i \in 0 .. Entries - 1 PROVE i % Entries = i
BY CardAssumption

\* What each access of BAR0 does to the index words.
LEMMA IdxTyped == ASSUME IdxOK, NEW x \in RingIds
                  PROVE idx[x] \in [bell : 0 .. Entries, write : 0 .. Entries, read : 0 .. Entries]
BY DEF IdxOK, IdxWord

LEMMA DmaWrite ==
  ASSUME IdxOK, NEW v, WriteDma(v)
  PROVE  /\ IdxOK' /\ linked' = linked
         /\ \A x \in RingIds : /\ idx'[x].bell = idx[x].bell
                               /\ idx'[x].read = idx[x].read \/ idx'[x].read = 0
<1>1. ASSUME NEW x \in RingIds
      PROVE  /\ idx'[x] \in IdxWord /\ idx'[x].bell = idx[x].bell
             /\ idx'[x].read = idx[x].read \/ idx'[x].read = 0
  <2>1. idx'[x] = idx[x] \/ idx'[x] = [idx[x] EXCEPT !.read = 0]
    BY DEF WriteDma
  <2> QED BY <2>1, IdxTyped, CardAssumption DEF IdxWord
<1>2. linked' = linked /\ idx' = [x \in RingIds |-> idx'[x]]
  BY DEF WriteDma
<1> QED BY <1>1, <1>2 DEF IdxOK

\* Both index words of ring x are set to v.
Placed(x, v) ==
  linked => /\ idx'[x].bell = v /\ idx'[x].read = idx[x].read
            /\ \A y \in RingIds \ {x} : idx'[y] = idx[y]

LEMMA PlacedBy ==
  ASSUME IdxOK, NEW x \in RingIds, NEW v \in 0 .. Entries,
         idx' = IF linked THEN [idx EXCEPT ![x].bell = v, ![x].write = v] ELSE idx
  PROVE  IdxOK' /\ Placed(x, v)
<1>1. CASE linked
  <2> DEFINE e == [[idx[x] EXCEPT !.bell = v] EXCEPT !.write = v]
  <2>1. idx' = [idx EXCEPT ![x] = e]
    BY <1>1 DEF IdxOK
  <2>2. e \in IdxWord /\ e.bell = v /\ e.read = idx[x].read
    BY IdxTyped DEF IdxWord
  <2> HIDE DEF e
  <2> QED BY <2>1, <2>2 DEF IdxOK, Placed
<1>2. CASE ~ linked
  BY <1>2 DEF IdxOK, Placed
<1> QED BY <1>1, <1>2

LEMMA IndexWrite ==
  ASSUME IdxOK, NEW x \in RingIds, NEW v \in 0 .. Entries, WriteIndexes(x, v)
  PROVE  IdxOK' /\ linked' = linked /\ Placed(x, v)
BY PlacedBy DEF WriteIndexes


\* The card moves its own index.
LEMMA MovedBy ==
  ASSUME IdxOK, NEW x \in RingIds, idx' = [idx EXCEPT ![x].read = (@ + 1) % Entries]
  PROVE  /\ IdxOK'
         /\ idx'[x].bell = idx[x].bell
         /\ idx'[x].read = (idx[x].read + 1) % Entries
         /\ \A y \in RingIds \ {x} : idx'[y] = idx[y]
<1> DEFINE r == (idx[x].read + 1) % Entries
           e == [idx[x] EXCEPT !.read = r]
<1>1. idx' = [idx EXCEPT ![x] = e]
  BY DEF IdxOK
<1>2. idx[x].read \in Nat
  BY IdxTyped
<1>3. r \in 0 .. Entries
  BY <1>2, CardAssumption
<1>4. e \in IdxWord /\ e.bell = idx[x].bell /\ e.read = r
  BY <1>3, IdxTyped DEF IdxWord
<1> HIDE DEF e, r
<1>5. /\ IdxOK' /\ idx'[x] = e
      /\ \A y \in RingIds \ {x} : idx'[y] = idx[y]
  BY <1>1, <1>4 DEF IdxOK
<1> QED BY <1>4, <1>5 DEF r
=============================================================================
