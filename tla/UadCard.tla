------------------------------ MODULE UadCard ------------------------------
(***************************************************************************)
(* The UAD-2 card as the host code sees it through BAR0: the DMA control   *)
(* register, one window of ring registers per DSP and ring, the ready word *)
(* of each DSP and the interrupt-enable register.  The card is not part of *)
(* the repository: its behaviour is what kernel/uad2_compute.c and the     *)
(* VFIO tools rely on.  The layout of the registers is theirs.             *)
(*                                                                         *)
(* A 64-bit page address is written as two 32-bit halves, so a descriptor  *)
(* is two words.  A half of an address is abstracted to the number of the  *)
(* allocation the page came from; 0 is a cleared word.                     *)
(***************************************************************************)
EXTENDS Integers, FiniteSets

CONSTANTS
  NDsp,     \* DSPs on the card (8 in the code)
  NPages,   \* pages of one ring (4 in the code)
  Entries,  \* entries of one ring (1024 in the code)
  MaxGen    \* bound on the allocations, that is on the page owners, of a run

ASSUME CardAssumption ==
  /\ NDsp \in Nat \ {0}
  /\ NPages \in Nat \ {0}
  /\ Entries \in Nat \ {0}
  /\ MaxGen \in Nat \ {0}

VARIABLES
  dmaCtl,   \* register 0x2200: global, enable and reset bits
  desc,     \* page descriptor words of every ring
  idx,      \* words +0x20, +0x24 and +0x28 of every ring
  ready,    \* bit 0 of the ready word of every DSP
  intEn,    \* register 0x2204 is not zero
  linked    \* the card answers; once it is lost every read gives all ones

cardVars == <<dmaCtl, desc, idx, ready, intEn, linked>>

----------------------------------------------------------------------------
DSPS  == 0 .. NDsp - 1
RINGS == {0, 1}             \* 0 the command ring, 1 the response ring
PAGES == 0 .. NPages - 1
HALVES == {0, 1}            \* 0 the low word of an address, 1 the high word
Gens  == 1 .. MaxGen

RingIds   == DSPS \X RINGS
PageSlots == DSPS \X RINGS \X PAGES
DescSlots == DSPS \X RINGS \X PAGES \X HALVES

\* The page a descriptor word belongs to.
PageOf(s) == <<s[1], s[2], s[3]>>

\* Bit 0, bits 1..8 and bits 9..16 of the DMA control register.
DmaWord == [global : BOOLEAN, enable : SUBSET DSPS, reset : SUBSET DSPS]

COLD_RESET   == [global |-> FALSE, enable |-> {}, reset |-> DSPS]
RESET_GLOBAL == [global |-> TRUE,  enable |-> {}, reset |-> DSPS]
GLOBAL_ONLY  == [global |-> TRUE,  enable |-> {}, reset |-> {}]
ALL_DSPS     == [global |-> TRUE,  enable |-> DSPS, reset |-> {}]
\* Mutant: the shadow is one bit too wide.
EnableUpTo_TooWide(d) == [global |-> TRUE, enable |-> (0 .. d + 1) \cap DSPS, reset |-> {}]
\* The shadow (1 << (dsp + 2)) - 1 written after DSP number dsp is set up.
EnableUpTo(d) == [global |-> TRUE, enable |-> 0 .. d, reset |-> {}]

\* What a read of a lost card returns.
ALL_ONES == [global |-> TRUE, enable |-> DSPS, reset |-> DSPS]

IdxWord == [bell : 0 .. Entries, write : 0 .. Entries, read : 0 .. Entries]

----------------------------------------------------------------------------
(* Reads of the card.                                                      *)

ReadDma      == IF linked THEN dmaCtl ELSE ALL_ONES
ReadReady(d) == linked => ready[d]
\* An index read from a lost card is out of range; Entries stands for all
\* such values.
ReadIndex(x) == IF linked THEN idx[x].read ELSE Entries

\* uad2_all_dsps_ready
AllDspsReady == \A d \in DSPS : ReadReady(d)

\* uad2_all_ring_words_zero: the hardware index is among the 16 words.
AllRingWordsZero ==
  /\ linked
  /\ \A s \in DescSlots : desc[s] = 0
  /\ \A x \in RingIds : idx[x] = [bell |-> 0, write |-> 0, read |-> 0]

\* uad2_cold_precondition: the identity words match only on an answering card.
ColdPrecondition ==
  /\ ReadDma = COLD_RESET
  /\ ~ intEn
  /\ linked
  /\ AllRingWordsZero
  /\ AllDspsReady

\* uad2_rings_published: every descriptor reads back as the page of owner g.
RingsPublished(g) == linked /\ \A s \in DescSlots : desc[s] = g

----------------------------------------------------------------------------
(* Writes to the card; a lost card ignores them.  A reset bit returns the  *)
(* hardware index of both rings of its DSP to zero.                        *)

WriteDma(v) ==
  /\ dmaCtl' = IF linked THEN v ELSE dmaCtl
  /\ idx' = [x \in RingIds |->
               IF linked /\ x[1] \in v.reset THEN [idx[x] EXCEPT !.read = 0]
                                             ELSE idx[x]]
  /\ UNCHANGED <<desc, ready, intEn, linked>>

WriteDesc(s, v) ==
  /\ desc' = IF linked THEN [desc EXCEPT ![s] = v] ELSE desc
  /\ UNCHANGED <<dmaCtl, idx, ready, intEn, linked>>

WriteIndexes(x, v) ==
  /\ idx' = IF linked THEN [idx EXCEPT ![x].bell = v, ![x].write = v] ELSE idx
  /\ UNCHANGED <<dmaCtl, desc, ready, intEn, linked>>

\* The ten host-owned words of one ring, all written as zero.
ClearRing(x) ==
  /\ desc' = [s \in DescSlots |->
                IF linked /\ s[1] = x[1] /\ s[2] = x[2] THEN 0 ELSE desc[s]]
  /\ idx' = IF linked THEN [idx EXCEPT ![x].bell = 0, ![x].write = 0] ELSE idx
  /\ UNCHANGED <<dmaCtl, ready, intEn, linked>>

DisableInterrupts ==
  /\ intEn' = (~ linked /\ intEn)
  /\ UNCHANGED <<dmaCtl, desc, idx, ready, linked>>

----------------------------------------------------------------------------
(* Steps the card takes by itself.                                         *)

\* A DSP becomes ready or stops being ready.
ReadyFlip(d) ==
  /\ linked
  /\ ready' = [ready EXCEPT ![d] = ~ @]
  /\ UNCHANGED <<dmaCtl, desc, idx, intEn, linked>>

\* The card falls off the bus for good.
LinkLoss ==
  /\ linked
  /\ linked' = FALSE
  /\ UNCHANGED <<dmaCtl, desc, idx, ready, intEn>>

CardStep == (\E d \in DSPS : ReadyFlip(d)) \/ LinkLoss

----------------------------------------------------------------------------
\* The engine of DSP d fetches through the descriptors of its rings.
EngineLive(d) ==
  linked /\ dmaCtl.global /\ d \in dmaCtl.enable /\ d \notin dmaCtl.reset

CardTypeOK ==
  /\ dmaCtl \in DmaWord
  /\ desc \in [DescSlots -> 0 .. MaxGen]
  /\ idx \in [RingIds -> IdxWord]
  /\ ready \in [DSPS -> BOOLEAN]
  /\ intEn \in BOOLEAN
  /\ linked \in BOOLEAN

\* The states a driver can find the card in: no engine runs and the host words
\* are clear, but it need not be cold.
CardInit ==
  /\ dmaCtl \in {COLD_RESET, GLOBAL_ONLY}
  /\ desc = [s \in DescSlots |-> 0]
  /\ \E i \in {0, Entries} :
       idx = [x \in RingIds |-> [bell |-> 0, write |-> 0, read |-> i]]
  /\ ready \in [DSPS -> BOOLEAN]
  /\ intEn \in BOOLEAN
  /\ linked \in BOOLEAN
=============================================================================
