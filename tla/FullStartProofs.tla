-------------------------- MODULE FullStartProofs --------------------------
(***************************************************************************)
(* TLAPS proofs about FullStart, for any number of DSPs, ring pages, ring  *)
(* entries and runs of the tool: what its DMA can reach, what it leaves    *)
(* behind, what its success means, and that it implements Experiment.      *)
(***************************************************************************)
EXTENDS FullStart, UadCardProofs

----------------------------------------------------------------------------
(* The inductive invariant.                                                *)

ResetLoop == {"rTest", "rPulse", "rRelease", "rCheck", "rEnable", "rVerify"}
InitLoop  == {"ringIndex", "ringDesc", "enable"}
\* From the first register write to the cleanup label.
TouchPCs  == {"resetGlobal", "globalOnly", "publication", "observe", "judge"}
               \cup InitLoop \cup ResetLoop
\* The inverse register sequence.
RestorePCs == {"cInt", "cReset", "cGlobal", "cClear", "cCold", "cRestored"}
\* After it.
OverPCs   == {"cVfioReset", "cRecovered", "release", "exit"}
BeforePCs == {"idle", "setup", "baseline", "startup"}
PCs == BeforePCs \cup TouchPCs \cup {"cleanup"} \cup RestorePCs \cup OverPCs
         \cup {"killed"}

Held == {"container", "group", "set", "memory", "dma", "device", "bar"}

\* What the process holds: complete from the baseline test to the release.
HeldInv ==
  /\ pc \in PCs /\ n \in 1 .. 7
  /\ pc \in BeforePCs => ~ started
  /\ pc \in TouchPCs \cup RestorePCs => started
  /\ pc = "setup" => \A i \in 1 .. n - 1 : SetupOrder[i] \in has
  /\ pc \in {"baseline", "startup"} => Held \subseteq has
  /\ started /\ pc \in TouchPCs \cup RestorePCs \cup {"cleanup"} => Held \subseteq has

Pulsed(d) == [Disabled(d) EXCEPT !.reset = {d}]
Blank == \A s \in DescSlots : desc[s] = 0
Zeroed == \A x \in RingIds : idx[x].bell = 0 /\ idx[x].write = 0
Published == \A s \in DescSlots : desc[s] = run

\* The DMA control register of an answering card.
WordInv ==
  linked =>
    /\ pc \in {"startup", "resetGlobal"} => dmaCtl = COLD_RESET
    /\ pc = "globalOnly" => dmaCtl = RESET_GLOBAL
    /\ pc \in InitLoop => dmaCtl = EnableUpTo(dsp - 1)
    /\ pc \in {"publication", "rTest", "rPulse", "rVerify"} => dmaCtl = ALL_DSPS
    /\ pc = "rRelease" => dmaCtl = Pulsed(dsp)
    /\ pc \in {"rCheck", "rEnable"} => dmaCtl = Disabled(dsp)
    /\ pc = "cGlobal" => dmaCtl = RESET_GLOBAL
    /\ pc \in {"cClear", "cCold"} => dmaCtl = GLOBAL_ONLY
    /\ pc = "cRestored" \/ (started /\ pc \in OverPCs) => dmaCtl = COLD_RESET

\* The words that the host owns, and how far their loops have come.
HostWordInv ==
  linked =>
    /\ pc \in {"startup", "resetGlobal", "globalOnly"} => Blank /\ Zeroed
    /\ pc \in InitLoop => /\ \A s \in DescSlots \ toWrite : desc[s] = run
                          /\ \A s \in toWrite : s[1] >= dsp
    /\ pc \in {"ringIndex", "ringDesc"} /\ ring = 1 =>
         \A s \in toWrite : s[1] = dsp => s[2] = 1
    /\ pc = "enable" => ring = 0 /\ \A s \in toWrite : s[1] > dsp
    /\ pc \in {"publication", "observe", "judge", "cInt", "cReset"} \cup ResetLoop => Published
    /\ started /\ pc = "cleanup" => Published
    /\ pc = "cClear" =>
         /\ \A s \in DescSlots : <<s[1], s[2]>> \notin toClear => desc[s] = 0
         /\ \A x \in RingIds \ toClear : idx[x].bell = 0 /\ idx[x].write = 0
    /\ pc \in {"cCold", "cRestored"} \/ (started /\ pc \in OverPCs) => Blank /\ Zeroed

\* The reset loop: the DSPs that passed are those before the current one, and
\* a loop that ended early left a flag that the verdict looks at.
ResetInv ==
  /\ pc \in {"setup", "baseline", "startup", "resetGlobal", "globalOnly", "publication"}
       \cup InitLoop => passed = {}
  /\ pc = "publication" => dsp = 0
  /\ pc \in ResetLoop => passed = 0 .. dsp - 1
  /\ pc \in {"observe", "judge"} /\ exercise /\ published /\ resetsOk /\ ~ interrupted
       => passed = DSPS
  /\ success /\ exercise => passed = DSPS

IInv == TypeOK /\ HeldInv /\ WordInv /\ HostWordInv /\ ResetInv

----------------------------------------------------------------------------
(* Facts about the operators.                                              *)

\* The two orders name the seven resources of the tool.
LEMMA Orders ==
  /\ Len(SetupOrder) = 7 /\ Len(ReleaseOrder) = 7
  /\ \A i \in 1 .. 7 : SetupOrder[i] \in Held /\ ReleaseOrder[i] \in Held
  /\ \A h \in Held : \E i \in 1 .. 7 : SetupOrder[i] = h
  /\ \A i \in 1 .. 7 : /\ ReleaseOrder[i] = "container" <=> i = 7
                       /\ ReleaseOrder[i] = "dma" <=> i = 3
<1>1. Len(SetupOrder) = 7 /\ Len(ReleaseOrder) = 7
  BY DEF SetupOrder, ReleaseOrder
<1>2. \A i \in 1 .. 7 : SetupOrder[i] \in Held /\ ReleaseOrder[i] \in Held
  BY DEF SetupOrder, ReleaseOrder, Held
<1>3. \A h \in Held : \E i \in 1 .. 7 : SetupOrder[i] = h
  <2>1. /\ SetupOrder[1] = "container" /\ SetupOrder[2] = "group" /\ SetupOrder[3] = "set"
        /\ SetupOrder[4] = "memory" /\ SetupOrder[5] = "dma" /\ SetupOrder[6] = "device"
        /\ SetupOrder[7] = "bar"
    BY DEF SetupOrder
  <2> QED BY <2>1 DEF Held
<1>4. \A i \in 1 .. 7 : /\ ReleaseOrder[i] = "container" <=> i = 7
                        /\ ReleaseOrder[i] = "dma" <=> i = 3
  BY DEF ReleaseOrder
<1> QED BY <1>1, <1>2, <1>3, <1>4

\* A function reset leaves a card of the right type, cold and blank if it
\* answers.
LEMMA ResetTypes ==
  ASSUME CardTypeOK, FunctionReset
  PROVE  /\ CardTypeOK' /\ UNCHANGED linked
         /\ linked => dmaCtl' = COLD_RESET /\ Blank' /\ Zeroed'
<1>1. CASE linked
  <2>1. /\ dmaCtl' = COLD_RESET /\ desc' = [s \in DescSlots |-> 0]
        /\ idx' = [x \in RingIds |-> [bell |-> 0, write |-> 0, read |-> 0]]
        /\ intEn' = FALSE /\ UNCHANGED <<ready, linked>>
    BY <1>1 DEF FunctionReset
  <2>2. desc' \in [DescSlots -> 0 .. MaxGen] /\ idx' \in [RingIds -> IdxWord]
    BY <2>1, CardAssumption DEF IdxWord
  <2>3. Blank' /\ Zeroed'
    BY <2>1 DEF Blank, Zeroed
  <2> QED BY <2>1, <2>2, <2>3, CardWords DEF CardTypeOK
<1>2. CASE ~ linked
  BY <1>2 DEF FunctionReset, CardTypeOK
<1> QED BY <1>1, <1>2

\* What the kernel may do to the card when it closes the device.
LEMMA CloseTypes ==
  ASSUME CardTypeOK, KernelCloses
  PROVE  /\ CardTypeOK' /\ UNCHANGED linked
         /\ UNCHANGED cardVars \/ (linked => dmaCtl' = COLD_RESET /\ Blank' /\ Zeroed')
BY ResetTypes, WriteTypes DEF KernelCloses, cardVars

\* A write to the DMA control register reaches nothing else that the host owns.
LEMMA DmaWritten ==
  ASSUME CardTypeOK, NEW v, WriteDma(v)
  PROVE  /\ UNCHANGED <<linked, desc>> /\ (linked => dmaCtl' = v)
         /\ \A x \in RingIds : idx'[x].bell = idx[x].bell /\ idx'[x].write = idx[x].write
<1>1. UNCHANGED <<linked, desc>> /\ (linked => dmaCtl' = v)
  BY DEF WriteDma
<1>2. ASSUME NEW x \in RingIds
      PROVE  idx'[x].bell = idx[x].bell /\ idx'[x].write = idx[x].write
  <2>1. idx'[x] = idx[x] \/ idx'[x] = [idx[x] EXCEPT !.read = 0]
    BY DEF WriteDma
  <2>2. idx[x] \in [bell : 0 .. Entries, write : 0 .. Entries, read : 0 .. Entries]
    BY DEF CardTypeOK, IdxWord
  <2> QED BY <2>1, <2>2
<1> QED BY <1>1, <1>2

\* The descriptor words of an answering card after one of them is written, and
\* the host-owned words after one ring is cleared.
LEMMA DescWritten ==
  ASSUME CardTypeOK, NEW s \in DescSlots, NEW v, WriteDesc(s, v)
  PROVE  /\ UNCHANGED <<linked, dmaCtl, idx>>
         /\ linked => /\ desc'[s] = v
                      /\ \A t \in DescSlots \ {s} : desc'[t] = desc[t]
BY DEF WriteDesc, CardTypeOK
LEMMA RingCleared ==
  ASSUME CardTypeOK, NEW x \in RingIds, ClearRing(x)
  PROVE  /\ UNCHANGED <<linked, dmaCtl>>
         /\ linked => /\ \A s \in DescSlots :
                           desc'[s] = IF <<s[1], s[2]>> = x THEN 0 ELSE desc[s]
                      /\ idx'[x].bell = 0 /\ idx'[x].write = 0
                      /\ \A y \in RingIds \ {x} : idx'[y] = idx[y]
<1>1. UNCHANGED <<linked, dmaCtl>>
  BY DEF ClearRing
<1>2. ASSUME linked, NEW s \in DescSlots
      PROVE  desc'[s] = IF <<s[1], s[2]>> = x THEN 0 ELSE desc[s]
  <2>1. x = <<x[1], x[2]>>
    BY DEF RingIds
  <2> QED BY <1>2, <2>1 DEF ClearRing
<1>3. ASSUME linked
      PROVE  /\ idx'[x].bell = 0 /\ idx'[x].write = 0
             /\ \A y \in RingIds \ {x} : idx'[y] = idx[y]
  <2>1. /\ idx' = [idx EXCEPT ![x].bell = 0, ![x].write = 0]
        /\ idx \in [RingIds -> IdxWord]
    BY <1>3 DEF ClearRing, CardTypeOK
  <2> QED BY <2>1 DEF IdxWord
<1> QED BY <1>1, <1>2, <1>3

\* The type invariant is inductive, given that n stays within the orders.
LEMMA TypeStep ==
  ASSUME TypeOK, HeldInv, [Next]_vars PROVE TypeOK'
<1>t. CardTypeOK /\ DSPS \subseteq Int /\ 0 \in DSPS
  BY CardAssumption DEF TypeOK, SessionTypeOK, DSPS
<1> USE CardAssumption DEF TypeOK, SessionTypeOK, loopVars, flagVars, sessionVars, toolVars, Goto
<1>1. ASSUME Begin PROVE TypeOK'
  <2>1. CardTypeOK'
    BY <1>t, <1>1, WriteTypes DEF Begin, Launch
  <2>2. run' \in 0 .. MaxGen /\ n' \in 1 .. 8 /\ ring' \in RINGS
    BY <1>1 DEF Begin, Launch, RINGS
  <2>3. indexes' \in [RingIds -> 0 .. Entries - 1]
    BY <1>1 DEF Begin
  <2> QED BY <1>t, <1>1, <2>1, <2>2, <2>3 DEF Begin, Launch
<1>2. ASSUME Acquire("setup", SetupOrder, "baseline"), UNCHANGED toolVars PROVE TypeOK'
  <2>1. CardTypeOK'
    BY <1>t, <1>2, WriteTypes DEF Acquire
  <2>2. SetupOrder[n] \in Resources
    BY Orders DEF HeldInv, Held, Resources
  <2>3. has' \in SUBSET Resources
    BY <1>2, <2>2 DEF Acquire
  <2>4. n' \in 1 .. 8
    BY <1>2, Orders DEF Acquire, HeldInv
  <2> QED BY <1>2, <2>1, <2>3, <2>4 DEF Acquire
<1>3. ASSUME AcquireFails("setup", SetupOrder), UNCHANGED toolVars PROVE TypeOK'
  <2>1. CardTypeOK'
    BY <1>t, <1>3, WriteTypes DEF AcquireFails
  <2>2. HalfAcquired \subseteq Resources
    BY DEF HalfAcquired, Resources
  <2>3. has' \in SUBSET Resources
    BY <1>3, <2>2 DEF AcquireFails
  <2> QED BY <1>3, <2>1, <2>3 DEF AcquireFails
<1>4. ASSUME Baseline PROVE TypeOK'
  <2>1. CardTypeOK'
    BY <1>t, <1>4, WriteTypes DEF Baseline, Check, Refuse
  <2> QED BY <1>t, <1>4, <2>1 DEF Baseline, Check, Refuse
<1>5. ASSUME Quiesce, UNCHANGED toolVars PROVE TypeOK'
  <2>1. CardTypeOK'
    BY <1>t, <1>5, WriteTypes DEF Quiesce, DisableInterrupts
  <2> QED BY <1>t, <1>5, <2>1 DEF Quiesce, DisableInterrupts
<1>6. ASSUME ResetGlobal, UNCHANGED toolVars PROVE TypeOK'
  <2>1. CardTypeOK'
    BY <1>t, <1>6, WriteTypes, CardWords DEF ResetGlobal
  <2> QED BY <1>t, <1>6, <2>1 DEF ResetGlobal
<1>7. ASSUME GlobalOnly, UNCHANGED toolVars PROVE TypeOK'
  <2>1. CardTypeOK'
    BY <1>t, <1>7, WriteTypes, CardWords DEF GlobalOnly
  <2> QED BY <1>t, <1>7, <2>1 DEF GlobalOnly, RINGS
<1>8. ASSUME BoundedIndex PROVE TypeOK'
  <2> DEFINE x == <<dsp, ring>>
             raw == ReadIndex(x)
             index == IF raw < Entries THEN raw ELSE 0
  <2>1. x \in RingIds
    BY DEF RingIds
  <2>2. index \in 0 .. Entries - 1
    BY <1>t, <2>1 DEF ReadIndex, CardTypeOK, IdxWord
  <2>3. WriteIndexes(x, index) /\ indexes' = [indexes EXCEPT ![x] = index]
    BY <1>8 DEF BoundedIndex, RingIndex
  <2>4. CardTypeOK'
    BY <1>t, <2>1, <2>2, <2>3, WriteTypes
  <2>5. indexes' \in [RingIds -> 0 .. Entries - 1]
    BY <2>2, <2>3
  <2> QED BY <1>8, <2>4, <2>5 DEF BoundedIndex, RingIndex
<1>9. ASSUME RingDesc, UNCHANGED toolVars PROVE TypeOK'
  <2>1. PICK s \in toWrite : WriteDesc(s, run) /\ toWrite' = toWrite \ {s}
    BY <1>9 DEF RingDesc
  <2>2. CardTypeOK'
    BY <1>t, <2>1, WriteTypes
  <2> QED BY <1>9, <2>1, <2>2 DEF RingDesc
<1>10. ASSUME RingDone, UNCHANGED toolVars PROVE TypeOK'
  <2>1. CardTypeOK'
    BY <1>t, <1>10, WriteTypes DEF RingDone
  <2> QED BY <1>t, <1>10, <2>1 DEF RingDone, RINGS
<1>11. ASSUME EnableDsp PROVE TypeOK'
  <2>1. CardTypeOK'
    BY <1>t, <1>11, WriteTypes, CardWords DEF EnableDsp, Enable
  <2> QED BY <1>t, <1>11, <2>1 DEF EnableDsp, Enable, DSPS
<1>12. ASSUME Publication PROVE TypeOK'
  <2>1. CardTypeOK'
    BY <1>t, <1>12, WriteTypes DEF Publication
  <2> QED BY <1>t, <1>12, <2>1 DEF Publication, AllRingsMatch
<1>13. ASSUME ResetTest PROVE TypeOK'
  <2>1. CardTypeOK'
    BY <1>t, <1>13, WriteTypes DEF ResetTest
  <2> QED BY <1>t, <1>13, <2>1 DEF ResetTest
<1>14. ASSUME ResetPulse PROVE TypeOK'
  <2>1. CardTypeOK'
    BY <1>t, <1>14, WriteTypes, CardWords DEF ResetPulse, Disabled
  <2> QED BY <1>t, <1>14, <2>1 DEF ResetPulse
<1>15. ASSUME ResetRelease PROVE TypeOK'
  <2>1. CardTypeOK'
    BY <1>t, <1>15, WriteTypes, CardWords DEF ResetRelease, Disabled
  <2> QED BY <1>t, <1>15, <2>1 DEF ResetRelease
<1>16. ASSUME ResetCheck PROVE TypeOK'
  <2>1. CardTypeOK'
    BY <1>t, <1>16, WriteTypes DEF ResetCheck
  <2> QED BY <1>t, <1>16, <2>1 DEF ResetCheck
<1>17. ASSUME ResetEnable PROVE TypeOK'
  <2>1. CardTypeOK'
    BY <1>t, <1>17, WriteTypes, CardWords DEF ResetEnable
  <2> QED BY <1>t, <1>17, <2>1 DEF ResetEnable
<1>18. ASSUME ResetVerify PROVE TypeOK'
  <2>1. CardTypeOK'
    BY <1>t, <1>18, WriteTypes DEF ResetVerify
  <2>2. dsp' \in DSPS /\ passed' \in SUBSET DSPS
    BY <1>18 DEF ResetVerify, DSPS
  <2>3. resetsOk' \in BOOLEAN
    BY <1>18 DEF ResetVerify
  <2> QED BY <1>18, <2>1, <2>2, <2>3 DEF ResetVerify
<1>19. ASSUME Observe PROVE TypeOK'
  <2>1. CardTypeOK'
    BY <1>t, <1>19, WriteTypes DEF Observe
  <2> QED BY <1>t, <1>19, <2>1 DEF Observe
<1>20. ASSUME Judge PROVE TypeOK'
  <2>1. CardTypeOK'
    BY <1>t, <1>20, WriteTypes DEF Judge
  <2> QED BY <1>t, <1>20, <2>1 DEF Judge
<1>21. ASSUME CleanupEnter, UNCHANGED toolVars PROVE TypeOK'
  <2>1. CardTypeOK'
    BY <1>t, <1>21, WriteTypes DEF CleanupEnter
  <2> QED BY <1>t, <1>21, <2>1 DEF CleanupEnter
<1>22. ASSUME CleanupInt, UNCHANGED toolVars PROVE TypeOK'
  <2>1. CardTypeOK'
    BY <1>t, <1>22, WriteTypes DEF CleanupInt, DisableInterrupts
  <2> QED BY <1>t, <1>22, <2>1 DEF CleanupInt, DisableInterrupts
<1>23. ASSUME CleanupReset, UNCHANGED toolVars PROVE TypeOK'
  <2>1. CardTypeOK'
    BY <1>t, <1>23, WriteTypes, CardWords DEF CleanupReset
  <2> QED BY <1>t, <1>23, <2>1 DEF CleanupReset
<1>24. ASSUME CleanupGlobal, UNCHANGED toolVars PROVE TypeOK'
  <2>1. CardTypeOK'
    BY <1>t, <1>24, WriteTypes, CardWords DEF CleanupGlobal
  <2> QED BY <1>t, <1>24, <2>1 DEF CleanupGlobal
<1>25. ASSUME CleanupClear, UNCHANGED toolVars PROVE TypeOK'
  <2>1. PICK x \in toClear : ClearRing(x) /\ toClear' = toClear \ {x}
    BY <1>25 DEF CleanupClear
  <2>2. CardTypeOK'
    BY <1>t, <2>1, WriteTypes
  <2> QED BY <1>25, <2>1, <2>2 DEF CleanupClear
<1>26. ASSUME CleanupCold, UNCHANGED toolVars PROVE TypeOK'
  <2>1. CardTypeOK'
    BY <1>t, <1>26, WriteTypes, CardWords DEF CleanupCold
  <2> QED BY <1>t, <1>26, <2>1 DEF CleanupCold
<1>27. ASSUME CleanupRestored, UNCHANGED toolVars PROVE TypeOK'
  <2>1. CardTypeOK'
    BY <1>t, <1>27, WriteTypes DEF CleanupRestored
  <2> QED BY <1>t, <1>27, <2>1 DEF CleanupRestored
<1>28. ASSUME VfioReset("release"), UNCHANGED toolVars PROVE TypeOK'
  <2>1. CardTypeOK'
    BY <1>t, <1>28, WriteTypes, CloseTypes DEF VfioReset
  <2> QED BY <1>t, <1>28, <2>1 DEF VfioReset
<1>29. ASSUME VfioRecovered("release"), UNCHANGED toolVars PROVE TypeOK'
  <2>1. CardTypeOK'
    BY <1>t, <1>29, WriteTypes DEF VfioRecovered
  <2> QED BY <1>t, <1>29, <2>1 DEF VfioRecovered
<1>30. ASSUME Release("release", ReleaseOrder, "exit"), UNCHANGED toolVars PROVE TypeOK'
  <2>1. CardTypeOK'
    BY <1>t, <1>30, WriteTypes, CloseTypes DEF Release
  <2>2. has' \in SUBSET Resources
    BY <1>30 DEF Release
  <2>3. n' \in 1 .. 8
    BY <1>30, Orders DEF Release, HeldInv
  <2>4. success' \in BOOLEAN
    BY <1>30 DEF Release
  <2> QED BY <1>30, <2>1, <2>2, <2>3, <2>4 DEF Release
<1>31. ASSUME Signal, UNCHANGED toolVars PROVE TypeOK'
  <2>1. CardTypeOK'
    BY <1>t, <1>31, WriteTypes DEF Signal
  <2> QED BY <1>t, <1>31, <2>1 DEF Signal
<1>32. ASSUME Kill, UNCHANGED toolVars PROVE TypeOK'
  <2>1. CardTypeOK'
    BY <1>t, <1>32, WriteTypes, CloseTypes DEF Kill
  <2> QED BY <1>t, <1>32, <2>1 DEF Kill, Resources
<1>33. ASSUME CardStep, UNCHANGED <<sessionVars, toolVars>> PROVE TypeOK'
  <2>1. CardTypeOK'
    BY <1>t, <1>33, WriteTypes DEF CardStep, ReadyFlip, LinkLoss
  <2> QED BY <1>t, <1>33, <2>1 DEF CardStep, ReadyFlip, LinkLoss
<1>34. ASSUME PageWrite PROVE TypeOK'
  <2>1. CardTypeOK'
    BY <1>t, <1>34, WriteTypes DEF PageWrite
  <2> QED BY <1>t, <1>34, <2>1 DEF PageWrite
<1>35. ASSUME UNCHANGED vars PROVE TypeOK'
  <2>1. CardTypeOK'
    BY <1>t, <1>35, WriteTypes DEF vars, cardVars
  <2> QED BY <1>t, <1>35, <2>1 DEF vars, cardVars
<1> QED
  BY <1>1, <1>2, <1>3, <1>4, <1>5, <1>6, <1>7, <1>8, <1>9, <1>10, <1>11, <1>12, <1>13, <1>14,
     <1>15, <1>16, <1>17, <1>18, <1>19, <1>20, <1>21, <1>22, <1>23, <1>24, <1>25, <1>26,
     <1>27, <1>28, <1>29, <1>30, <1>31, <1>32, <1>33, <1>34, <1>35
     DEF Next, Main, Environment, Setup, Quiet, Publish, Cleanup, DeviceReset, ReleaseAll

\* The process holds everything from the baseline test to the release.
LEMMA HeldStep ==
  ASSUME TypeOK, HeldInv, [Next]_vars PROVE HeldInv'
<1> USE DEF TypeOK, SessionTypeOK, loopVars, flagVars, sessionVars, toolVars, Goto, HeldInv, PCs, BeforePCs,
        TouchPCs, RestorePCs, OverPCs, InitLoop, ResetLoop
<1>1. ASSUME Begin PROVE HeldInv'
  BY <1>1 DEF Begin, Launch, Stopped
<1>2. ASSUME Acquire("setup", SetupOrder, "baseline"), UNCHANGED toolVars PROVE HeldInv'
  <2>1. pc = "setup" /\ SetupOrder[n] \in has' /\ has \subseteq has'
    BY <1>2 DEF Acquire
  <2>2. \A i \in 1 .. n : SetupOrder[i] \in has'
    BY <2>1
  <2>3. CASE n = 7
    <3>1. Held \subseteq has'
      BY <2>2, <2>3, Orders
    <3> QED BY <1>2, <2>3, <3>1, Orders DEF Acquire
  <2>4. CASE n # 7
    BY <1>2, <2>2, <2>4, Orders DEF Acquire
  <2> QED BY <2>3, <2>4
<1>3. ASSUME AcquireFails("setup", SetupOrder), UNCHANGED toolVars PROVE HeldInv'
  BY <1>3 DEF AcquireFails
<1>4. ASSUME Baseline PROVE HeldInv'
  BY <1>4 DEF Baseline, Check, Refuse
<1>5. ASSUME Quiesce, UNCHANGED toolVars PROVE HeldInv'
  BY <1>5 DEF Quiesce, DisableInterrupts
<1>6. ASSUME ResetGlobal, UNCHANGED toolVars PROVE HeldInv'
  BY <1>6 DEF ResetGlobal
<1>7. ASSUME GlobalOnly, UNCHANGED toolVars PROVE HeldInv'
  BY <1>7 DEF GlobalOnly
<1>8. ASSUME BoundedIndex PROVE HeldInv'
  BY <1>8 DEF BoundedIndex, RingIndex
<1>9. ASSUME RingDesc, UNCHANGED toolVars PROVE HeldInv'
  BY <1>9 DEF RingDesc
<1>10. ASSUME RingDone, UNCHANGED toolVars PROVE HeldInv'
  BY <1>10 DEF RingDone
<1>11. ASSUME EnableDsp PROVE HeldInv'
  BY <1>11 DEF EnableDsp, Enable
<1>12. ASSUME Publication PROVE HeldInv'
  BY <1>12 DEF Publication
<1>13. ASSUME ResetTest PROVE HeldInv'
  BY <1>13 DEF ResetTest
<1>14. ASSUME ResetPulse PROVE HeldInv'
  BY <1>14 DEF ResetPulse
<1>15. ASSUME ResetRelease PROVE HeldInv'
  BY <1>15 DEF ResetRelease
<1>16. ASSUME ResetCheck PROVE HeldInv'
  BY <1>16 DEF ResetCheck
<1>17. ASSUME ResetEnable PROVE HeldInv'
  BY <1>17 DEF ResetEnable
<1>18. ASSUME ResetVerify PROVE HeldInv'
  BY <1>18 DEF ResetVerify
<1>19. ASSUME Observe PROVE HeldInv'
  BY <1>19 DEF Observe
<1>20. ASSUME Judge PROVE HeldInv'
  BY <1>20 DEF Judge
<1>21. ASSUME CleanupEnter, UNCHANGED toolVars PROVE HeldInv'
  BY <1>21 DEF CleanupEnter
<1>22. ASSUME CleanupInt, UNCHANGED toolVars PROVE HeldInv'
  BY <1>22 DEF CleanupInt, DisableInterrupts
<1>23. ASSUME CleanupReset, UNCHANGED toolVars PROVE HeldInv'
  BY <1>23 DEF CleanupReset
<1>24. ASSUME CleanupGlobal, UNCHANGED toolVars PROVE HeldInv'
  BY <1>24 DEF CleanupGlobal
<1>25. ASSUME CleanupClear, UNCHANGED toolVars PROVE HeldInv'
  BY <1>25 DEF CleanupClear
<1>26. ASSUME CleanupCold, UNCHANGED toolVars PROVE HeldInv'
  BY <1>26 DEF CleanupCold
<1>27. ASSUME CleanupRestored, UNCHANGED toolVars PROVE HeldInv'
  BY <1>27 DEF CleanupRestored
<1>28. ASSUME VfioReset("release"), UNCHANGED toolVars PROVE HeldInv'
  BY <1>28 DEF VfioReset
<1>29. ASSUME VfioRecovered("release"), UNCHANGED toolVars PROVE HeldInv'
  BY <1>29 DEF VfioRecovered
<1>30. ASSUME Release("release", ReleaseOrder, "exit"), UNCHANGED toolVars PROVE HeldInv'
  BY <1>30, Orders DEF Release
<1>31. ASSUME Signal, UNCHANGED toolVars PROVE HeldInv'
  BY <1>31 DEF Signal, Stopped
<1>32. ASSUME Kill, UNCHANGED toolVars PROVE HeldInv'
  BY <1>32 DEF Kill, Stopped
<1>33. ASSUME CardStep, UNCHANGED <<sessionVars, toolVars>> PROVE HeldInv'
  BY <1>33 DEF CardStep, ReadyFlip, LinkLoss
<1>34. ASSUME PageWrite PROVE HeldInv'
  BY <1>34 DEF PageWrite
<1>35. ASSUME UNCHANGED vars PROVE HeldInv'
  BY <1>35 DEF vars, cardVars
<1> QED
  BY <1>1, <1>2, <1>3, <1>4, <1>5, <1>6, <1>7, <1>8, <1>9, <1>10, <1>11, <1>12, <1>13, <1>14,
     <1>15, <1>16, <1>17, <1>18, <1>19, <1>20, <1>21, <1>22, <1>23, <1>24, <1>25, <1>26,
     <1>27, <1>28, <1>29, <1>30, <1>31, <1>32, <1>33, <1>34, <1>35
     DEF Next, Main, Environment, Setup, Quiet, Publish, Cleanup, DeviceReset, ReleaseAll

\* Each write leaves the register as the next control point says.
LEMMA WordStep ==
  ASSUME TypeOK, HeldInv, WordInv, [Next]_vars PROVE WordInv'
<1>t. CardTypeOK /\ dsp \in DSPS
  BY DEF TypeOK, SessionTypeOK
<1> USE CardAssumption DEF loopVars, flagVars, sessionVars, toolVars, cardVars, Goto, WordInv, OverPCs,
        InitLoop
<1>1. ASSUME Begin PROVE WordInv'
  BY <1>1 DEF Begin, Launch, Stopped
<1>2. ASSUME Acquire("setup", SetupOrder, "baseline"), UNCHANGED toolVars PROVE WordInv'
  BY <1>2 DEF Acquire
<1>3. ASSUME AcquireFails("setup", SetupOrder), UNCHANGED toolVars PROVE WordInv'
  BY <1>3 DEF AcquireFails
<1>4. ASSUME Baseline PROVE WordInv'
  BY <1>4 DEF Baseline, Check, Refuse, ColdBaseline, ReadDma
<1>5. ASSUME Quiesce, UNCHANGED toolVars PROVE WordInv'
  BY <1>5 DEF Quiesce, DisableInterrupts
<1>6. ASSUME ResetGlobal, UNCHANGED toolVars PROVE WordInv'
  BY <1>6, <1>t, DmaWritten DEF ResetGlobal
<1>7. ASSUME GlobalOnly, UNCHANGED toolVars PROVE WordInv'
  BY <1>7, <1>t, DmaWritten, Shadows DEF GlobalOnly
<1>8. ASSUME BoundedIndex PROVE WordInv'
  BY <1>8 DEF BoundedIndex, RingIndex, WriteIndexes
<1>9. ASSUME RingDesc, UNCHANGED toolVars PROVE WordInv'
  BY <1>9 DEF RingDesc, WriteDesc
<1>10. ASSUME RingDone, UNCHANGED toolVars PROVE WordInv'
  BY <1>10 DEF RingDone
<1>11. ASSUME EnableDsp PROVE WordInv'
  <2>1. linked' = linked /\ (linked => dmaCtl' = EnableUpTo(dsp))
    BY <1>t, <1>11, DmaWritten DEF EnableDsp, Enable
  <2>2. CASE dsp = NDsp - 1
    <3>1. pc' = "publication" /\ (linked => dmaCtl' = ALL_DSPS)
      BY <1>11, <2>1, <2>2, Shadows DEF EnableDsp, Enable
    <3> QED BY <2>1, <3>1
  <2>3. CASE dsp # NDsp - 1
    <3>1. pc' = "ringIndex" /\ dsp' = dsp + 1
      BY <1>11, <2>3 DEF EnableDsp, Enable
    <3>2. dsp' - 1 = dsp
      BY <1>t, <3>1 DEF DSPS
    <3> QED BY <2>1, <3>1, <3>2
  <2> QED BY <2>2, <2>3
<1>12. ASSUME Publication PROVE WordInv'
  BY <1>12 DEF Publication
<1>13. ASSUME ResetTest PROVE WordInv'
  BY <1>13 DEF ResetTest
<1>14. ASSUME ResetPulse PROVE WordInv'
  BY <1>14, <1>t, DmaWritten DEF ResetPulse, Pulsed
<1>15. ASSUME ResetRelease PROVE WordInv'
  BY <1>15, <1>t, DmaWritten DEF ResetRelease
<1>16. ASSUME ResetCheck PROVE WordInv'
  BY <1>16 DEF ResetCheck, ReadDma
<1>17. ASSUME ResetEnable PROVE WordInv'
  BY <1>17, <1>t, DmaWritten DEF ResetEnable
<1>18. ASSUME ResetVerify PROVE WordInv'
  BY <1>18 DEF ResetVerify
<1>19. ASSUME Observe PROVE WordInv'
  BY <1>19 DEF Observe
<1>20. ASSUME Judge PROVE WordInv'
  BY <1>20 DEF Judge
<1>21. ASSUME CleanupEnter, UNCHANGED toolVars PROVE WordInv'
  BY <1>21 DEF CleanupEnter, HeldInv, Held
<1>22. ASSUME CleanupInt, UNCHANGED toolVars PROVE WordInv'
  BY <1>22 DEF CleanupInt, DisableInterrupts
<1>23. ASSUME CleanupReset, UNCHANGED toolVars PROVE WordInv'
  BY <1>23, <1>t, DmaWritten DEF CleanupReset
<1>24. ASSUME CleanupGlobal, UNCHANGED toolVars PROVE WordInv'
  BY <1>24, <1>t, DmaWritten DEF CleanupGlobal
<1>25. ASSUME CleanupClear, UNCHANGED toolVars PROVE WordInv'
  BY <1>25 DEF CleanupClear, ClearRing
<1>26. ASSUME CleanupCold, UNCHANGED toolVars PROVE WordInv'
  BY <1>26, <1>t, DmaWritten DEF CleanupCold
<1>27. ASSUME CleanupRestored, UNCHANGED toolVars PROVE WordInv'
  BY <1>27 DEF CleanupRestored
<1>28. ASSUME VfioReset("release"), UNCHANGED toolVars PROVE WordInv'
  <2>1. CardTypeOK
    BY <1>t
  <2>2. UNCHANGED cardVars \/ KernelCloses
    BY <1>28 DEF VfioReset
  <2>3. UNCHANGED linked /\ (dmaCtl' = dmaCtl \/ (linked => dmaCtl' = COLD_RESET))
    BY <2>1, <2>2, CloseTypes
  <2> QED BY <1>28, <2>3 DEF VfioReset
<1>29. ASSUME VfioRecovered("release"), UNCHANGED toolVars PROVE WordInv'
  BY <1>29 DEF VfioRecovered
<1>30. ASSUME Release("release", ReleaseOrder, "exit"), UNCHANGED toolVars PROVE WordInv'
  <2>1. CardTypeOK
    BY <1>t
  <2>2. UNCHANGED cardVars \/ KernelCloses
    BY <1>30 DEF Release
  <2>3. UNCHANGED linked /\ (dmaCtl' = dmaCtl \/ (linked => dmaCtl' = COLD_RESET))
    BY <2>1, <2>2, CloseTypes
  <2> QED BY <1>30, <2>3 DEF Release
<1>31. ASSUME Signal, UNCHANGED toolVars PROVE WordInv'
  BY <1>31 DEF Signal
<1>32. ASSUME Kill, UNCHANGED toolVars PROVE WordInv'
  BY <1>32 DEF Kill
<1>33. ASSUME CardStep, UNCHANGED <<sessionVars, toolVars>> PROVE WordInv'
  BY <1>33 DEF CardStep, ReadyFlip, LinkLoss
<1>34. ASSUME PageWrite PROVE WordInv'
  BY <1>34 DEF PageWrite
<1>35. ASSUME UNCHANGED vars PROVE WordInv'
  BY <1>35 DEF vars, cardVars
<1> QED
  BY <1>1, <1>2, <1>3, <1>4, <1>5, <1>6, <1>7, <1>8, <1>9, <1>10, <1>11, <1>12, <1>13, <1>14,
     <1>15, <1>16, <1>17, <1>18, <1>19, <1>20, <1>21, <1>22, <1>23, <1>24, <1>25, <1>26,
     <1>27, <1>28, <1>29, <1>30, <1>31, <1>32, <1>33, <1>34, <1>35
     DEF Next, Main, Environment, Setup, Quiet, Publish, Cleanup, DeviceReset, ReleaseAll

\* The descriptors are complete before an enable bit covers them, and gone
\* before the inverse sequence ends.
LEMMA HostWordStep ==
  ASSUME TypeOK, HeldInv, WordInv, HostWordInv, [Next]_vars PROVE HostWordInv'
<1>t. CardTypeOK /\ dsp \in DSPS /\ ring \in RINGS /\ toWrite \in SUBSET DescSlots /\ toClear \in SUBSET RingIds
  BY DEF TypeOK, SessionTypeOK
<1> USE CardAssumption DEF loopVars, flagVars, sessionVars, toolVars, cardVars, Goto, HostWordInv, OverPCs,
        InitLoop, ResetLoop
<1>1. ASSUME Begin PROVE HostWordInv'
  BY <1>1 DEF Begin, Launch, Stopped, Blank, Zeroed, Published
<1>2. ASSUME Acquire("setup", SetupOrder, "baseline"), UNCHANGED toolVars PROVE HostWordInv'
  BY <1>2 DEF Acquire, Blank, Zeroed, Published
<1>3. ASSUME AcquireFails("setup", SetupOrder), UNCHANGED toolVars PROVE HostWordInv'
  BY <1>3 DEF AcquireFails, Blank, Zeroed, Published, HeldInv, BeforePCs
<1>4. ASSUME Baseline PROVE HostWordInv'
  <2>1. UNCHANGED cardVars /\ ~ started /\ started' = started /\ pc' \in {"startup", "cleanup"}
    BY <1>4 DEF Baseline, Check, Refuse, HeldInv, BeforePCs
  <2>2. pc' = "startup" => AllRingWordsZero
    BY <1>4 DEF Baseline, Check, Refuse, ColdBaseline
  <2>3. pc' = "startup" => Blank' /\ Zeroed'
    BY <2>1, <2>2 DEF AllRingWordsZero, Blank, Zeroed
  <2> QED BY <2>1, <2>3
<1>5. ASSUME Quiesce, UNCHANGED toolVars PROVE HostWordInv'
  BY <1>5 DEF Quiesce, DisableInterrupts, Blank, Zeroed, Published
<1>6. ASSUME ResetGlobal, UNCHANGED toolVars PROVE HostWordInv'
  <2>1. UNCHANGED <<linked, desc>>
        /\ \A x \in RingIds : idx'[x].bell = idx[x].bell /\ idx'[x].write = idx[x].write
    BY <1>t, <1>6, DmaWritten DEF ResetGlobal
  <2> QED BY <1>t, <1>6, <2>1 DEF ResetGlobal, Blank, Zeroed, Published
<1>7. ASSUME GlobalOnly, UNCHANGED toolVars PROVE HostWordInv'
  <2>1. pc' = "ringIndex" /\ toWrite' = DescSlots /\ dsp' = 0 /\ ring' = 0
    BY <1>7 DEF GlobalOnly
  <2>2. \A s \in DescSlots : s[1] >= 0
    BY DEF DescSlots, DSPS
  <2> QED BY <2>1, <2>2
<1>8. ASSUME BoundedIndex PROVE HostWordInv'
  <2>1. UNCHANGED <<linked, desc, run, toWrite, dsp, ring, started>>
    BY <1>8 DEF BoundedIndex, RingIndex, WriteIndexes
  <2> QED BY <1>8, <2>1 DEF BoundedIndex, RingIndex
<1>9. ASSUME RingDesc, UNCHANGED toolVars PROVE HostWordInv'
  <2>1. PICK s \in toWrite : WriteDesc(s, run) /\ toWrite' = toWrite \ {s}
    BY <1>9 DEF RingDesc
  <2>2. /\ UNCHANGED linked
        /\ linked => /\ desc'[s] = run
                     /\ \A t \in DescSlots \ {s} : desc'[t] = desc[t]
    BY <1>t, <2>1, DescWritten
  <2>3. pc = "ringDesc" /\ UNCHANGED <<pc, run, dsp, ring>>
    BY <1>9 DEF RingDesc
  <2> QED BY <1>t, <2>1, <2>2, <2>3
<1>10. ASSUME RingDone, UNCHANGED toolVars PROVE HostWordInv'
  <2>1. UNCHANGED <<linked, desc, run, toWrite, dsp>> /\ pc = "ringDesc" /\ ring' = 1 - ring
    BY <1>10 DEF RingDone
  <2>2. ASSUME linked, ring = 0 PROVE \A s \in toWrite : s[1] = dsp => s[2] = 1
    BY <1>t, <1>10, <2>2 DEF RingDone, RingSlots, DescSlots, RINGS
  <2>3. ASSUME linked, ring = 1 PROVE \A s \in toWrite : s[1] > dsp
    <3>1. \A s \in toWrite : s[1] >= dsp /\ (s[1] = dsp => s[2] = 1)
      BY <2>1, <2>3
    <3>2. \A s \in toWrite : ~ (s[1] = dsp /\ s[2] = 1)
      BY <1>t, <1>10, <2>3 DEF RingDone, RingSlots
    <3>3. \A s \in toWrite : s[1] \in Int /\ dsp \in Int
      BY <1>t DEF DescSlots, DSPS
    <3> QED BY <3>1, <3>2, <3>3
  <2>4. CASE ring = 0
    <3>1. pc' = "ringIndex" /\ ring' = 1
      BY <1>10, <2>4 DEF RingDone
    <3> QED BY <2>1, <2>2, <2>4, <3>1
  <2>5. CASE ring = 1
    <3>1. pc' = "enable" /\ ring' = 0
      BY <1>10, <2>5 DEF RingDone
    <3> QED BY <2>1, <2>3, <2>5, <3>1
  <2> QED BY <1>t, <2>4, <2>5 DEF RINGS
<1>11. ASSUME EnableDsp PROVE HostWordInv'
  <2>1. UNCHANGED <<linked, desc, run, toWrite, ring>> /\ pc = "enable"
    BY <1>t, <1>11, DmaWritten DEF EnableDsp, Enable
  <2>2. \A s \in toWrite : s \in DescSlots /\ s[1] \in 0 .. NDsp - 1 /\ dsp \in 0 .. NDsp - 1
    BY <1>t DEF DescSlots, DSPS
  <2>3. CASE dsp = NDsp - 1
    <3>1. pc' = "publication"
      BY <1>11, <2>3 DEF EnableDsp, Enable
    <3>2. linked => \A s \in toWrite : FALSE
      BY <2>1, <2>2, <2>3
    <3> QED BY <2>1, <3>1, <3>2 DEF Published
  <2>4. CASE dsp # NDsp - 1
    <3>1. pc' = "ringIndex" /\ dsp' = dsp + 1
      BY <1>11, <2>4 DEF EnableDsp, Enable
    <3>2. linked => \A s \in toWrite : s[1] >= dsp + 1
      BY <2>1, <2>2
    <3> QED BY <2>1, <3>1, <3>2
  <2> QED BY <2>3, <2>4
<1>12. ASSUME Publication PROVE HostWordInv'
  BY <1>12 DEF Publication, Blank, Zeroed, Published
<1>13. ASSUME ResetTest PROVE HostWordInv'
  BY <1>13 DEF ResetTest, Blank, Zeroed, Published
<1>14. ASSUME ResetPulse PROVE HostWordInv'
  <2>1. UNCHANGED <<linked, desc>>
        /\ \A x \in RingIds : idx'[x].bell = idx[x].bell /\ idx'[x].write = idx[x].write
    BY <1>t, <1>14, DmaWritten DEF ResetPulse
  <2> QED BY <1>t, <1>14, <2>1 DEF ResetPulse, Blank, Zeroed, Published
<1>15. ASSUME ResetRelease PROVE HostWordInv'
  <2>1. UNCHANGED <<linked, desc>>
        /\ \A x \in RingIds : idx'[x].bell = idx[x].bell /\ idx'[x].write = idx[x].write
    BY <1>t, <1>15, DmaWritten DEF ResetRelease
  <2> QED BY <1>t, <1>15, <2>1 DEF ResetRelease, Blank, Zeroed, Published
<1>16. ASSUME ResetCheck PROVE HostWordInv'
  BY <1>16 DEF ResetCheck, Blank, Zeroed, Published
<1>17. ASSUME ResetEnable PROVE HostWordInv'
  <2>1. UNCHANGED <<linked, desc>>
        /\ \A x \in RingIds : idx'[x].bell = idx[x].bell /\ idx'[x].write = idx[x].write
    BY <1>t, <1>17, DmaWritten DEF ResetEnable
  <2> QED BY <1>t, <1>17, <2>1 DEF ResetEnable, Blank, Zeroed, Published
<1>18. ASSUME ResetVerify PROVE HostWordInv'
  BY <1>18 DEF ResetVerify, Blank, Zeroed, Published
<1>19. ASSUME Observe PROVE HostWordInv'
  BY <1>19 DEF Observe, Blank, Zeroed, Published
<1>20. ASSUME Judge PROVE HostWordInv'
  BY <1>20 DEF Judge, Blank, Zeroed, Published
<1>21. ASSUME CleanupEnter, UNCHANGED toolVars PROVE HostWordInv'
  BY <1>21 DEF CleanupEnter, Blank, Zeroed, Published, HeldInv, Held
<1>22. ASSUME CleanupInt, UNCHANGED toolVars PROVE HostWordInv'
  BY <1>22 DEF CleanupInt, DisableInterrupts, Blank, Zeroed, Published
<1>23. ASSUME CleanupReset, UNCHANGED toolVars PROVE HostWordInv'
  <2>1. UNCHANGED <<linked, desc>>
        /\ \A x \in RingIds : idx'[x].bell = idx[x].bell /\ idx'[x].write = idx[x].write
    BY <1>t, <1>23, DmaWritten DEF CleanupReset
  <2> QED BY <1>t, <1>23, <2>1 DEF CleanupReset, Blank, Zeroed, Published
<1>24. ASSUME CleanupGlobal, UNCHANGED toolVars PROVE HostWordInv'
  <2>1. pc' = "cClear" /\ toClear' = RingIds
    BY <1>24 DEF CleanupGlobal
  <2>2. \A s \in DescSlots : <<s[1], s[2]>> \in RingIds
    BY DEF DescSlots, RingIds
  <2> QED BY <2>1, <2>2
<1>25. ASSUME CleanupClear, UNCHANGED toolVars PROVE HostWordInv'
  <2>1. PICK x \in toClear : /\ ClearRing(x) /\ toClear' = toClear \ {x}
                            /\ pc' = IF toClear = {x} THEN "cCold" ELSE "cClear"
    BY <1>25 DEF CleanupClear
  <2>2. /\ UNCHANGED linked
        /\ linked => /\ \A s \in DescSlots :
                          desc'[s] = IF <<s[1], s[2]>> = x THEN 0 ELSE desc[s]
                     /\ idx'[x].bell = 0 /\ idx'[x].write = 0
                     /\ \A y \in RingIds \ {x} : idx'[y] = idx[y]
    BY <1>t, <2>1, RingCleared
  <2>3. pc = "cClear"
    BY <1>25 DEF CleanupClear
  <2>4. ASSUME linked
        PROVE  /\ \A s \in DescSlots : <<s[1], s[2]>> \notin toClear' => desc'[s] = 0
               /\ \A y \in RingIds \ toClear' : idx'[y].bell = 0 /\ idx'[y].write = 0
    <3>1. /\ \A s \in DescSlots : <<s[1], s[2]>> \notin toClear => desc[s] = 0
          /\ \A y \in RingIds \ toClear : idx[y].bell = 0 /\ idx[y].write = 0
      BY <2>3, <2>4
    <3>2. ASSUME NEW s \in DescSlots, <<s[1], s[2]>> \notin toClear' PROVE desc'[s] = 0
      BY <2>1, <2>2, <2>4, <3>1, <3>2
    <3>3. ASSUME NEW y \in RingIds \ toClear'
          PROVE  idx'[y].bell = 0 /\ idx'[y].write = 0
      BY <2>1, <2>2, <2>4, <3>1, <3>3
    <3> QED BY <3>2, <3>3
  <2>5. CASE toClear = {x}
    <3>1. pc' = "cCold" /\ toClear' = {}
      BY <2>1, <2>5
    <3> QED BY <2>2, <2>4, <3>1 DEF Blank, Zeroed
  <2>6. CASE toClear # {x}
    <3>1. pc' = "cClear"
      BY <2>1, <2>6
    <3> QED BY <2>2, <2>4, <3>1
  <2> QED BY <2>5, <2>6
<1>26. ASSUME CleanupCold, UNCHANGED toolVars PROVE HostWordInv'
  <2>1. UNCHANGED <<linked, desc>>
        /\ \A x \in RingIds : idx'[x].bell = idx[x].bell /\ idx'[x].write = idx[x].write
    BY <1>t, <1>26, DmaWritten DEF CleanupCold
  <2> QED BY <1>t, <1>26, <2>1 DEF CleanupCold, Blank, Zeroed, Published
<1>27. ASSUME CleanupRestored, UNCHANGED toolVars PROVE HostWordInv'
  BY <1>27 DEF CleanupRestored, Blank, Zeroed, Published
<1>28. ASSUME VfioReset("release"), UNCHANGED toolVars PROVE HostWordInv'
  <2>1. CardTypeOK
    BY <1>t
  <2>2. UNCHANGED cardVars \/ KernelCloses
    BY <1>28 DEF VfioReset
  <2>3. UNCHANGED linked /\ (UNCHANGED cardVars \/ (linked => Blank' /\ Zeroed'))
    BY <2>1, <2>2, CloseTypes
  <2>4. CASE UNCHANGED cardVars
    BY <1>28, <2>4 DEF VfioReset, Blank, Zeroed, Published
  <2>5. CASE UNCHANGED linked /\ (linked => Blank' /\ Zeroed')
    BY <1>28, <2>5 DEF VfioReset
  <2> QED BY <2>3, <2>4, <2>5
<1>29. ASSUME VfioRecovered("release"), UNCHANGED toolVars PROVE HostWordInv'
  BY <1>29 DEF VfioRecovered, Blank, Zeroed, Published
<1>30. ASSUME Release("release", ReleaseOrder, "exit"), UNCHANGED toolVars PROVE HostWordInv'
  <2>1. CardTypeOK
    BY <1>t
  <2>2. UNCHANGED cardVars \/ KernelCloses
    BY <1>30 DEF Release
  <2>3. UNCHANGED linked /\ (UNCHANGED cardVars \/ (linked => Blank' /\ Zeroed'))
    BY <2>1, <2>2, CloseTypes
  <2>4. CASE UNCHANGED cardVars
    BY <1>30, <2>4 DEF Release, Blank, Zeroed, Published
  <2>5. CASE UNCHANGED linked /\ (linked => Blank' /\ Zeroed')
    BY <1>30, <2>5 DEF Release
  <2> QED BY <2>3, <2>4, <2>5
<1>31. ASSUME Signal, UNCHANGED toolVars PROVE HostWordInv'
  BY <1>31 DEF Signal, Blank, Zeroed, Published
<1>32. ASSUME Kill, UNCHANGED toolVars PROVE HostWordInv'
  BY <1>32 DEF Kill, Blank, Zeroed, Published
<1>33. ASSUME CardStep, UNCHANGED <<sessionVars, toolVars>> PROVE HostWordInv'
  BY <1>33 DEF CardStep, ReadyFlip, LinkLoss, Blank, Zeroed, Published
<1>34. ASSUME PageWrite PROVE HostWordInv'
  BY <1>34 DEF PageWrite, Blank, Zeroed, Published
<1>35. ASSUME UNCHANGED vars PROVE HostWordInv'
  BY <1>35 DEF vars, cardVars, Blank, Zeroed, Published
<1> QED
  BY <1>1, <1>2, <1>3, <1>4, <1>5, <1>6, <1>7, <1>8, <1>9, <1>10, <1>11, <1>12, <1>13, <1>14,
     <1>15, <1>16, <1>17, <1>18, <1>19, <1>20, <1>21, <1>22, <1>23, <1>24, <1>25, <1>26,
     <1>27, <1>28, <1>29, <1>30, <1>31, <1>32, <1>33, <1>34, <1>35
     DEF Next, Main, Environment, Setup, Quiet, Publish, Cleanup, DeviceReset, ReleaseAll

\* A reset loop that did not reset every DSP cannot end in success.
LEMMA ResetInvStep ==
  ASSUME TypeOK, ResetInv, [Next]_vars PROVE ResetInv'
<1>t. CardTypeOK /\ dsp \in 0 .. NDsp - 1 /\ NDsp \in Nat
  BY CardAssumption DEF TypeOK, SessionTypeOK, DSPS
<1> USE DEF loopVars, flagVars, sessionVars, toolVars, cardVars, Goto, ResetInv, InitLoop, ResetLoop
<1>1. ASSUME Begin PROVE ResetInv'
  <2>1. passed' = {} /\ success' = FALSE /\ pc' \in {"setup", "cleanup"}
    BY <1>1 DEF Begin, Launch
  <2> QED BY <2>1
<1>2. ASSUME Acquire("setup", SetupOrder, "baseline"), UNCHANGED toolVars PROVE ResetInv'
  BY <1>2 DEF Acquire
<1>3. ASSUME AcquireFails("setup", SetupOrder), UNCHANGED toolVars PROVE ResetInv'
  BY <1>3 DEF AcquireFails
<1>4. ASSUME Baseline PROVE ResetInv'
  BY <1>4 DEF Baseline, Check, Refuse
<1>5. ASSUME Quiesce, UNCHANGED toolVars PROVE ResetInv'
  BY <1>5 DEF Quiesce, DisableInterrupts
<1>6. ASSUME ResetGlobal, UNCHANGED toolVars PROVE ResetInv'
  BY <1>6 DEF ResetGlobal
<1>7. ASSUME GlobalOnly, UNCHANGED toolVars PROVE ResetInv'
  BY <1>7 DEF GlobalOnly
<1>8. ASSUME BoundedIndex PROVE ResetInv'
  BY <1>8 DEF BoundedIndex, RingIndex
<1>9. ASSUME RingDesc, UNCHANGED toolVars PROVE ResetInv'
  BY <1>9 DEF RingDesc
<1>10. ASSUME RingDone, UNCHANGED toolVars PROVE ResetInv'
  BY <1>10 DEF RingDone
<1>11. ASSUME EnableDsp PROVE ResetInv'
  BY <1>11 DEF EnableDsp, Enable
<1>12. ASSUME Publication PROVE ResetInv'
  <2>1. UNCHANGED <<dsp, passed, success, exercise>> /\ dsp = 0 /\ passed = {}
    BY <1>12 DEF Publication
  <2>2. published' = AllRingsMatch /\ pc' = IF exercise /\ AllRingsMatch THEN "rTest" ELSE "observe"
    BY <1>12 DEF Publication
  <2>3. 0 .. 0 - 1 = {}
    OBVIOUS
  <2> QED BY <2>1, <2>2, <2>3
<1>13. ASSUME ResetTest PROVE ResetInv'
  BY <1>13 DEF ResetTest
<1>14. ASSUME ResetPulse PROVE ResetInv'
  BY <1>14 DEF ResetPulse
<1>15. ASSUME ResetRelease PROVE ResetInv'
  BY <1>15 DEF ResetRelease
<1>16. ASSUME ResetCheck PROVE ResetInv'
  <2>1. UNCHANGED <<dsp, passed, success, exercise>> /\ pc = "rCheck"
    BY <1>16 DEF ResetCheck
  <2>2. pc' = "rEnable" \/ (pc' = "observe" /\ ~ resetsOk')
    BY <1>16 DEF ResetCheck
  <2> QED BY <2>1, <2>2
<1>17. ASSUME ResetEnable PROVE ResetInv'
  BY <1>17 DEF ResetEnable
<1>18. ASSUME ResetVerify PROVE ResetInv'
  <2>1. pc = "rVerify" /\ passed = 0 .. dsp - 1 /\ UNCHANGED <<success, exercise>>
    BY <1>18 DEF ResetVerify
  <2>2. CASE ~ resetsOk'
    <3>1. pc' = "observe" /\ passed' = passed
      BY <1>18, <2>2 DEF ResetVerify
    <3> QED BY <2>1, <2>2, <3>1
  <2>3. CASE resetsOk'
    <3>1. passed' = passed \cup {dsp}
      BY <1>18, <2>3 DEF ResetVerify
    <3>2. passed' = 0 .. dsp
      BY <1>t, <2>1, <3>1
    <3>3. success /\ exercise => passed' = DSPS
      BY <1>t, <2>1, <3>1 DEF DSPS
    <3>4. CASE dsp = NDsp - 1
      <4>1. pc' = "observe" /\ passed' = DSPS
        BY <1>18, <2>3, <3>2, <3>4 DEF ResetVerify, DSPS
      <4> QED BY <2>1, <4>1
    <3>5. CASE dsp # NDsp - 1
      <4>1. pc' = "rTest" /\ dsp' = dsp + 1
        BY <1>18, <2>3, <3>5 DEF ResetVerify
      <4>2. passed' = 0 .. dsp' - 1
        BY <1>t, <3>2, <4>1
      <4> QED BY <2>1, <3>3, <4>1, <4>2
    <3> QED BY <3>4, <3>5
  <2> QED BY <2>2, <2>3
<1>19. ASSUME Observe PROVE ResetInv'
  BY <1>19 DEF Observe
<1>20. ASSUME Judge PROVE ResetInv'
  BY <1>20 DEF Judge, Verdict
<1>21. ASSUME CleanupEnter, UNCHANGED toolVars PROVE ResetInv'
  BY <1>21 DEF CleanupEnter
<1>22. ASSUME CleanupInt, UNCHANGED toolVars PROVE ResetInv'
  BY <1>22 DEF CleanupInt, DisableInterrupts
<1>23. ASSUME CleanupReset, UNCHANGED toolVars PROVE ResetInv'
  BY <1>23 DEF CleanupReset
<1>24. ASSUME CleanupGlobal, UNCHANGED toolVars PROVE ResetInv'
  BY <1>24 DEF CleanupGlobal
<1>25. ASSUME CleanupClear, UNCHANGED toolVars PROVE ResetInv'
  BY <1>25 DEF CleanupClear
<1>26. ASSUME CleanupCold, UNCHANGED toolVars PROVE ResetInv'
  BY <1>26 DEF CleanupCold
<1>27. ASSUME CleanupRestored, UNCHANGED toolVars PROVE ResetInv'
  BY <1>27 DEF CleanupRestored, TypeOK, SessionTypeOK
<1>28. ASSUME VfioReset("release"), UNCHANGED toolVars PROVE ResetInv'
  BY <1>28 DEF VfioReset
<1>29. ASSUME VfioRecovered("release"), UNCHANGED toolVars PROVE ResetInv'
  BY <1>29 DEF VfioRecovered, TypeOK, SessionTypeOK
<1>30. ASSUME Release("release", ReleaseOrder, "exit"), UNCHANGED toolVars PROVE ResetInv'
  BY <1>30 DEF Release
<1>31. ASSUME Signal, UNCHANGED toolVars PROVE ResetInv'
  BY <1>31 DEF Signal
<1>32. ASSUME Kill, UNCHANGED toolVars PROVE ResetInv'
  BY <1>32 DEF Kill
<1>33. ASSUME CardStep, UNCHANGED <<sessionVars, toolVars>> PROVE ResetInv'
  BY <1>33 DEF CardStep, ReadyFlip, LinkLoss
<1>34. ASSUME PageWrite PROVE ResetInv'
  BY <1>34 DEF PageWrite
<1>35. ASSUME UNCHANGED vars PROVE ResetInv'
  BY <1>35 DEF vars, cardVars
<1> QED
  BY <1>1, <1>2, <1>3, <1>4, <1>5, <1>6, <1>7, <1>8, <1>9, <1>10, <1>11, <1>12, <1>13, <1>14,
     <1>15, <1>16, <1>17, <1>18, <1>19, <1>20, <1>21, <1>22, <1>23, <1>24, <1>25, <1>26,
     <1>27, <1>28, <1>29, <1>30, <1>31, <1>32, <1>33, <1>34, <1>35
     DEF Next, Main, Environment, Setup, Quiet, Publish, Cleanup, DeviceReset, ReleaseAll

----------------------------------------------------------------------------
(* The invariant and the state theorems.                                   *)

LEMMA InitIInv == Init => IInv
<1> SUFFICES ASSUME Init PROVE IInv
  OBVIOUS
<1> USE CardAssumption DEF Init, SessionInit
<1>1. CardTypeOK
  <2>1. desc \in [DescSlots -> 0 .. MaxGen]
    BY DEF CardInit
  <2>2. idx \in [RingIds -> IdxWord]
    BY DEF CardInit, IdxWord
  <2> QED BY <2>1, <2>2, CardWords DEF CardInit, CardTypeOK
<1>2. TypeOK
  <2>1. indexes \in [RingIds -> 0 .. Entries - 1]
    OBVIOUS
  <2>2. 0 \in DSPS /\ 0 \in RINGS
    BY DEF DSPS, RINGS
  <2>3. run \in 0 .. MaxGen /\ n \in 1 .. 8
    OBVIOUS
  <2>4. toWrite \in SUBSET DescSlots /\ toClear \in SUBSET RingIds /\ has \in SUBSET Resources
    OBVIOUS
  <2>5. SessionTypeOK
    BY <1>1, <2>2, <2>3, <2>4 DEF SessionTypeOK
  <2> QED BY <2>1, <2>5 DEF TypeOK
<1>3. pc = "idle" /\ HeldInv
  BY DEF HeldInv, PCs, BeforePCs, TouchPCs, RestorePCs, OverPCs, InitLoop, ResetLoop
<1>4. WordInv /\ HostWordInv /\ ResetInv
  BY <1>3 DEF WordInv, HostWordInv, ResetInv, OverPCs, InitLoop, ResetLoop
<1> QED BY <1>2, <1>3, <1>4 DEF IInv

LEMMA NextIInv == IInv /\ [Next]_vars => IInv'
<1> SUFFICES ASSUME IInv, [Next]_vars PROVE IInv'
  OBVIOUS
<1> QED BY TypeStep, HeldStep, WordStep, HostWordStep, ResetInvStep DEF IInv

\* What the process holds, the words of the card and the reset loop agree with
\* where main() is.
THEOREM Inductive == Spec => []IInv
BY InitIInv, NextIInv, PTL DEF Spec

\* DMA containment of vfio_full_octo_start: an engine that can run has complete
\* descriptors of this process's own pages, and these are mapped.
THEOREM Containment == Spec => []ContainedDma
<1>1. ASSUME IInv PROVE ContainedDma
  <2> SUFFICES ASSUME started, pc # "killed", NEW d \in DSPS, EngineLive(d)
               PROVE  /\ {"memory", "dma"} \subseteq has
                      /\ \A s \in DescSlots : s[1] = d => desc[s] = run
    BY DEF ContainedDma
  <2>1. linked /\ dmaCtl.global /\ d \in dmaCtl.enable /\ d \notin dmaCtl.reset
    BY DEF EngineLive
  <2>2. pc \notin {"resetGlobal", "globalOnly", "cGlobal", "cClear", "cCold", "cRestored"} \cup OverPCs
    BY <1>1, <2>1 DEF IInv, WordInv, COLD_RESET, RESET_GLOBAL, GLOBAL_ONLY
  <2>3. pc \in TouchPCs \cup RestorePCs \cup {"cleanup"}
    BY <1>1, <2>2 DEF IInv, HeldInv, PCs
  <2>4. Held \subseteq has
    BY <1>1, <2>3 DEF IInv, HeldInv
  <2>5. CASE pc \in InitLoop
    <3>1. dmaCtl = EnableUpTo(dsp - 1)
      BY <1>1, <2>1, <2>5 DEF IInv, WordInv
    <3>2. d < dsp /\ d \in Int /\ dsp \in Int
      BY <1>1, <2>1, <3>1 DEF EnableUpTo, IInv, TypeOK, SessionTypeOK, DSPS
    <3>3. \A s \in toWrite : s[1] # d
      BY <1>1, <2>1, <2>5, <3>2 DEF IInv, HostWordInv
    <3> QED BY <1>1, <2>1, <2>4, <2>5, <3>3 DEF IInv, HostWordInv, Held
  <2>6. CASE pc \notin InitLoop
    <3>1. Published
      BY <1>1, <2>1, <2>2, <2>3, <2>6 DEF IInv, HostWordInv, TouchPCs, RestorePCs, OverPCs
    <3> QED BY <2>4, <3>1 DEF Published, Held
  <2> QED BY <2>5, <2>6
<1> QED BY <1>1, Inductive, PTL

\* Whatever ended the run, short of a kill, the cleanup label put an answering
\* card back to cold with no descriptor: a process that began the startup
\* holds BAR0 when it reaches the label, so the inverse sequence runs.
THEOREM ColdExit == Spec => []ExitLeavesCold
<1>1. IInv => ExitLeavesCold
  BY DEF IInv, WordInv, HostWordInv, Blank, OverPCs, ExitLeavesCold
<1> QED BY <1>1, Inductive, PTL

\* Success with --exercise-dsp-resets means that every DSP was reset and came
\* back: a loop that a signal or a failed check ended leaves interrupted or
\* per_dsp_resets_ok for the verdict to see.
THEOREM ResetsComplete == Spec => []SuccessResetAll
<1>1. IInv => SuccessResetAll
  BY DEF IInv, ResetInv, SuccessResetAll
<1> QED BY <1>1, Inductive, PTL

----------------------------------------------------------------------------
(* The refinement: every step of the tool is a step of Experiment, or      *)
(* leaves its state alone.                                                 *)

Phase == IF pc \in {"idle", "exit"} THEN "rest"
         ELSE IF pc = "killed" THEN "killed" ELSE "running"
Mapped == "dma" \in has
Dirty == /\ linked
         /\ \/ \E s \in DescSlots : desc[s] # 0
            \/ \E x \in RingIds : idx[x].bell # 0 \/ idx[x].write # 0
ContractStep == [Contract!Next]_(Contract!vars)

\* How a change of these is a step of Experiment.
LEMMA AsStutter ==
  ASSUME Phase' = Phase, started' = started, Mapped' <=> Mapped, Engines' = Engines,
         Dirty' <=> Dirty
  PROVE  ContractStep
<1>1. UNCHANGED {d \in DSPS : EngineLive(d)}
  BY MappedEngines DEF Engines, EnginesOf, EngineLive
<1> QED BY <1>1 DEF ContractStep, Contract!vars, Phase, Mapped, Dirty
LEMMA AsMove ==
  ASSUME Phase = "running", Phase' = "running", started, started', Mapped' <=> Mapped,
         \/ Engines' = Engines
         \/ Engines \subseteq Engines' /\ Mapped /\ (Dirty' <=> Dirty)
         \/ Engines' \subseteq Engines /\ (Dirty' <=> Dirty)
  PROVE  ContractStep
<1>1. {d \in DSPS : EngineLive(d)} = Engines /\ {d \in DSPS : EngineLive(d)}' = Engines'
  BY MappedEngines DEF Engines, EnginesOf, EngineLive
<1>2. Engines' \subseteq DSPS
  BY DEF Engines, EnginesOf
<1>3. CASE Engines' = Engines
  <2>1. Contract!Write
    BY <1>1, <1>3 DEF Contract!Write, Phase, Mapped
  <2> QED BY <2>1 DEF ContractStep, Contract!Next
<1>4. CASE Engines \subseteq Engines' /\ Mapped /\ (Dirty' <=> Dirty)
  <2>1. Contract!Start
    BY <1>1, <1>2, <1>4 DEF Contract!Start, Phase, Mapped, Dirty
  <2> QED BY <2>1 DEF ContractStep, Contract!Next
<1>5. CASE Engines' \subseteq Engines /\ (Dirty' <=> Dirty)
  <2>1. Contract!Stop
    BY <1>1, <1>5 DEF Contract!Stop, Phase, Mapped, Dirty
  <2> QED BY <2>1 DEF ContractStep, Contract!Next
<1> QED BY <1>3, <1>4, <1>5
LEMMA AsFirst ==
  ASSUME Phase = "running", Phase' = "running", started', Mapped' <=> Mapped,
         Engines = {}, Engines' = {}, ~ Dirty
  PROVE  ContractStep
<1>1. {d \in DSPS : EngineLive(d)} = {} /\ {d \in DSPS : EngineLive(d)}' = {}
  BY MappedEngines DEF Engines, EnginesOf, EngineLive
<1>2. Contract!Write
  BY <1>1 DEF Contract!Write, Phase, Mapped, Dirty
<1> QED BY <1>2 DEF ContractStep, Contract!Next
LEMMA AsClear ==
  ASSUME Phase' = Phase, started' = started, Mapped' <=> Mapped, Engines' = {}, ~ Dirty'
  PROVE  ContractStep
<1>1. {d \in DSPS : EngineLive(d)}' = {}
  BY MappedEngines DEF Engines, EnginesOf, EngineLive
<1>2. Contract!Clear
  BY <1>1 DEF Contract!Clear, Phase, Mapped, Dirty
<1> QED BY <1>2 DEF ContractStep, Contract!Next
LEMMA AsMap ==
  ASSUME Phase = "running", Phase' = "running", ~ started, started' = started, ~ Mapped, Mapped',
         UNCHANGED cardVars
  PROVE  ContractStep
<1>1. UNCHANGED {d \in DSPS : EngineLive(d)} /\ (Dirty' <=> Dirty)
  BY DEF EngineLive, cardVars, Dirty
<1>2. Contract!Map
  BY <1>1 DEF Contract!Map, Phase, Mapped, Dirty
<1> QED BY <1>2 DEF ContractStep, Contract!Next
LEMMA AsUnmap ==
  ASSUME Phase = "running", Phase' = "running", started => Engines = {}, started' = started,
         ~ Mapped', UNCHANGED cardVars
  PROVE  ContractStep
<1>1. UNCHANGED {d \in DSPS : EngineLive(d)} /\ (Dirty' <=> Dirty)
  BY DEF EngineLive, cardVars, Dirty
<1>2. {d \in DSPS : EngineLive(d)} = Engines
  BY MappedEngines
<1>3. Contract!Unmap
  BY <1>1, <1>2 DEF Contract!Unmap, Phase, Mapped, Dirty
<1> QED BY <1>3 DEF ContractStep, Contract!Next
LEMMA AsBegin ==
  ASSUME Phase # "running", Phase' = "running", ~ started', UNCHANGED <<cardVars, has>>
  PROVE  ContractStep
<1>1. /\ UNCHANGED {d \in DSPS : EngineLive(d)}
      /\ (Dirty' <=> Dirty) /\ (Mapped' <=> Mapped)
  BY DEF EngineLive, cardVars, Dirty, Mapped
<1>2. Contract!Begin
  BY <1>1 DEF Contract!Begin, Phase, Mapped, Dirty
<1> QED BY <1>2 DEF ContractStep, Contract!Next
\* The process is gone: it was killed, or it exits over a clear card.
LEMMA AsGone ==
  ASSUME Phase = "running", started' = started, ~ Mapped',
         \/ Phase' = "killed"
         \/ Phase' = "rest" /\ (started => Engines = {} /\ ~ Dirty),
         UNCHANGED cardVars \/ (Engines' = {} /\ ~ Dirty')
  PROVE  ContractStep
<1>1. {d \in DSPS : EngineLive(d)} = Engines /\ {d \in DSPS : EngineLive(d)}' = Engines'
  BY MappedEngines DEF Engines, EnginesOf, EngineLive
<1>2. UNCHANGED cardVars => Engines' = Engines /\ (Dirty' <=> Dirty)
  BY DEF Engines, cardVars, Dirty
<1>3. CASE Phase' = "killed"
  <2>1. Contract!Die
    BY <1>1, <1>2, <1>3 DEF Contract!Die, Phase, Mapped, Dirty
  <2> QED BY <2>1 DEF ContractStep, Contract!Next
<1>4. CASE Phase' = "rest" /\ (started => Engines = {} /\ ~ Dirty)
  <2>1. Contract!Safe
    BY <1>1, <1>4 DEF Contract!Safe, Dirty
  <2>2. Contract!End
    BY <1>1, <1>2, <1>4, <2>1 DEF Contract!End, Phase, Mapped, Dirty
  <2> QED BY <2>2 DEF ContractStep, Contract!Next
<1> QED BY <1>3, <1>4

\* Steps that do not reach the card.
LEMMA ContractKeep ==
  ASSUME UNCHANGED <<dmaCtl, desc, idx, linked, has, started>>, Phase' = Phase PROVE ContractStep
BY AsStutter DEF Mapped, Engines, Dirty

\* A DMA write changes no word that the host owns, and on a lost card nothing.
LEMMA DirtyKeep ==
  ASSUME CardTypeOK, NEW v, WriteDma(v)
  PROVE  (Dirty' <=> Dirty) /\ Engines' = (IF linked THEN EnginesOf(v) ELSE {})
<1>1. /\ UNCHANGED <<linked, desc>> /\ (linked => dmaCtl' = v)
      /\ \A x \in RingIds : idx'[x].bell = idx[x].bell /\ idx'[x].write = idx[x].write
  BY DmaWritten
<1>2. Dirty' <=> Dirty
  BY <1>1 DEF Dirty
<1> QED BY <1>1, <1>2 DEF Engines

\* A function reset that takes effect clears the card.
LEMMA ClearedCard ==
  ASSUME CardTypeOK, KernelCloses
  PROVE  UNCHANGED cardVars \/ (Engines' = {} /\ ~ Dirty')
<1>1. CASE UNCHANGED cardVars
  BY <1>1
<1>2. CASE UNCHANGED linked /\ (linked => dmaCtl' = COLD_RESET /\ Blank' /\ Zeroed')
  <2>1. Engines' = {}
    BY <1>2, CardEngines DEF Engines
  <2>2. ~ Dirty'
    BY <1>2 DEF Dirty, Blank, Zeroed
  <2> QED BY <2>1, <2>2
<1> QED BY <1>1, <1>2, CloseTypes

\* The engines that the words of the tool let run.
LEMMA WordEngines ==
  /\ EnginesOf(COLD_RESET) = {} /\ EnginesOf(RESET_GLOBAL) = {}
  /\ EnginesOf(GLOBAL_ONLY) = {} /\ EnginesOf(ALL_DSPS) = DSPS
  /\ \A d \in DSPS : /\ EnginesOf(EnableUpTo(d)) = 0 .. d
                     /\ EnginesOf(EnableUpTo(d - 1)) = 0 .. d - 1
                     /\ EnginesOf(Pulsed(d)) = DSPS \ {d}
                     /\ EnginesOf(Disabled(d)) = DSPS \ {d}
  /\ \A w : EnginesOf(w) \subseteq DSPS
<1>1. \A w : EnginesOf(w) \subseteq DSPS
  BY DEF EnginesOf
<1> QED BY <1>1, CardEngines DEF Pulsed, Disabled

\* Every step of the tool is a step of Experiment.
LEMMA ContractNext ==
  ASSUME IInv, [Next]_vars PROVE ContractStep
<1>t. /\ TypeOK /\ HeldInv /\ WordInv /\ HostWordInv /\ CardTypeOK /\ dsp \in DSPS
      /\ (pc \in TouchPCs \cup RestorePCs => started) /\ toWrite \in SUBSET DescSlots /\ toClear \in SUBSET RingIds
  BY DEF IInv, TypeOK, SessionTypeOK, HeldInv
<1> USE DEF loopVars, flagVars, sessionVars, toolVars, cardVars, Goto, TouchPCs, RestorePCs, InitLoop, ResetLoop
<1>1. ASSUME Begin PROVE ContractStep
  <2>1. Phase # "running" /\ Phase' = "running" /\ ~ started' /\ UNCHANGED <<cardVars, has>>
    BY <1>1 DEF Begin, Launch, Stopped, Phase
  <2> QED BY <2>1, AsBegin
<1>2. ASSUME Acquire("setup", SetupOrder, "baseline"), UNCHANGED toolVars PROVE ContractStep
  <2>1. /\ Phase = "running" /\ Phase' = "running" /\ ~ started /\ started' = started
        /\ UNCHANGED cardVars /\ has \subseteq has'
    BY <1>t, <1>2 DEF Acquire, Phase, HeldInv, BeforePCs
  <2>2. CASE ~ Mapped /\ Mapped'
    BY <2>1, <2>2, AsMap
  <2>3. CASE Mapped' <=> Mapped
    BY <2>1, <2>3, AsStutter DEF Engines, Dirty
  <2> QED BY <2>1, <2>2, <2>3 DEF Mapped
<1>3. ASSUME AcquireFails("setup", SetupOrder), UNCHANGED toolVars PROVE ContractStep
  <2>1. /\ Phase' = Phase /\ started' = started /\ UNCHANGED cardVars
    BY <1>3 DEF AcquireFails, Phase
  <2>2. Mapped' <=> Mapped
    BY <1>3 DEF AcquireFails, HalfAcquired, Mapped
  <2> QED BY <2>1, <2>2, AsStutter DEF Engines, Dirty
<1>4. ASSUME Baseline PROVE ContractStep
  <2>1. UNCHANGED <<dmaCtl, desc, idx, linked, has, started>> /\ Phase' = Phase
    BY <1>4 DEF Baseline, Check, Refuse, Phase
  <2> QED BY <2>1, ContractKeep
<1>5. ASSUME Quiesce, UNCHANGED toolVars PROVE ContractStep
  <2>1. /\ Phase = "running" /\ Phase' = "running" /\ started' /\ (Mapped' <=> Mapped)
        /\ UNCHANGED <<dmaCtl, linked>> /\ pc = "startup"
    BY <1>5 DEF Quiesce, DisableInterrupts, Phase, Mapped
  <2>2. Engines = {} /\ Engines' = {}
    BY <1>t, <2>1, CardEngines DEF WordInv, Engines
  <2>3. ~ Dirty
    BY <1>t, <2>1 DEF HostWordInv, Dirty, Blank, Zeroed
  <2> QED BY <2>1, <2>2, <2>3, AsFirst
<1>6. ASSUME ResetGlobal, UNCHANGED toolVars PROVE ContractStep
  <2>1. Phase = "running" /\ Phase' = "running" /\ started /\ started' /\ (Mapped' <=> Mapped)
    BY <1>t, <1>6 DEF ResetGlobal, Phase, Mapped
  <2>2. (Dirty' <=> Dirty) /\ Engines' = (IF linked THEN EnginesOf(RESET_GLOBAL) ELSE {})
    BY <1>t, <1>6, DirtyKeep DEF ResetGlobal
  <2>3. linked => dmaCtl = COLD_RESET
    BY <1>t, <1>6 DEF ResetGlobal, WordInv, InitLoop
  <2>4. Engines' = Engines
    BY <1>t, <2>2, <2>3, WordEngines DEF Engines
  <2> QED BY <2>1, <2>2, <2>4, AsMove
<1>7. ASSUME GlobalOnly, UNCHANGED toolVars PROVE ContractStep
  <2>1. Phase = "running" /\ Phase' = "running" /\ started /\ started' /\ (Mapped' <=> Mapped)
    BY <1>t, <1>7 DEF GlobalOnly, Phase, Mapped
  <2>2. (Dirty' <=> Dirty) /\ Engines' = (IF linked THEN EnginesOf(GLOBAL_ONLY) ELSE {})
    BY <1>t, <1>7, DirtyKeep DEF GlobalOnly
  <2>3. linked => dmaCtl = RESET_GLOBAL
    BY <1>t, <1>7 DEF GlobalOnly, WordInv, InitLoop
  <2>4. Engines' = Engines
    BY <1>t, <2>2, <2>3, WordEngines DEF Engines
  <2> QED BY <2>1, <2>2, <2>4, AsMove
<1>8. ASSUME BoundedIndex PROVE ContractStep
  <2>1. Phase = "running" /\ Phase' = "running" /\ started /\ started' /\ (Mapped' <=> Mapped)
    BY <1>t, <1>8 DEF BoundedIndex, RingIndex, Phase, Mapped
  <2>2. Engines' = Engines
    BY <1>8 DEF BoundedIndex, RingIndex, WriteIndexes, Engines
  <2> QED BY <2>1, <2>2, AsMove
<1>9. ASSUME RingDesc, UNCHANGED toolVars PROVE ContractStep
  <2>1. Phase = "running" /\ Phase' = "running" /\ started /\ started' /\ (Mapped' <=> Mapped)
    BY <1>t, <1>9 DEF RingDesc, Phase, Mapped
  <2>2. Engines' = Engines
    BY <1>9 DEF RingDesc, WriteDesc, Engines
  <2> QED BY <2>1, <2>2, AsMove
<1>10. ASSUME RingDone, UNCHANGED toolVars PROVE ContractStep
  <2>1. UNCHANGED <<dmaCtl, desc, idx, linked, has, started>> /\ Phase' = Phase
    BY <1>10 DEF RingDone, Phase
  <2> QED BY <2>1, ContractKeep
<1>11. ASSUME EnableDsp PROVE ContractStep
  <2>1. Phase = "running" /\ Phase' = "running" /\ started /\ started' /\ (Mapped' <=> Mapped)
    BY <1>t, <1>11 DEF EnableDsp, Enable, Phase, Mapped
  <2>2. (Dirty' <=> Dirty) /\ Engines' = (IF linked THEN EnginesOf(EnableUpTo(dsp)) ELSE {})
    BY <1>t, <1>11, DirtyKeep DEF EnableDsp, Enable
  <2>3. linked => dmaCtl = EnableUpTo(dsp - 1)
    BY <1>t, <1>11 DEF EnableDsp, Enable, WordInv, InitLoop
  <2>4. Engines \subseteq Engines'
    <3>1. Engines = (IF linked THEN 0 .. dsp - 1 ELSE {}) /\ Engines' = (IF linked THEN 0 .. dsp ELSE {})
      BY <1>t, <2>2, <2>3, WordEngines DEF Engines
    <3>2. dsp \in Int
      BY <1>t DEF DSPS
    <3> QED BY <3>1, <3>2
  <2>5. Mapped
    BY <1>t, <1>11 DEF EnableDsp, Enable, HeldInv, TouchPCs, InitLoop, ResetLoop, Held, Mapped
  <2> QED BY <2>1, <2>2, <2>4, <2>5, AsMove
<1>12. ASSUME Publication PROVE ContractStep
  <2>1. UNCHANGED <<dmaCtl, desc, idx, linked, has, started>> /\ Phase' = Phase
    BY <1>12 DEF Publication, Phase
  <2> QED BY <2>1, ContractKeep
<1>13. ASSUME ResetTest PROVE ContractStep
  <2>1. UNCHANGED <<dmaCtl, desc, idx, linked, has, started>> /\ Phase' = Phase
    BY <1>13 DEF ResetTest, Phase
  <2> QED BY <2>1, ContractKeep
<1>14. ASSUME ResetPulse PROVE ContractStep
  <2>1. Phase = "running" /\ Phase' = "running" /\ started /\ started' /\ (Mapped' <=> Mapped)
    BY <1>t, <1>14 DEF ResetPulse, Phase, Mapped
  <2>2. (Dirty' <=> Dirty) /\ Engines' = (IF linked THEN EnginesOf(Pulsed(dsp)) ELSE {})
    BY <1>t, <1>14, DirtyKeep DEF ResetPulse, Pulsed
  <2>3. linked => dmaCtl = ALL_DSPS
    BY <1>t, <1>14 DEF ResetPulse, WordInv, InitLoop
  <2>4. Engines' \subseteq Engines
    BY <1>t, <2>2, <2>3, WordEngines DEF Engines
  <2> QED BY <2>1, <2>2, <2>4, AsMove
<1>15. ASSUME ResetRelease PROVE ContractStep
  <2>1. Phase = "running" /\ Phase' = "running" /\ started /\ started' /\ (Mapped' <=> Mapped)
    BY <1>t, <1>15 DEF ResetRelease, Phase, Mapped
  <2>2. (Dirty' <=> Dirty) /\ Engines' = (IF linked THEN EnginesOf(Disabled(dsp)) ELSE {})
    BY <1>t, <1>15, DirtyKeep DEF ResetRelease
  <2>3. linked => dmaCtl = Pulsed(dsp)
    BY <1>t, <1>15 DEF ResetRelease, WordInv, InitLoop
  <2>4. Engines' \subseteq Engines
    BY <1>t, <2>2, <2>3, WordEngines DEF Engines
  <2> QED BY <2>1, <2>2, <2>4, AsMove
<1>16. ASSUME ResetCheck PROVE ContractStep
  <2>1. UNCHANGED <<dmaCtl, desc, idx, linked, has, started>> /\ Phase' = Phase
    BY <1>16 DEF ResetCheck, Phase
  <2> QED BY <2>1, ContractKeep
<1>17. ASSUME ResetEnable PROVE ContractStep
  <2>1. Phase = "running" /\ Phase' = "running" /\ started /\ started' /\ (Mapped' <=> Mapped)
    BY <1>t, <1>17 DEF ResetEnable, Phase, Mapped
  <2>2. (Dirty' <=> Dirty) /\ Engines' = (IF linked THEN EnginesOf(ALL_DSPS) ELSE {})
    BY <1>t, <1>17, DirtyKeep DEF ResetEnable
  <2>4. Engines \subseteq Engines'
    BY <1>t, <2>2, WordEngines DEF Engines
  <2>5. Mapped
    BY <1>t, <1>17 DEF ResetEnable, HeldInv, TouchPCs, InitLoop, ResetLoop, Held, Mapped
  <2> QED BY <2>1, <2>2, <2>4, <2>5, AsMove
<1>18. ASSUME ResetVerify PROVE ContractStep
  <2>1. UNCHANGED <<dmaCtl, desc, idx, linked, has, started>> /\ Phase' = Phase
    BY <1>18 DEF ResetVerify, Phase
  <2> QED BY <2>1, ContractKeep
<1>19. ASSUME Observe PROVE ContractStep
  <2>1. UNCHANGED <<dmaCtl, desc, idx, linked, has, started>> /\ Phase' = Phase
    BY <1>19 DEF Observe, Phase
  <2> QED BY <2>1, ContractKeep
<1>20. ASSUME Judge PROVE ContractStep
  <2>1. UNCHANGED <<dmaCtl, desc, idx, linked, has, started>> /\ Phase' = Phase
    BY <1>20 DEF Judge, Phase
  <2> QED BY <2>1, ContractKeep
<1>21. ASSUME CleanupEnter, UNCHANGED toolVars PROVE ContractStep
  <2>1. UNCHANGED <<dmaCtl, desc, idx, linked, has, started>> /\ Phase' = Phase
    BY <1>21 DEF CleanupEnter, Phase
  <2> QED BY <2>1, ContractKeep
<1>22. ASSUME CleanupInt, UNCHANGED toolVars PROVE ContractStep
  <2>1. Phase = "running" /\ Phase' = "running" /\ started /\ started' /\ (Mapped' <=> Mapped)
    BY <1>t, <1>22 DEF CleanupInt, DisableInterrupts, Phase, Mapped
  <2>2. Engines' = Engines
    BY <1>22 DEF CleanupInt, DisableInterrupts, Engines
  <2> QED BY <2>1, <2>2, AsMove
<1>23. ASSUME CleanupReset, UNCHANGED toolVars PROVE ContractStep
  <2>1. Phase = "running" /\ Phase' = "running" /\ started /\ started' /\ (Mapped' <=> Mapped)
    BY <1>t, <1>23 DEF CleanupReset, Phase, Mapped
  <2>2. (Dirty' <=> Dirty) /\ Engines' = (IF linked THEN EnginesOf(RESET_GLOBAL) ELSE {})
    BY <1>t, <1>23, DirtyKeep DEF CleanupReset
  <2>4. Engines' \subseteq Engines
    BY <1>t, <2>2, WordEngines DEF Engines
  <2> QED BY <2>1, <2>2, <2>4, AsMove
<1>24. ASSUME CleanupGlobal, UNCHANGED toolVars PROVE ContractStep
  <2>1. Phase = "running" /\ Phase' = "running" /\ started /\ started' /\ (Mapped' <=> Mapped)
    BY <1>t, <1>24 DEF CleanupGlobal, Phase, Mapped
  <2>2. (Dirty' <=> Dirty) /\ Engines' = (IF linked THEN EnginesOf(GLOBAL_ONLY) ELSE {})
    BY <1>t, <1>24, DirtyKeep DEF CleanupGlobal
  <2>4. Engines' \subseteq Engines
    BY <1>t, <2>2, WordEngines DEF Engines
  <2> QED BY <2>1, <2>2, <2>4, AsMove
<1>25. ASSUME CleanupClear, UNCHANGED toolVars PROVE ContractStep
  <2>1. Phase = "running" /\ Phase' = "running" /\ started /\ started' /\ (Mapped' <=> Mapped)
    BY <1>t, <1>25 DEF CleanupClear, Phase, Mapped
  <2>2. Engines' = Engines
    BY <1>25 DEF CleanupClear, ClearRing, Engines
  <2> QED BY <2>1, <2>2, AsMove
<1>26. ASSUME CleanupCold, UNCHANGED toolVars PROVE ContractStep
  <2>1. Phase = "running" /\ Phase' = "running" /\ started /\ started' /\ (Mapped' <=> Mapped)
    BY <1>t, <1>26 DEF CleanupCold, Phase, Mapped
  <2>2. (Dirty' <=> Dirty) /\ Engines' = (IF linked THEN EnginesOf(COLD_RESET) ELSE {})
    BY <1>t, <1>26, DirtyKeep DEF CleanupCold
  <2>4. Engines' \subseteq Engines
    BY <1>t, <2>2, WordEngines DEF Engines
  <2> QED BY <2>1, <2>2, <2>4, AsMove
<1>27. ASSUME CleanupRestored, UNCHANGED toolVars PROVE ContractStep
  <2>1. UNCHANGED <<dmaCtl, desc, idx, linked, has, started>> /\ Phase' = Phase
    BY <1>27 DEF CleanupRestored, Phase
  <2> QED BY <2>1, ContractKeep
<1>28. ASSUME VfioReset("release"), UNCHANGED toolVars PROVE ContractStep
  <2>1. Phase' = Phase /\ started' = started /\ (Mapped' <=> Mapped)
    BY <1>28 DEF VfioReset, Phase, Mapped
  <2>2. UNCHANGED cardVars \/ KernelCloses
    BY <1>28 DEF VfioReset
  <2>3. CASE UNCHANGED cardVars
    BY <2>1, <2>3, AsStutter DEF Engines, Dirty
  <2>4. CASE Engines' = {} /\ ~ Dirty'
    BY <2>1, <2>4, AsClear
  <2> QED BY <1>t, <2>2, <2>3, <2>4, ClearedCard
<1>29. ASSUME VfioRecovered("release"), UNCHANGED toolVars PROVE ContractStep
  <2>1. UNCHANGED <<dmaCtl, desc, idx, linked, has, started>> /\ Phase' = Phase
    BY <1>29 DEF VfioRecovered, Phase
  <2> QED BY <2>1, ContractKeep
<1>30. ASSUME Release("release", ReleaseOrder, "exit"), UNCHANGED toolVars PROVE ContractStep
  <2>1. Phase = "running" /\ started' = started /\ pc = "release" /\ n \in 1 .. 7
    BY <1>t, <1>30 DEF Release, Phase, HeldInv
  <2>2. UNCHANGED cardVars \/ (Engines' = {} /\ ~ Dirty')
    BY <1>t, <1>30, ClearedCard DEF Release
  <2>3. started => Engines = {} /\ ~ Dirty
    <3>1. started /\ linked => dmaCtl = COLD_RESET /\ Blank /\ Zeroed
      BY <1>t, <2>1 DEF WordInv, HostWordInv, OverPCs
    <3>2. started => Engines = {}
      BY <3>1, CardEngines DEF Engines
    <3>3. started => ~ Dirty
      BY <3>1 DEF Dirty, Blank, Zeroed
    <3> QED BY <3>2, <3>3
  <2>4. CASE n = 7
    <3>1. Phase' = "rest" /\ ~ Mapped'
      BY <1>30, <2>4, Orders DEF Release, Phase, Mapped
    <3> QED BY <2>1, <2>2, <2>3, <3>1, AsGone
  <2>5. CASE n = 3
    <3>1. Phase' = "running" /\ UNCHANGED cardVars
      BY <1>30, <2>1, <2>5, Orders DEF Release, Phase
    <3>2. CASE ~ Mapped'
      BY <2>1, <2>3, <3>1, <3>2, AsUnmap
    <3>3. CASE Mapped'
      <4>1. Mapped' <=> Mapped
        BY <1>30, <3>3 DEF Release, Mapped
      <4> QED BY <2>1, <3>1, <4>1, AsStutter DEF Engines, Dirty
    <3> QED BY <3>2, <3>3
  <2>6. CASE n \notin {3, 7}
    <3>1. Phase' = "running"
      BY <1>30, <2>1, <2>6, Orders DEF Release, Phase
    <3>2. Mapped' <=> Mapped
      BY <1>30, <2>1, <2>6, Orders DEF Release, Mapped
    <3>3. CASE UNCHANGED cardVars
      BY <2>1, <3>1, <3>2, <3>3, AsStutter DEF Engines, Dirty
    <3>4. CASE Engines' = {} /\ ~ Dirty'
      BY <2>1, <3>1, <3>2, <3>4, AsClear
    <3> QED BY <2>2, <3>3, <3>4
  <2> QED BY <2>4, <2>5, <2>6
<1>31. ASSUME Signal, UNCHANGED toolVars PROVE ContractStep
  <2>1. UNCHANGED <<dmaCtl, desc, idx, linked, has, started>> /\ Phase' = Phase
    BY <1>31 DEF Signal, Phase
  <2> QED BY <2>1, ContractKeep
<1>32. ASSUME Kill, UNCHANGED toolVars PROVE ContractStep
  <2>1. Phase = "running" /\ Phase' = "killed" /\ started' = started /\ ~ Mapped'
    BY <1>32 DEF Kill, Stopped, Phase, Mapped
  <2>2. UNCHANGED cardVars \/ (Engines' = {} /\ ~ Dirty')
    BY <1>t, <1>32, ClearedCard DEF Kill
  <2> QED BY <2>1, <2>2, AsGone
<1>33. ASSUME CardStep, UNCHANGED <<sessionVars, toolVars>> PROVE ContractStep
  <2>1. Phase' = Phase /\ started' = started /\ (Mapped' <=> Mapped)
    BY <1>33 DEF Phase, Mapped
  <2>2. CASE LinkLoss
    <3>1. Engines' = {} /\ ~ Dirty'
      BY <2>2 DEF LinkLoss, Engines, Dirty
    <3> QED BY <2>1, <3>1, AsClear
  <2>3. CASE \E d \in DSPS : ReadyFlip(d)
    <3>1. UNCHANGED <<dmaCtl, desc, idx, linked>>
      BY <2>3 DEF ReadyFlip
    <3> QED BY <2>1, <3>1, AsStutter DEF Engines, Dirty
  <2> QED BY <1>33, <2>2, <2>3 DEF CardStep
<1>34. ASSUME PageWrite PROVE ContractStep
  <2>1. UNCHANGED <<dmaCtl, desc, idx, linked, has, started>> /\ Phase' = Phase
    BY <1>34 DEF PageWrite, Phase
  <2> QED BY <2>1, ContractKeep
<1>35. ASSUME UNCHANGED vars PROVE ContractStep
  <2>1. UNCHANGED <<dmaCtl, desc, idx, linked, has, started>> /\ Phase' = Phase
    BY <1>35 DEF vars, cardVars, Phase
  <2> QED BY <2>1, ContractKeep
<1> QED
  BY <1>1, <1>2, <1>3, <1>4, <1>5, <1>6, <1>7, <1>8, <1>9, <1>10, <1>11, <1>12, <1>13, <1>14,
     <1>15, <1>16, <1>17, <1>18, <1>19, <1>20, <1>21, <1>22, <1>23, <1>24, <1>25, <1>26,
     <1>27, <1>28, <1>29, <1>30, <1>31, <1>32, <1>33, <1>34, <1>35
     DEF Next, Main, Environment, Setup, Quiet, Publish, Cleanup, DeviceReset, ReleaseAll

\* The tool implements the abstract experiment: its first write finds a clear
\* card, engines run over mapped pages only, no page is unmapped under a
\* running engine, and it exits over a clear card unless it never wrote.
THEOREM ExperimentRefined == Spec => ImplementsExperiment
<1>1. ASSUME Init PROVE Contract!Init
  <2>1. pc = "idle" /\ ~ started /\ has = {} /\ dmaCtl.enable = {} /\ Blank /\ Zeroed
    BY <1>1 DEF Init, SessionInit, CardInit, COLD_RESET, GLOBAL_ONLY, Blank, Zeroed
  <2>2. {d \in DSPS : EngineLive(d)} = {}
    BY <2>1 DEF EngineLive
  <2> QED BY <2>1, <2>2 DEF Contract!Init, Blank, Zeroed
<1>2. IInv /\ [Next]_vars => [Contract!Next]_(Contract!vars)
  BY ContractNext DEF ContractStep
<1> QED BY <1>1, <1>2, Inductive, PTL DEF Spec, ImplementsExperiment, Contract!Spec

=============================================================================
