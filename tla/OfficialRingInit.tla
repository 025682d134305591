-------------------------- MODULE OfficialRingInit --------------------------
(***************************************************************************)
(* tools/vfio_official_ring_init.c, experiment 011: initialise both rings  *)
(* of DSP 0 in the order of the vendor's driver while the card stays cold, *)
(* look at everything else, and clear them again.                          *)
(***************************************************************************)
EXTENDS VfioSession

VARIABLES
  indexes,   \* command_index and response_index
  changed    \* a canary page has changed

toolVars == <<indexes, changed>>
vars == <<cardVars, sessionVars, toolVars>>

SetupOrder ==
  <<"container", "group", "set", "memory", "dma", "device", "bar">>
ReleaseOrder ==
  <<"bar", "device", "dma", "memory", "set", "group", "container">>

Dsp0Words == {s \in DescSlots : s[1] = 0}

Init ==
  /\ CardInit /\ SessionInit
  /\ indexes = [r \in RINGS |-> 0] /\ changed = FALSE

----------------------------------------------------------------------------
\* A usage error returns at once; a wrong page size goes to the cleanup label.
Begin ==
  /\ Launch
  /\ pc' \in {"setup", "cleanup", "exit"}
  /\ indexes' = [r \in RINGS |-> 0] /\ changed' = FALSE

Setup ==
  /\ Acquire("setup", SetupOrder, "baseline") \/ AcquireFails("setup", SetupOrder)
  /\ UNCHANGED toolVars

Baseline ==
  /\ Check("baseline", AllRingWordsZero /\ AllDspsReady /\ ReadDma = COLD_RESET,
           "indexes")
  /\ UNCHANGED toolVars

\* bounded_hardware_index of both rings
ReadIndexes ==
  /\ pc = "indexes"
  /\ indexes' = [r \in RINGS |-> IF ReadIndex(<<0, r>>) < Entries
                                 THEN ReadIndex(<<0, r>>) ELSE 0]
  /\ started' = TRUE /\ toWrite' = Dsp0Words
  /\ Goto("ringIndex")
  /\ UNCHANGED <<cardVars, run, n, dsp, ring, toClear, has, interrupted,
                 success, changed>>

InitializeRings ==
  /\ RingIndex(indexes[ring]) \/ RingDesc \/ RingDone
  /\ UNCHANGED toolVars

\* ring_matches and only_dsp0_rings_published; the hardware index of DSP 0 is
\* not compared.
OnlyDsp0RingsPublished ==
  /\ linked
  /\ \A s \in DescSlots : (desc[s] # 0) <=> s \in Dsp0Words
  /\ \A x \in RingIds :
       IF x[1] = 0 THEN idx[x].bell = indexes[x[2]] /\ idx[x].write = indexes[x[2]]
                   ELSE idx[x] = [bell |-> 0, write |-> 0, read |-> 0]

Publication ==
  /\ Check("enable", OnlyDsp0RingsPublished, "observe") \/ Refuse("enable")
  /\ UNCHANGED toolVars

\* After the wait
Observe ==
  /\ pc = "observe"
  /\ success' = (/\ ~ interrupted /\ ~ changed /\ AllDspsReady
                 /\ ReadDma = COLD_RESET /\ OnlyDsp0RingsPublished)
  /\ Goto("cleanup")
  /\ UNCHANGED <<cardVars, run, n, loopVars, has, interrupted, started, toolVars>>

\* clear_dsp0_rings: the pages of both rings in turn, then the index words.
CleanupBegin ==
  /\ pc = "cleanup"
  /\ IF started THEN Goto("cClear") /\ toWrite' = Dsp0Words
                                    /\ toClear' = {x \in RingIds : x[1] = 0}
                ELSE Goto("cVfioReset") /\ UNCHANGED <<toWrite, toClear>>
  /\ UNCHANGED <<cardVars, run, n, dsp, ring, has, flagVars, toolVars>>

NextWord(s) ==
  \A t \in toWrite : \/ s[3] < t[3]
                     \/ s[3] = t[3] /\ s[2] < t[2]
                     \/ s[3] = t[3] /\ s[2] = t[2] /\ s[4] <= t[4]

ClearDescriptor ==
  /\ pc = "cClear"
  /\ \E s \in toWrite : /\ NextWord(s)
                        /\ WriteDesc(s, 0)
                        /\ toWrite' = toWrite \ {s}
  /\ UNCHANGED <<run, pc, n, dsp, ring, toClear, has, flagVars, toolVars>>

ClearIndexes ==
  /\ pc = "cClear" /\ toWrite = {}
  /\ \E x \in toClear : /\ FirstRing(x, toClear)
                        /\ WriteIndexes(x, 0)
                        /\ toClear' = toClear \ {x}
  /\ UNCHANGED <<run, pc, n, dsp, ring, toWrite, has, flagVars, toolVars>>

Restored ==
  /\ pc = "cClear" /\ toWrite = {} /\ toClear = {}
  /\ success' = (success /\ AllRingWordsZero)
  /\ Goto("cVfioReset")
  /\ UNCHANGED <<cardVars, run, n, loopVars, has, interrupted, started, toolVars>>

Cleanup == CleanupBegin \/ ClearDescriptor \/ ClearIndexes \/ Restored

DeviceReset ==
  /\ VfioReset("release") \/ VfioRecovered("release")
  /\ UNCHANGED toolVars

ReleaseAll ==
  Release("release", ReleaseOrder, "exit") /\ UNCHANGED toolVars

----------------------------------------------------------------------------
\* The card writes to a page although no engine is enabled.
PageWrite ==
  /\ linked /\ started /\ "dma" \in has /\ ~ changed
  /\ changed' = TRUE
  /\ UNCHANGED <<cardVars, sessionVars, indexes>>

Environment ==
  \/ (Signal \/ Kill) /\ UNCHANGED toolVars
  \/ CardStep /\ UNCHANGED <<sessionVars, toolVars>>
  \/ PageWrite

Main ==
  \/ Setup \/ Baseline \/ ReadIndexes \/ InitializeRings \/ Publication
  \/ Observe \/ Cleanup \/ DeviceReset \/ ReleaseAll

Next == Begin \/ Main \/ Environment

Spec == Init /\ [][Next]_vars
=============================================================================
