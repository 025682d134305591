-------------------------- MODULE RingDescriptors --------------------------
(***************************************************************************)
(* tools/vfio_ring_descriptors.c, experiments 001, 002, 007 and 008:       *)
(* publish five empty pages for DSP 0, then, each on top of the one before *)
(* it, leave the DMA engine alone, enable it, write zero indexes to it, or *)
(* offer one zero entry.                                                   *)
(***************************************************************************)
EXTENDS Dsp0Steps

VARIABLES
  mode,      \* experiment002, experiment007, experiment008 or none of them
  changed    \* a page no longer holds what the tool wrote

toolVars == <<modified, mode, changed>>
vars == <<cardVars, sessionVars, toolVars>>

Modes == {"001", "002", "007", "008"}
Cmd0  == <<0, 0>>

SetupOrder ==
  <<"container", "group", "set", "memory", "dma", "device", "bar">>
ReleaseOrder ==
  <<"bar", "device", "dma", "memory", "set", "group", "container">>

Init ==
  /\ CardInit /\ SessionInit
  /\ modified = {} /\ mode = "001" /\ changed = FALSE

----------------------------------------------------------------------------
\* A usage error returns at once; a wrong page size goes to the cleanup label.
Begin ==
  /\ Launch
  /\ pc' \in {"setup", "cleanup", "exit"}
  /\ mode' \in Modes /\ modified' = {} /\ changed' = FALSE

Setup ==
  /\ Acquire("setup", SetupOrder, "baseline") \/ AcquireFails("setup", SetupOrder)
  /\ UNCHANGED toolVars

\* Experiment 001 does not look at the DMA control register.
Precondition ==
  /\ AllRingWordsZero /\ AllDspsReady
  /\ mode # "001" => ReadDma = COLD_RESET

\* Mutant: experiment 001 starts on any ready card.
Baseline_ReadyOnly ==
  /\ pc = "baseline"
  /\ IF AllDspsReady /\ linked THEN Goto("publish") /\ toWrite' = FiveDescriptors
                               ELSE Goto("cleanup") /\ UNCHANGED toWrite
  /\ UNCHANGED <<cardVars, run, n, dsp, ring, toClear, has, flagVars, toolVars>>

Baseline ==
  /\ pc = "baseline"
  /\ IF Precondition THEN Goto("publish") /\ toWrite' = FiveDescriptors
                     ELSE Goto("cleanup") /\ UNCHANGED toWrite
  /\ UNCHANGED <<cardVars, run, n, dsp, ring, toClear, has, flagVars, toolVars>>

Publish ==
  (PublishWord \/ Published("readback")) /\ UNCHANGED <<mode, changed>>

\* published_ring_state_matches, and triggered_ring_state_matches, which does
\* not look at the index words of the command ring.
RingState(ignored) ==
  /\ linked
  /\ \A s \in DescSlots : (desc[s] # 0) <=> s \in FiveDescriptors
  /\ \A x \in RingIds \ ignored : idx[x] = [bell |-> 0, write |-> 0, read |-> 0]

Readback ==
  /\ \/ Check("readback", RingState({}),
              IF mode = "001" THEN "observe" ELSE "resetGlobal")
     \/ Refuse("readback")
  /\ UNCHANGED toolVars

EnableEngine ==
  EnableDsp0(CASE mode = "002" -> "observe"
               [] mode = "007" -> "zeroControls"
               [] OTHER -> "oneEntry")
  /\ UNCHANGED <<mode, changed>>

\* Experiment 007 writes zeros over zeros and reads them back.
ZeroControls ==
  \/ /\ pc = "zeroControls"
     /\ WriteIndexes(Cmd0, 0)
     /\ Goto("zeroRead")
     /\ UNCHANGED <<run, n, loopVars, has, flagVars, toolVars>>
  \/ /\ Check("zeroRead", linked, "observe") \/ Refuse("zeroRead")
     /\ UNCHANGED toolVars

\* Experiment 008 offers one entry and only records the readbacks.
OneEntry ==
  /\ pc = "oneEntry"
  /\ WriteIndexes(Cmd0, 1)
  /\ modified' = modified \cup {"controls"}
  /\ Goto("observe")
  /\ UNCHANGED <<run, n, loopVars, has, flagVars, mode, changed>>

Observe ==
  /\ pc = "observe"
  /\ success' = (/\ ~ interrupted /\ AllDspsReady /\ ~ changed
                 /\ RingState(IF mode = "008" THEN {Cmd0} ELSE {}))
  /\ Goto("cleanup")
  /\ UNCHANGED <<cardVars, run, n, loopVars, has, interrupted, started, toolVars>>

Cleanup ==
  /\ \/ RestoreControl("cControls")
     \/ ClearEnter("cControls", {Cmd0}, FiveDescriptors)
     \/ ClearWords(FiveDescriptors,
                   IF mode = "008" THEN "cVfioReset" ELSE "release")
  /\ UNCHANGED <<mode, changed>>

DeviceReset ==
  /\ VfioReset("release") \/ VfioRecovered("release")
  /\ UNCHANGED toolVars

ReleaseAll ==
  Release("release", ReleaseOrder, "exit") /\ UNCHANGED toolVars

----------------------------------------------------------------------------
\* The card consumes the zero entry, or writes where it should not.
Consume ==
  /\ EngineLive(0) /\ "dma" \in has
  /\ idx[Cmd0].read # idx[Cmd0].bell
  /\ idx' = [idx EXCEPT ![Cmd0].read = (@ + 1) % Entries]
  /\ UNCHANGED <<dmaCtl, desc, ready, intEn, linked, sessionVars, toolVars>>

PageWrite ==
  /\ linked /\ started /\ "dma" \in has /\ ~ changed
  /\ changed' = TRUE
  /\ UNCHANGED <<cardVars, sessionVars, modified, mode>>

Environment ==
  \/ (Signal \/ Kill) /\ UNCHANGED toolVars
  \/ CardStep /\ UNCHANGED <<sessionVars, toolVars>>
  \/ Consume \/ PageWrite

Main ==
  \/ Setup \/ Baseline \/ Publish \/ Readback \/ EnableEngine \/ ZeroControls
  \/ OneEntry \/ Observe \/ Cleanup \/ DeviceReset \/ ReleaseAll

Next == Begin \/ Main \/ Environment

Spec == Init /\ [][Next]_vars

----------------------------------------------------------------------------
\* Experiment 001 publishes addresses to a card none of whose engines runs,
\* although it does not read the control register: an engine that a killed run
\* left on also left ring words that the baseline refuses.
NoEngineIn001 ==
  mode = "001" /\ started /\ pc \notin Stopped =>
    \A d \in DSPS : ~ EngineLive(d)
=============================================================================
