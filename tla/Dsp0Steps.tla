----------------------------- MODULE Dsp0Steps -----------------------------
(***************************************************************************)
(* What the VFIO tools for DSP 0 alone share: they publish the page        *)
(* addresses of its two rings word by word, move the DMA control register  *)
(* with a readback after every write, and undo on the way out only what a  *)
(* flag says they have done, the DMA control first.                        *)
(***************************************************************************)
EXTENDS VfioSession

VARIABLE modified   \* the set flags among dma_modified ("dma"), "descriptors",
                    \* "controls" and "gates"

\* Four pages of the command ring and one of the response ring.
FiveDescriptors == {s \in DescSlots : s[1] = 0 /\ (s[2] = 0 \/ s[3] = 0)}

GLOBAL_DSP0 == [global |-> TRUE, enable |-> {0}, reset |-> {}]

\* The order of write_page_address and write_descriptor.
FirstWord(s, S) ==
  \A t \in S : \/ s[2] < t[2]
               \/ s[2] = t[2] /\ s[3] < t[3]
               \/ s[2] = t[2] /\ s[3] = t[3] /\ s[4] <= t[4]

PublishWord ==
  /\ pc = "publish"
  /\ \E s \in toWrite : /\ FirstWord(s, toWrite)
                        /\ WriteDesc(s, run)
                        /\ toWrite' = toWrite \ {s}
  /\ started' = TRUE
  /\ UNCHANGED <<run, pc, n, dsp, ring, toClear, has, interrupted, success,
                 modified>>

Published(next) ==
  /\ pc = "publish" /\ toWrite = {}
  /\ modified' = modified \cup {"descriptors"}
  /\ Goto(next)
  /\ UNCHANGED <<cardVars, run, n, loopVars, has, flagVars>>

\* Mutant: dma_modified is set when the engine is enabled.
WriteControl_FlagLate(from, v, next) ==
  /\ pc = from
  /\ WriteDma(v)
  /\ modified' = IF v = GLOBAL_DSP0 THEN modified \cup {"dma"} ELSE modified
  /\ Goto(next)
  /\ UNCHANGED <<run, n, loopVars, has, flagVars>>

WriteControl(from, v, next) ==
  /\ pc = from
  /\ WriteDma(v)
  /\ modified' = modified \cup {"dma"}
  /\ Goto(next)
  /\ UNCHANGED <<run, n, loopVars, has, flagVars>>

\* The readback may also differ on a card that answers.
CheckControl(from, v, next) ==
  (Check(from, ReadDma = v, next) \/ Refuse(from)) /\ UNCHANGED modified

EnableDsp0(next) ==
  \/ WriteControl("resetGlobal", RESET_GLOBAL, "resetRead")
  \/ CheckControl("resetRead", RESET_GLOBAL, "globalOnly")
  \/ WriteControl("globalOnly", GLOBAL_ONLY, "globalRead")
  \/ CheckControl("globalRead", GLOBAL_ONLY, "enable")
  \/ WriteControl("enable", GLOBAL_DSP0, "enableRead")
  \/ CheckControl("enableRead", GLOBAL_DSP0, next)

----------------------------------------------------------------------------
(* The cleanup label.                                                      *)

RestoreControl(next) ==
  \/ /\ pc = "cleanup"
     /\ IF "dma" \in modified THEN WriteDma(COLD_RESET) /\ Goto("cCold")
                              ELSE UNCHANGED cardVars /\ Goto(next)
     /\ UNCHANGED <<run, n, loopVars, has, flagVars, modified>>
  \/ /\ pc = "cCold"
     /\ success' = (success /\ ReadDma = COLD_RESET)
     /\ Goto(next)
     /\ UNCHANGED <<cardVars, run, n, loopVars, has, interrupted, started,
                    modified>>

\* Index words of the given rings, then the descriptors.
ClearEnter(from, rings, slots) ==
  /\ pc = from
  /\ toClear' = IF "controls" \in modified THEN rings ELSE {}
  /\ toWrite' = IF "descriptors" \in modified THEN slots ELSE {}
  /\ Goto("cClear")
  /\ UNCHANGED <<cardVars, run, n, dsp, ring, has, flagVars, modified>>

ClearControl ==
  /\ pc = "cClear"
  /\ \E x \in toClear : /\ FirstRing(x, toClear)
                        /\ WriteIndexes(x, 0)
                        /\ toClear' = toClear \ {x}
  /\ UNCHANGED <<run, pc, n, dsp, ring, toWrite, has, flagVars, modified>>

ClearDescriptor ==
  /\ pc = "cClear" /\ toClear = {}
  /\ \E s \in toWrite : /\ FirstWord(s, toWrite)
                        /\ WriteDesc(s, 0)
                        /\ toWrite' = toWrite \ {s}
  /\ UNCHANGED <<run, pc, n, dsp, ring, toClear, has, flagVars, modified>>

\* descriptors_restored, restore_ok
ClearDone(slots, next) ==
  /\ pc = "cClear" /\ toClear = {} /\ toWrite = {}
  /\ success' = (success /\ ("descriptors" \in modified =>
                               linked /\ \A s \in slots : desc[s] = 0))
  /\ Goto(next)
  /\ UNCHANGED <<cardVars, run, n, loopVars, has, interrupted, started,
                 modified>>

ClearWords(slots, next) ==
  ClearControl \/ ClearDescriptor \/ ClearDone(slots, next)
=============================================================================
