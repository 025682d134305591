---------------------------- MODULE VfioSession ----------------------------
(***************************************************************************)
(* What the full-card VFIO tools of tools/ share: one process that opens   *)
(* VFIO, maps its pages at TEST_IOVA, checks the cold baseline, starts the *)
(* sixteen rings, and on every way out runs the same cleanup label.        *)
(*                                                                         *)
(* The tools repeat this code word for word; it is written here once and   *)
(* each tool's module says which of its lines a step stands for.  Tools    *)
(* run one after the other.  Every run publishes the same addresses, so    *)
(* the run number kept in a descriptor word is a label for the properties: *)
(* no guard below tells one run's words from another's.                    *)
(***************************************************************************)
EXTENDS UadCard, Sequences

VARIABLES
  run,          \* number of processes started so far
  pc,           \* where main() is
  n,            \* position in the setup order or the release order
  dsp, ring,    \* loop variables of the startup and reset loops
  toWrite,      \* descriptor words not yet published
  toClear,      \* rings not yet cleared
  has,          \* what the process holds
  interrupted,  \* set by handle_signal, never cleared
  started,      \* startup_begun: the first register write is made
  success       \* result == EXIT_SUCCESS

sessionVars == <<run, pc, n, dsp, ring, toWrite, toClear, has, interrupted,
                 started, success>>
loopVars    == <<dsp, ring, toWrite, toClear>>
flagVars    == <<interrupted, started, success>>

Resources ==
  {"file", "container", "group", "set", "memory", "dma", "device", "bar"}

\* A failing stage can leave these behind: the descriptor or mapping exists
\* when a later test of the same stage fails.
HalfAcquired == {"file", "container", "group", "set", "memory", "device"}

Stopped == {"idle", "exit", "killed"}

Goto(p) == pc' = p

\* Words of one ring, in the order the loop writes them.
RingSlots(d, r) == {s \in DescSlots : s[1] = d /\ s[2] = r}
FirstSlot(s, S) ==
  \A t \in S : s[3] < t[3] \/ (s[3] = t[3] /\ s[4] <= t[4])
FirstRing(x, S) ==
  \A y \in S : x[1] < y[1] \/ (x[1] = y[1] /\ x[2] <= y[2])

\* VFIO function reset, when it takes effect.
FunctionReset ==
  /\ IF linked
     THEN /\ dmaCtl' = COLD_RESET
          /\ desc' = [s \in DescSlots |-> 0]
          /\ idx' = [x \in RingIds |-> [bell |-> 0, write |-> 0, read |-> 0]]
          /\ intEn' = FALSE
     ELSE UNCHANGED <<dmaCtl, desc, idx, intEn>>
  /\ UNCHANGED <<ready, linked>>

\* The kernel closes the device: it tries a function reset, which may fail.
KernelCloses == FunctionReset \/ UNCHANGED cardVars

SessionInit ==
  /\ run = 0 /\ pc = "idle" /\ n = 1
  /\ dsp = 0 /\ ring = 0 /\ toWrite = {} /\ toClear = {}
  /\ has = {}
  /\ interrupted = FALSE /\ started = FALSE /\ success = FALSE

----------------------------------------------------------------------------
(* Start of a process, and the ways it can be disturbed.                   *)

Launch ==
  /\ pc \in Stopped /\ run < MaxGen
  /\ run' = run + 1
  /\ n' = 1 /\ dsp' = 0 /\ ring' = 0 /\ toWrite' = {} /\ toClear' = {}
  /\ interrupted' = FALSE /\ started' = FALSE /\ success' = FALSE
  /\ UNCHANGED <<cardVars, has>>

\* handle_signal
Signal ==
  /\ pc \notin Stopped /\ ~ interrupted
  /\ interrupted' = TRUE
  /\ UNCHANGED <<cardVars, run, pc, n, loopVars, has, started, success>>

\* SIGKILL or a crash: the kernel takes everything back.
Kill ==
  /\ pc \notin Stopped
  /\ Goto("killed") /\ has' = {}
  /\ IF "device" \in has THEN KernelCloses ELSE UNCHANGED cardVars
  /\ UNCHANGED <<run, n, loopVars, flagVars>>

----------------------------------------------------------------------------
(* Setup.  order is the order in which the tool acquires its resources,    *)
(* some of them in a stage of their own.                                   *)

Acquire(from, order, next) ==
  /\ pc = from
  /\ has' = has \cup {order[n]}
  /\ IF n = Len(order) THEN Goto(next) /\ n' = 1
                       ELSE n' = n + 1 /\ UNCHANGED pc
  /\ UNCHANGED <<cardVars, run, loopVars, flagVars>>

AcquireFails(from, order) ==
  /\ pc = from
  /\ \E kept \in SUBSET ({order[n]} \cap HalfAcquired) : has' = has \cup kept
  /\ Goto("cleanup") /\ n' = 1
  /\ UNCHANGED <<cardVars, run, loopVars, flagVars>>

\* The baseline test that every tool makes before its first write.
ColdBaseline ==
  AllRingWordsZero /\ AllDspsReady /\ ReadDma = COLD_RESET /\ linked /\ ~ intEn

\* The test passes and the tool goes on, or it goes to the cleanup label.
Check(from, ok, next) ==
  /\ pc = from
  /\ Goto(IF ok THEN next ELSE "cleanup")
  /\ UNCHANGED <<cardVars, run, n, loopVars, has, flagVars>>

\* The test fails for what the model does not tell apart: another revision of
\* the card, or a register that does not read back as it was written.
Refuse(from) ==
  /\ pc = from
  /\ Goto("cleanup")
  /\ UNCHANGED <<cardVars, run, n, loopVars, has, flagVars>>

----------------------------------------------------------------------------
(* The startup register sequence.                                          *)

Quiesce ==
  /\ pc = "startup"
  /\ started' = TRUE
  /\ DisableInterrupts
  /\ Goto("resetGlobal")
  /\ UNCHANGED <<run, n, loopVars, has, interrupted, success>>

ResetGlobal ==
  /\ pc = "resetGlobal"
  /\ WriteDma(RESET_GLOBAL)
  /\ Goto("globalOnly")
  /\ UNCHANGED <<run, n, loopVars, has, flagVars>>

GlobalOnly ==
  /\ pc = "globalOnly"
  /\ WriteDma(GLOBAL_ONLY)
  /\ Goto("ringIndex")
  /\ dsp' = 0 /\ ring' = 0 /\ toWrite' = DescSlots
  /\ UNCHANGED <<run, n, toClear, has, flagVars>>

\* initialize_ring: both index words, then the page addresses.
RingIndex(index) ==
  /\ pc = "ringIndex"
  /\ WriteIndexes(<<dsp, ring>>, index)
  /\ Goto("ringDesc")
  /\ UNCHANGED <<run, n, loopVars, has, flagVars>>

RingDesc ==
  /\ pc = "ringDesc"
  /\ \E s \in toWrite \cap RingSlots(dsp, ring) :
       /\ FirstSlot(s, toWrite \cap RingSlots(dsp, ring))
       /\ WriteDesc(s, run)
       /\ toWrite' = toWrite \ {s}
  /\ UNCHANGED <<run, pc, n, dsp, ring, toClear, has, flagVars>>

RingDone ==
  /\ pc = "ringDesc"
  /\ toWrite \cap RingSlots(dsp, ring) = {}
  /\ ring' = 1 - ring
  /\ Goto(IF ring = 0 THEN "ringIndex" ELSE "enable")
  /\ UNCHANGED <<cardVars, run, n, dsp, toWrite, toClear, has, flagVars>>

Enable(next) ==
  /\ pc = "enable"
  /\ WriteDma(EnableUpTo(dsp))
  /\ IF dsp = NDsp - 1 THEN Goto(next) /\ dsp' = 0
                       ELSE Goto("ringIndex") /\ dsp' = dsp + 1
  /\ UNCHANGED <<run, n, ring, toWrite, toClear, has, flagVars>>

\* A command or response is offered: both index words, then the interrupt
\* shadow with the bit of the ring.
Doorbell(x, position) ==
  /\ idx' = IF linked THEN [idx EXCEPT ![x].bell = position,
                                       ![x].write = position] ELSE idx
  /\ intEn' = (linked \/ intEn)
  /\ UNCHANGED <<dmaCtl, desc, ready, linked>>

----------------------------------------------------------------------------
(* The cleanup label: the inverse register sequence when the startup had   *)
(* begun, a VFIO reset when BAR0 is mapped, then the release.              *)

CleanupEnter ==
  /\ pc = "cleanup"
  /\ Goto(IF started /\ "bar" \in has THEN "cInt" ELSE "cVfioReset")
  /\ UNCHANGED <<cardVars, run, n, loopVars, has, flagVars>>

CleanupInt ==
  /\ pc = "cInt"
  /\ DisableInterrupts
  /\ Goto("cReset")
  /\ UNCHANGED <<run, n, loopVars, has, flagVars>>

CleanupReset ==
  /\ pc = "cReset"
  /\ WriteDma(RESET_GLOBAL)
  /\ Goto("cGlobal")
  /\ UNCHANGED <<run, n, loopVars, has, flagVars>>

CleanupGlobal ==
  /\ pc = "cGlobal"
  /\ WriteDma(GLOBAL_ONLY)
  /\ toClear' = RingIds
  /\ Goto("cClear")
  /\ UNCHANGED <<run, n, dsp, ring, toWrite, has, flagVars>>

CleanupClear ==
  /\ pc = "cClear"
  /\ \E x \in toClear :
       /\ FirstRing(x, toClear)
       /\ ClearRing(x)
       /\ toClear' = toClear \ {x}
       /\ Goto(IF toClear = {x} THEN "cCold" ELSE "cClear")
  /\ UNCHANGED <<run, n, dsp, ring, toWrite, has, flagVars>>

CleanupCold ==
  /\ pc = "cCold"
  /\ WriteDma(COLD_RESET)
  /\ Goto("cRestored")
  /\ UNCHANGED <<run, n, loopVars, has, flagVars>>

\* restored
CleanupRestored ==
  /\ pc = "cRestored"
  /\ success' = (success /\ AllRingWordsZero /\ ReadDma = COLD_RESET)
  /\ Goto("cVfioReset")
  /\ UNCHANGED <<cardVars, run, n, loopVars, has, interrupted, started>>

\* VFIO_DEVICE_RESET succeeds or fails; the card may ignore it.
VfioReset(next) ==
  /\ pc = "cVfioReset"
  /\ IF {"device", "bar"} \subseteq has
     THEN \/ /\ KernelCloses /\ Goto("cRecovered") /\ UNCHANGED success
          \/ /\ UNCHANGED cardVars /\ Goto(next) /\ success' = FALSE
     ELSE UNCHANGED <<cardVars, success>> /\ Goto(next)
  /\ UNCHANGED <<run, n, loopVars, has, interrupted, started>>

\* reset_recovered
VfioRecovered(next) ==
  /\ pc = "cRecovered"
  /\ success' = (success /\ AllRingWordsZero /\ ReadDma = COLD_RESET
                         /\ AllDspsReady)
  /\ Goto(next)
  /\ UNCHANGED <<cardVars, run, n, loopVars, has, interrupted, started>>

\* One step of the release; what is not held is skipped.  A mapping that
\* could not be removed goes when the container is closed.
Release(from, order, next) ==
  /\ pc = from
  /\ \/ /\ has' = has \ (IF order[n] = "container" THEN {"container", "dma"}
                                                   ELSE {order[n]})
        /\ UNCHANGED success
     \/ /\ order[n] = "dma" /\ "dma" \in has
        /\ success' = FALSE
        /\ UNCHANGED has
  /\ IF order[n] = "device" /\ "device" \in has THEN KernelCloses
                                                ELSE UNCHANGED cardVars
  /\ IF n = Len(order) THEN Goto(next) /\ n' = 1
                       ELSE n' = n + 1 /\ UNCHANGED pc
  /\ UNCHANGED <<run, loopVars, interrupted, started>>

----------------------------------------------------------------------------
SessionTypeOK ==
  /\ CardTypeOK
  /\ run \in 0 .. MaxGen
  /\ n \in 1 .. 8
  /\ dsp \in DSPS /\ ring \in RINGS
  /\ toWrite \in SUBSET DescSlots /\ toClear \in SUBSET RingIds
  /\ has \in SUBSET Resources
  /\ interrupted \in BOOLEAN /\ started \in BOOLEAN /\ success \in BOOLEAN

(* Properties that every tool built on the session is to have.             *)

\* From its first register write to its exit the tool lets an engine run only
\* through complete descriptors of its own pages while the IOMMU maps them:
\* the enable shadow follows both rings of a DSP, and no way out unmaps or
\* frees before the engines are off.
ContainedDma ==
  started /\ pc # "killed" =>
    \A d \in DSPS : EngineLive(d) =>
      /\ {"memory", "dma"} \subseteq has
      /\ \A s \in DescSlots : s[1] = d => desc[s] = run

\* However the run ended, a signal, a failed check or a lost result included,
\* a card that still answers is left cold with no descriptor.
ExitLeavesCold ==
  pc = "exit" /\ started /\ linked =>
    /\ dmaCtl = COLD_RESET
    /\ \A s \in DescSlots : desc[s] = 0

\* The tool implements the abstract experiment: it writes only to a card that
\* it found clear, starts engines only over mapped pages, never unmaps under a
\* running engine, and unless it is killed ends over a clear card.
Contract == INSTANCE Experiment WITH
  phase   <- IF pc \in {"idle", "exit"} THEN "rest"
             ELSE IF pc = "killed" THEN "killed" ELSE "running",
  touched <- started,
  mapped  <- "dma" \in has,
  engines <- {d \in DSPS : EngineLive(d)},
  dirty   <- /\ linked
             /\ \/ \E s \in DescSlots : desc[s] # 0
                \/ \E x \in RingIds : idx[x].bell # 0 \/ idx[x].write # 0
ImplementsExperiment == Contract!Spec

\* docs/experiment-methodology.md: "For DMA experiments, cleanup first
\* reasserts cold DMA control. It then clears interrupt enables, ring indexes,
\* and page descriptors as applicable."
ColdBeforeClear ==
  [][(pc = "cClear" /\ pc' # "killed" /\ <<desc, idx>>' # <<desc, idx>>) =>
       dmaCtl = COLD_RESET]_<<cardVars, sessionVars>>
=============================================================================
