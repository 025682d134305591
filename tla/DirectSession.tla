--------------------------- MODULE DirectSession ---------------------------
(***************************************************************************)
(* What the VFIO tools without a cleanup label share (experiments 003 to   *)
(* 006, 012, 020 and the status and DMA-map probes).  Every failed step    *)
(* ends in die(), that is in exit() with everything still open, and no     *)
(* signal is handled: the kernel closes what the process held.             *)
(***************************************************************************)
EXTENDS VfioSession

DirectRelease == <<"bar", "device", "set", "group", "container">>

\* die(): the exit status is a failure and the kernel closes the descriptors.
Die(held) ==
  /\ Goto("exit") /\ n' = 1 /\ has' = {} /\ success' = FALSE
  /\ IF "device" \in held THEN KernelCloses ELSE UNCHANGED cardVars
  /\ UNCHANGED <<run, loopVars, interrupted, started>>

\* A stage of the setup; the one that fails may have opened its descriptor.
OpenStages(order, next) ==
  \/ Acquire("setup", order, next)
  \/ /\ pc = "setup"
     /\ \E kept \in SUBSET ({order[n]} \cap HalfAcquired) : Die(has \cup kept)

Require(from, ok, next) ==
  /\ pc = from
  /\ \/ /\ ok
        /\ Goto(next)
        /\ UNCHANGED <<cardVars, run, n, loopVars, has, flagVars>>
     \/ ~ ok /\ Die(has)

\* VFIO_DEVICE_RESET; the card may ignore a call that succeeds.
ResetOrDie(from, next) ==
  /\ pc = from
  /\ \/ /\ KernelCloses /\ Goto(next)
        /\ UNCHANGED <<run, n, loopVars, has, flagVars>>
     \/ Die(has)

\* The cold state as these tools test it: they do not read the interrupt
\* enable register.
MatchesCold == AllRingWordsZero /\ AllDspsReady /\ ReadDma = COLD_RESET

Return(from, ok) ==
  /\ pc = from
  /\ success' = ok
  /\ Goto("release")
  /\ UNCHANGED <<cardVars, run, n, loopVars, has, interrupted, started>>
=============================================================================
