---------------------------- MODULE RingControl ----------------------------
(***************************************************************************)
(* tools/vfio_ring_control.c, experiments 005 and 006: on a cold card with *)
(* no DMA mapping, write 1 to one index word of DSP 0, look at all ring    *)
(* words twice, write 0 back and reset the function.                       *)
(***************************************************************************)
EXTENDS DirectSession

VARIABLES
  target,   \* "bell" (DSP0_CMD_POINTER) or "write" (DSP0_CMD_DOORBELL)
  exact     \* after_write_exact, after_wait_exact and restored so far

toolVars == <<target, exact>>
vars == <<cardVars, sessionVars, toolVars>>

SetupOrder == <<"container", "group", "set", "device", "bar">>
Cmd0 == <<0, 0>>

Init == CardInit /\ SessionInit /\ target = "bell" /\ exact = FALSE

----------------------------------------------------------------------------
\* A usage error returns at once.
Begin ==
  /\ Launch
  /\ pc' \in {"setup", "exit"}
  /\ target' \in {"bell", "write"} /\ exact' = TRUE

Setup == OpenStages(SetupOrder, "baseline") /\ UNCHANGED toolVars

\* count_nonzero_ring_words and identity_and_dsps_match
Baseline == Require("baseline", MatchesCold, "writeOne") /\ UNCHANGED toolVars

WriteTarget(from, v, next) ==
  /\ pc = from
  /\ idx' = IF linked THEN [idx EXCEPT ![Cmd0][target] = v] ELSE idx
  /\ started' = TRUE
  /\ Goto(next)
  /\ UNCHANGED <<dmaCtl, desc, ready, intEn, linked, run, n, loopVars, has,
                 interrupted, success, toolVars>>

\* The target reads v and every other ring word zero, on a card otherwise cold.
OnlyTarget(v) ==
  /\ linked /\ AllDspsReady /\ ReadDma = COLD_RESET
  /\ \A s \in DescSlots : desc[s] = 0
  /\ \A x \in RingIds, f \in {"bell", "write", "read"} :
       idx[x][f] = IF x = Cmd0 /\ f = target THEN v ELSE 0

Observe(from, v, next) ==
  /\ pc = from
  /\ exact' = (exact /\ OnlyTarget(v))
  /\ Goto(next)
  /\ UNCHANGED <<cardVars, run, n, loopVars, has, flagVars, target>>

\* Mutant: a word that did not read back as expected ends the run at once.
Sequence_DieOnMismatch ==
  \/ WriteTarget("writeOne", 1, "afterWrite")
  \/ Require("afterWrite", OnlyTarget(1), "afterWait") /\ UNCHANGED toolVars
  \/ Observe("afterWait", 1, "writeZero")
  \/ WriteTarget("writeZero", 0, "afterRestore")
  \/ Observe("afterRestore", 0, "reset")

\* An observation that fails is remembered and the sequence goes on.
Sequence ==
  \/ WriteTarget("writeOne", 1, "afterWrite")
  \/ Observe("afterWrite", 1, "afterWait")
  \/ Observe("afterWait", 1, "writeZero")
  \/ WriteTarget("writeZero", 0, "afterRestore")
  \/ Observe("afterRestore", 0, "reset")

DeviceReset == ResetOrDie("reset", "recovered") /\ UNCHANGED toolVars

\* reset_recovered and rc
Verdict == Return("recovered", exact /\ MatchesCold) /\ UNCHANGED toolVars

ReleaseAll == Release("release", DirectRelease, "exit") /\ UNCHANGED toolVars

Environment ==
  \/ Kill /\ UNCHANGED toolVars
  \/ CardStep /\ UNCHANGED <<sessionVars, toolVars>>

Main ==
  Setup \/ Baseline \/ Sequence \/ DeviceReset \/ Verdict \/ ReleaseAll

Next == Begin \/ Main \/ Environment

Spec == Init /\ [][Next]_vars
=============================================================================
