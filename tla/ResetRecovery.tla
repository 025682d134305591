--------------------------- MODULE ResetRecovery ---------------------------
(***************************************************************************)
(* tools/vfio_reset_recovery.c, experiment 003: one function reset of a    *)
(* cold card without any register write, then a poll until the card is     *)
(* cold again or the time is over.                                         *)
(***************************************************************************)
EXTENDS DirectSession

CONSTANT Polls      \* bound on the snapshots (about 100 fit in the timeout)

VARIABLE poll       \* snapshots taken after the reset

vars == <<cardVars, sessionVars, poll>>

SetupOrder == <<"container", "group", "set", "device", "bar">>

Init == CardInit /\ SessionInit /\ poll = 0

----------------------------------------------------------------------------
Begin == Launch /\ pc' = "setup" /\ poll' = 0

Setup == OpenStages(SetupOrder, "baseline") /\ UNCHANGED poll

\* take_snapshot and snapshot_matches_cold
Baseline == Require("baseline", MatchesCold, "reset") /\ UNCHANGED poll

DeviceReset == ResetOrDie("reset", "recovery") /\ UNCHANGED poll

\* One turn of the do loop: it looks at the card before it looks at the clock,
\* which may have run out after any snapshot, the first one included.
Recovery ==
  /\ pc = "recovery"
  /\ poll' = poll + 1
  /\ \/ Return("recovery", MatchesCold)
     \/ ~ MatchesCold /\ poll + 1 < Polls /\ UNCHANGED <<cardVars, sessionVars>>

ReleaseAll == Release("release", DirectRelease, "exit") /\ UNCHANGED poll

Environment ==
  \/ Kill /\ UNCHANGED poll
  \/ CardStep /\ UNCHANGED <<sessionVars, poll>>

Main == Setup \/ Baseline \/ DeviceReset \/ Recovery \/ ReleaseAll

Next == Begin \/ Main \/ Environment

Spec == Init /\ [][Next]_vars
=============================================================================
