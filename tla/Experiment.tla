----------------------------- MODULE Experiment -----------------------------
(***************************************************************************)
(* What every experiment on the card promises, whatever its steps are      *)
(* (docs/experiment-methodology.md): it writes only to a card that it      *)
(* found clear, engines run only over mapped pages, and unless the process *)
(* is killed the card is clear again when it ends.                         *)
(***************************************************************************)
CONSTANT DSPS

VARIABLES
  phase,     \* "rest", "running" or "killed"
  touched,   \* this run has begun to write
  mapped,    \* pages are mapped for the card
  engines,   \* DSPs whose engine runs
  dirty      \* a word that the host owns is not zero

vars == <<phase, touched, mapped, engines, dirty>>

Init ==
  /\ phase = "rest" /\ ~ touched /\ ~ mapped
  /\ engines = {} /\ ~ dirty

\* A run that has written ends over a clear card; one that has not leaves the
\* card as it was found.
Safe == touched => engines = {} /\ ~ dirty

\* A process that starts may also refuse its arguments and end at once.
Begin ==
  /\ phase # "running" /\ phase' \in {"running", "rest"}
  /\ ~ touched'
  /\ UNCHANGED <<mapped, engines, dirty>>

Map ==
  /\ phase = "running" /\ ~ touched /\ ~ mapped
  /\ mapped'
  /\ UNCHANGED <<phase, touched, engines, dirty>>

\* The first write finds no engine running and no word set.
Write ==
  /\ phase = "running" /\ (touched \/ (engines = {} /\ ~ dirty))
  /\ touched' /\ dirty' \in BOOLEAN
  /\ UNCHANGED <<phase, mapped, engines>>

Start ==
  /\ phase = "running" /\ touched /\ mapped
  /\ engines' \in SUBSET DSPS /\ engines \subseteq engines'
  /\ UNCHANGED <<phase, touched, mapped, dirty>>

Stop ==
  /\ engines' \in SUBSET engines
  /\ phase = "running"
  /\ UNCHANGED <<phase, touched, mapped, dirty>>

\* A function reset that takes effect, or the loss of the card.
Clear ==
  /\ engines' = {} /\ ~ dirty'
  /\ UNCHANGED <<phase, touched, mapped>>

Unmap ==
  /\ phase = "running" /\ (touched => engines = {})
  /\ ~ mapped'
  /\ UNCHANGED <<phase, touched, engines, dirty>>

\* The end of a process that exits: what it still has open is closed for it.
End ==
  /\ phase = "running" /\ phase' = "rest"
  /\ Safe /\ ~ mapped'
  /\ \/ UNCHANGED <<engines, dirty>>
     \/ engines' = {} /\ ~ dirty'
  /\ UNCHANGED touched

\* A process that is killed leaves the card as it was at that moment, or reset.
Die ==
  /\ phase = "running" /\ phase' = "killed"
  /\ ~ mapped'
  /\ \/ UNCHANGED <<engines, dirty>>
     \/ engines' = {} /\ ~ dirty'
  /\ UNCHANGED touched

Next ==
  \/ Begin \/ Map \/ Write \/ Start \/ Stop \/ Clear \/ Unmap \/ End \/ Die

Spec == Init /\ [][Next]_vars
=============================================================================
