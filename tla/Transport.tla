----------------------------- MODULE Transport -----------------------------
(***************************************************************************)
(* What kernel/uad2_compute.c promises about the DMA engines of the card,  *)
(* with no register, mutex, descriptor or caller in sight: engines come up *)
(* one after the other on a stopped transport, the transport runs only     *)
(* when all of them are on, a reset takes one engine out and puts it back, *)
(* and a transport is stopped, or its device gone, only with every engine  *)
(* off.  ComputeDriver implements this specification.                      *)
(***************************************************************************)
EXTENDS Integers

CONSTANT NDsp   \* DSPs on the card

VARIABLES
  state,    \* "absent", "stopped" or "running"
  engines,  \* the DSPs whose engine can run
  lost      \* the card has fallen off the bus

tvars == <<state, engines, lost>>

All == 0 .. NDsp - 1

Init ==
  /\ state = "absent"
  /\ engines = {}
  /\ lost \in BOOLEAN

\* A probe creates a stopped transport.
Attach ==
  /\ state = "absent" /\ state' = "stopped"
  /\ UNCHANGED <<engines, lost>>

\* A start turns the engines on in the order of the DSPs.
EngineOn(d) ==
  /\ state = "stopped" /\ ~ lost
  /\ engines = 0 .. d - 1
  /\ engines' = 0 .. d
  /\ UNCHANGED <<state, lost>>

\* The start succeeds.
Commit ==
  /\ state = "stopped" /\ engines = All /\ ~ lost
  /\ state' = "running"
  /\ UNCHANGED <<engines, lost>>

\* A rollback or a stop turns all the engines off at once.
AllOff ==
  /\ engines' = {}
  /\ UNCHANGED <<state, lost>>

\* A stop comes to its end.
Stopped ==
  /\ state = "running" /\ engines = {}
  /\ state' = "stopped"
  /\ UNCHANGED <<engines, lost>>

\* A reset takes one engine out of a complete set, and puts it back.
ResetOff(d) ==
  /\ state = "running" /\ engines = All
  /\ engines' = All \ {d}
  /\ UNCHANGED <<state, lost>>

ResetOn(d) ==
  /\ state = "running" /\ engines = All \ {d}
  /\ engines' = All
  /\ UNCHANGED <<state, lost>>

\* A remove, or a probe that fails, gives the device up.
Detach ==
  /\ state = "stopped" /\ engines = {}
  /\ state' = "absent"
  /\ UNCHANGED <<engines, lost>>

\* The card falls off the bus, and every engine with it.
Vanish ==
  /\ ~ lost /\ lost' = TRUE
  /\ engines' = {}
  /\ UNCHANGED state

Next ==
  \/ Attach \/ Commit \/ AllOff \/ Stopped \/ Detach \/ Vanish
  \/ \E d \in All : EngineOn(d) \/ ResetOff(d) \/ ResetOn(d)

Spec == Init /\ [][Next]_tvars
=============================================================================
