---------------------------- MODULE VfioWrapper ----------------------------
(***************************************************************************)
(* The wrapper scripts tools/uad2-vfio-*.sh: each checks the endpoint,     *)
(* installs a cleanup trap, binds vfio-pci through driver_override, runs   *)
(* its tool and lets the EXIT trap unbind.  They run on one endpoint with  *)
(* signals, a second wrapper, and the two modules of kernel/ being loaded. *)
(*                                                                         *)
(* A trapped signal waits for the foreground command; then cleanup runs    *)
(* and, as it does not exit, the script goes on with its next line.        *)
(***************************************************************************)
EXTENDS IdentityDriver

CONSTANT MaxSignals   \* bound on the signals of a behaviour

ASSUME SignalsAssumption == MaxSignals \in Nat

VARIABLES
  todo,      \* lines of each script still to be run, the current one first
  trapped,   \* scripts whose trap is installed
  pending,   \* scripts that a signal waits for
  checks,    \* scripts that read the command register (most wrappers do)
  running,   \* scripts whose tool is running
  signals,   \* number of signals sent
  upset,     \* scripts hit by a signal, or by the cleanup of another one
  astray     \* scripts whose drivers_probe reached another driver, or whose
             \* tool found no VFIO group

scriptVars == <<todo, trapped, pending, checks, running, signals,
                upset, astray>>
vars == <<identityVars, scriptVars>>

\* Mutant: the endpoint is probed before the attribute is written.
Script_ProbeFirst ==
  <<"bound", "command", "other", "trap", "modprobe", "drivers_probe",
    "driver_override", "verify", "tool">>

Script ==
  <<"bound", "command", "other", "trap", "modprobe", "driver_override",
    "drivers_probe", "verify", "tool">>

\* Mutant: the attribute keeps its value.
Cleanup_KeepOverride == <<"unbind">>

Cleanup == <<"unbind", "clear">>

Init ==
  /\ PciInit /\ holds = {}
  /\ todo = [s \in Scripts |-> Script]
  /\ trapped = {} /\ pending = {} /\ running = {} /\ signals = 0
  /\ upset = {} /\ astray = {}
  /\ checks \in SUBSET Scripts

----------------------------------------------------------------------------
(* The shell.                                                              *)

\* A command of the script begins when no trapped signal is waiting.
Line(s, line) ==
  /\ todo[s] # <<>> /\ Head(todo[s]) = line
  /\ s \notin pending /\ s \notin running

Proceed(s) == todo' = [todo EXCEPT ![s] = Tail(@)]

\* exit, or a command that fails under set -e: the EXIT trap, once installed,
\* runs cleanup.
Leave(s) == todo' = [todo EXCEPT ![s] = IF s \in trapped THEN Cleanup ELSE <<>>]

Ended(s) == todo[s] = <<>>

\* What the lines below leave alone.
Others == <<trapped, pending, checks, running, signals>>

\* A check passes, or the script refuses.
Refusal(s, line, pass) ==
  /\ Line(s, line)
  /\ \/ pass /\ Proceed(s)
     \/ Leave(s)
  /\ UNCHANGED <<identityVars, Others, upset, astray>>

\* The endpoint is absent or already bound, the bus master is enabled (unless
\* the wrapper lacks the test), or the arguments, the user, the identity, the
\* IOMMU group or the tool are not the expected ones.
Checks(s) ==
  \/ Refusal(s, "bound", bound = "none")
  \/ Refusal(s, "command", s \in checks => ~ master)
  \/ Refusal(s, "other", TRUE)

InstallTrap(s) ==
  /\ Line(s, "trap") /\ Proceed(s)
  /\ trapped' = trapped \cup {s}
  /\ UNCHANGED <<identityVars, pending, checks, running, signals, upset, astray>>

\* modprobe fails, or registers vfio-pci, which binds at once where the
\* attribute of another wrapper asks for it.
Modprobe(s) ==
  /\ Line(s, "modprobe")
  /\ \/ /\ Proceed(s)
        /\ loaded' = loaded \cup {"vfio-pci"}
        /\ Attach({"vfio-pci"} \ loaded)
     \/ Leave(s) /\ UNCHANGED <<loaded, bound, probe>>
  /\ UNCHANGED <<override, master, opened, holds, Others, upset, astray>>

\* The write takes the device lock, or it fails.
DriverOverride(s) ==
  /\ Line(s, "driver_override")
  /\ \/ Unlocked /\ Proceed(s) /\ override' = "vfio-pci"
     \/ Leave(s) /\ UNCHANGED override
  /\ UNCHANGED <<bound, loaded, master, opened, probe, holds, Others, upset, astray>>

\* A write that fails starts no probe.
DriversProbe(s) ==
  /\ Line(s, "drivers_probe")
  /\ \/ /\ Proceed(s)
        /\ Attach(loaded)
        /\ astray' = IF probe' # "none" \/ (bound = "none" /\ bound' = "uad2_compute")
                     THEN astray \cup {s} ELSE astray
     \/ Leave(s) /\ UNCHANGED <<bound, probe, astray>>
  /\ UNCHANGED <<override, loaded, master, opened, holds, Others, upset>>

\* Mutant: a bind that did not take is tried again.
Verify_Retry(s) ==
  /\ Line(s, "verify") /\ Unlocked
  /\ IF bound = "vfio-pci" THEN Proceed(s)
     ELSE todo' = [todo EXCEPT ![s] = <<"drivers_probe">> \o @]
  /\ UNCHANGED <<identityVars, Others, upset, astray>>

\* The write to drivers_probe returns when the probe that it started is over.
Verify(s) ==
  /\ Line(s, "verify") /\ Unlocked
  /\ IF bound = "vfio-pci" THEN Proceed(s) ELSE Leave(s)
  /\ UNCHANGED <<identityVars, Others, upset, astray>>

----------------------------------------------------------------------------
(* The tool: it opens the VFIO group, which exists while vfio-pci is bound *)
(* and can be opened once, works, and ends with any status.                *)

ToolStart(s) ==
  /\ Line(s, "tool")
  /\ running' = running \cup {s}
  /\ UNCHANGED <<identityVars, todo, trapped, pending, checks, signals, upset, astray>>

ToolOpen(s) ==
  /\ s \in running /\ opened = Nobody /\ bound = "vfio-pci"
  /\ opened' = s
  /\ UNCHANGED <<bound, override, loaded, master, probe, holds, scriptVars>>

ToolEnd(s) ==
  /\ s \in running
  /\ running' = running \ {s}
  /\ opened' = IF opened = s THEN Nobody ELSE opened
  /\ astray' = IF bound # "vfio-pci" THEN astray \cup {s} ELSE astray
  /\ Leave(s)
  /\ UNCHANGED <<bound, override, loaded, master, probe, holds, trapped, pending,
                 checks, signals, upset>>

----------------------------------------------------------------------------
(* cleanup, from the EXIT trap or from a signal.                           *)

Disturbs(s) == upset' = upset \cup {t \in trapped \ {s} : ~ Ended(t)}

\* vfio-pci is unbound when its group is closed.
Unbind(s) ==
  /\ Line(s, "unbind")
  /\ IF bound = "vfio-pci"
     THEN Unlocked /\ opened = Nobody /\ bound' = "none" /\ Disturbs(s)
     ELSE UNCHANGED <<bound, upset>>
  /\ Proceed(s)
  /\ UNCHANGED <<override, loaded, master, opened, probe, holds, Others, astray>>

ClearOverride(s) ==
  /\ Line(s, "clear") /\ Unlocked
  /\ Proceed(s)
  /\ override' = "" /\ Disturbs(s)
  /\ UNCHANGED <<bound, loaded, master, opened, probe, holds, Others, astray>>

\* Before the trap is installed a signal ends the script.
Signal(s) ==
  /\ ~ Ended(s) /\ signals < MaxSignals
  /\ signals' = signals + 1
  /\ upset' = upset \cup {s}
  /\ IF s \in trapped THEN pending' = pending \cup {s} /\ UNCHANGED todo
                     ELSE todo' = [todo EXCEPT ![s] = <<>>] /\ UNCHANGED pending
  /\ UNCHANGED <<identityVars, trapped, checks, running, astray>>

\* Between two commands the trap runs, and the script goes on after it.
RunTrap(s) ==
  /\ s \in pending \ running
  /\ pending' = pending \ {s}
  /\ todo' = [todo EXCEPT ![s] = Cleanup \o @]
  /\ UNCHANGED <<identityVars, trapped, checks, running, signals, upset, astray>>

----------------------------------------------------------------------------
Step(s) ==
  \/ Checks(s) \/ InstallTrap(s) \/ Modprobe(s) \/ DriverOverride(s)
  \/ DriversProbe(s) \/ Verify(s) \/ ToolStart(s) \/ ToolEnd(s)
  \/ Unbind(s) \/ ClearOverride(s) \/ RunTrap(s)

Identity == IdentityProbe /\ UNCHANGED scriptVars

Environment ==
  \/ (Insmod \/ Rmmod \/ StartStop) /\ UNCHANGED <<holds, scriptVars>>
  \/ \E s \in Scripts : Signal(s)

Next ==
  (\E s \in Scripts : Step(s) \/ ToolOpen(s)) \/ Identity \/ Environment

Spec == Init /\ [][Next]_vars

\* A shell goes on with its next line and every tool comes to its end; the
\* device lock is handed over in the order in which it was asked for.
FairSpec == Spec /\ WF_vars(Identity) /\ \A s \in Scripts : SF_vars(Step(s))

----------------------------------------------------------------------------
\* When the last wrapper has ended, however often cleanup ran and whatever was
\* interrupted, vfio-pci is not bound and the attribute is empty, so that the
\* endpoint is free for the driver of kernel/.
LastLeavesUnbound ==
  (\A s \in Scripts : Ended(s)) => bound # "vfio-pci" /\ override = ""

\* A wrapper that no signal and no cleanup of another wrapper has hit hands the
\* endpoint to vfio-pci and to no other registered driver, and its tool finds
\* the VFIO group there.
OnlyUpsetGoAstray == astray \subseteq upset

\* Every wrapper ends, also one whose cleanup waits for the tool of another
\* wrapper to close the group.
WrappersEnd == \A s \in Scripts : <>[]Ended(s)

\* docs/experiment-methodology.md, required preconditions: "PCI bus mastering
\* is off before VFIO owns the endpoint. [...] Any mismatch is a refusal".
MasterOffAtBind ==
  [][bound # "vfio-pci" /\ bound' = "vfio-pci" => ~ master]_vars
=============================================================================
