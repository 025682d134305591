--------------------------- MODULE IdentityDriver ---------------------------
(***************************************************************************)
(* kernel/uad2_identity.c: a driver whose probe enables the endpoint, maps *)
(* BAR0, reads six words, gives everything back and refuses to bind.       *)
(***************************************************************************)
EXTENDS PciEndpoint

VARIABLE holds    \* what the probe has acquired: "enable", "region", "map"

identityVars == <<pciVars, holds>>

At(stage) == probe = stage /\ UNCHANGED <<bound, override, loaded, master, opened>>

\* BAR0 of another length, an unreadable command register or an enabled bus
\* master is refused before anything is acquired.
ProbeEnter ==
  /\ At("enter") /\ UNCHANGED holds
  /\ \/ ~ master /\ probe' = "enable"
     \/ probe' = "none"

\* One acquisition, or the label that undoes the earlier ones.
ProbeAcquire(stage, next, label) ==
  /\ At(stage)
  /\ \/ holds' = holds \cup {stage} /\ probe' = next
     \/ UNCHANGED holds /\ probe' = label

ProbeRead == At("read") /\ probe' = "unmap" /\ UNCHANGED holds

ProbeRelease(stage, what, next) ==
  At(stage) /\ holds' = holds \ {what} /\ probe' = next

\* Mutant: a region that is taken returns at once.
IdentityProbe_NoDisable ==
  \/ ProbeEnter
  \/ ProbeAcquire("enable", "region", "none")
  \/ ProbeAcquire("region", "map", "none")
  \/ ProbeAcquire("map", "read", "release")
  \/ ProbeRead
  \/ ProbeRelease("unmap", "map", "release")
  \/ ProbeRelease("release", "region", "disable")
  \/ ProbeRelease("disable", "enable", "none")

IdentityProbe ==
  \/ ProbeEnter
  \/ ProbeAcquire("enable", "region", "none")
  \/ ProbeAcquire("region", "map", "disable")
  \/ ProbeAcquire("map", "read", "release")
  \/ ProbeRead
  \/ ProbeRelease("unmap", "map", "release")
  \/ ProbeRelease("release", "region", "disable")
  \/ ProbeRelease("disable", "enable", "none")

\* The registers are read only while the endpoint is enabled, claimed and
\* mapped with its bus master off, whoever started the probe and whatever else
\* happens to the endpoint, and a probe that is over has left nothing behind.
IdentityLeavesNothing ==
  /\ probe = "read" => holds = {"enable", "region", "map"} /\ ~ master
  /\ probe = "none" => holds = {}
=============================================================================
