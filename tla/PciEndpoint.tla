---------------------------- MODULE PciEndpoint ----------------------------
(***************************************************************************)
(* The endpoint as the Linux PCI core keeps it: the driver that is bound,  *)
(* the override attribute that the wrapper scripts write, the registered   *)
(* drivers and the bus-master bit.  The kernel is not part of the          *)
(* repository; these are the effects its scripts and modules count on.     *)
(*                                                                         *)
(* vfio-pci matches the endpoint only through the override attribute, the  *)
(* two modules of kernel/ only without it.  Bind, unbind and the write of  *)
(* the attribute take the device lock, which a probe in progress holds.    *)
(***************************************************************************)
EXTENDS Integers, FiniteSets, Sequences

CONSTANTS Scripts, Nobody

ASSUME ScriptsAssumption == Nobody \notin Scripts

VARIABLES
  bound,      \* the bound driver or "none"
  override,   \* driver_override: "vfio-pci" or ""
  loaded,     \* registered drivers
  master,     \* PCI_COMMAND_MASTER
  opened,     \* the script whose tool has the VFIO group open, or Nobody
  probe       \* where uad2_identity_probe is, "none" when it is not running

pciVars == <<bound, override, loaded, master, opened, probe>>

Unlocked == probe = "none"

\* Firmware may leave the bus-master bit set.
PciInit ==
  /\ bound = "none" /\ override = "" /\ loaded = {} /\ opened = Nobody
  /\ probe = "none"
  /\ master \in BOOLEAN

\* device_attach: the core offers the endpoint to the drivers that match it;
\* a probe may fail, and that of the identity module begins.
Attach(drivers) ==
  /\ Unlocked
  /\ \/ UNCHANGED <<bound, probe>>
     \/ /\ bound = "none" /\ override = "vfio-pci" /\ "vfio-pci" \in drivers
        /\ bound' = "vfio-pci" /\ UNCHANGED probe
     \/ /\ bound = "none" /\ override = "" /\ "uad2_compute" \in drivers
        /\ bound' = "uad2_compute" /\ UNCHANGED probe
     \/ /\ bound = "none" /\ override = "" /\ "uad2_identity" \in drivers
        /\ probe' = "enter" /\ UNCHANGED bound

\* insmod and rmmod of the modules of kernel/.  The compute driver refuses a
\* card whose engines run and leaves bus mastering off when it is unbound.
Insmod ==
  /\ \E d \in {"uad2_compute", "uad2_identity"} \ loaded :
       /\ loaded' = loaded \cup {d}
       /\ Attach({d})
  /\ UNCHANGED <<override, master, opened>>

Rmmod ==
  /\ Unlocked
  /\ \E d \in {"uad2_compute", "uad2_identity"} \cap loaded :
       /\ loaded' = loaded \ {d}
       /\ IF bound = d THEN bound' = "none" /\ master' = FALSE
                       ELSE UNCHANGED <<bound, master>>
  /\ UNCHANGED <<override, opened, probe>>

\* UAD2_START and UAD2_STOP of the compute driver
StartStop ==
  /\ bound = "uad2_compute"
  /\ master' \in BOOLEAN
  /\ UNCHANGED <<bound, override, loaded, opened, probe>>
=============================================================================
