--------------------------- MODULE ReadOnlyTools ---------------------------
(***************************************************************************)
(* The VFIO tools that write no register: vfio_read_status.c,              *)
(* vfio_capability_snapshot.c and vfio_resource_layout.c read BAR0 and     *)
(* print what they read; vfio_dma_map.c maps one page without opening the  *)
(* device and checks that nobody writes to it.                             *)
(***************************************************************************)
EXTENDS DirectSession

VARIABLES
  kind,      \* the tool
  changed    \* the canary page has been written to

toolVars == <<kind, changed>>
vars == <<cardVars, sessionVars, toolVars>>

Kinds == {"status", "snapshot", "map"}

SetupOrder ==
  IF kind = "map" THEN <<"container", "group", "set", "memory", "dma">>
                  ELSE <<"container", "group", "set", "device", "bar">>

ReleaseOrder ==
  IF kind = "map" THEN <<"memory", "set", "group", "container">>
                  ELSE DirectRelease

Init ==
  /\ CardInit /\ SessionInit
  /\ kind = "status" /\ changed = FALSE

----------------------------------------------------------------------------
\* A usage error of the status tool and a page size that does not divide the
\* address return at once; the two snapshots have no such path.
Begin ==
  /\ Launch
  /\ kind' \in Kinds
  /\ pc' \in IF kind' = "snapshot" THEN {"setup"} ELSE {"setup", "exit"}
  /\ changed' = FALSE

Setup ==
  /\ OpenStages(SetupOrder, IF kind = "map" THEN "canary" ELSE "read")
  /\ UNCHANGED toolVars

\* The ready words are read twice with a wait between, then the ring words.
ReadStatus == kind = "status" /\ Return("read", TRUE) /\ UNCHANGED toolVars

\* The other registers, or the resource layout of the DSPs.  None of the tools
\* refuses a value that it reads.
ReadSnapshot == kind = "snapshot" /\ Return("read", TRUE) /\ UNCHANGED toolVars

\* After the wait every byte of the page must be the canary.
CheckCanary == Require("canary", ~ changed, "unmap") /\ UNCHANGED toolVars

\* VFIO_IOMMU_UNMAP_DMA fails or is partial, or the page is unmapped.
Unmap ==
  /\ pc = "unmap"
  /\ \/ /\ has' = has \ {"dma"} /\ success' = TRUE
        /\ Goto("release")
        /\ UNCHANGED <<cardVars, run, n, loopVars, interrupted, started>>
     \/ Die(has)
  /\ UNCHANGED toolVars

ReleaseAll == Release("release", ReleaseOrder, "exit") /\ UNCHANGED toolVars

\* The card writes to the page: nothing in this run has told it the address.
PageWrite ==
  /\ "dma" \in has /\ ~ changed /\ \E d \in DSPS : EngineLive(d)
  /\ changed' = TRUE
  /\ UNCHANGED <<cardVars, sessionVars, kind>>

Environment ==
  \/ Kill /\ UNCHANGED toolVars
  \/ CardStep /\ UNCHANGED <<sessionVars, toolVars>>
  \/ PageWrite

Main ==
  \/ Setup \/ ReadStatus \/ ReadSnapshot \/ CheckCanary \/ Unmap \/ ReleaseAll

Next == Begin \/ Main \/ Environment

Spec == Init /\ [][Next]_vars
=============================================================================
